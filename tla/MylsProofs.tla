----------------------------- MODULE MylsProofs ------------------------------
(***************************************************************************)
(* Theorems about myls and the redirections of myps, for every directory,  *)
(* every set of commands run at the same time and every length of output:  *)
(* where descriptors go, what myls lists, what commands leave in files they*)
(* write alone or append to together, and the total that myls has added up.*)
(***************************************************************************)
EXTENDS Myls, Recurrence, SequenceTheorems, FiniteSetTheorems

-----------------------------------------------------------------------------
(* Redirections.                                                           *)

\* Descriptors before and after open().
Initiaux(p) == [d \in 0 .. 4 |->
                  CASE d = 0 -> cmd[p].entree [] d = 1 -> cmd[p].sortie
                    [] d = 2 -> "terminal" [] OTHER -> Ferme]
Recu(p) == IF cmd[p].entree = Ferme THEN 0 ELSE 3
Ouverts(p) == [Initiaux(p) EXCEPT ![Recu(p)] = Fichier]

\* What BienBranche says of one process.
Branche(p) ==
    \/ BrancheSur(p, Demande(p))
    \/ /\ type[p] = "" /\ cmd[p].op # ""
       /\ \E vers \in {{}, {0}, {1, 2}} : BrancheSur(p, vers)

(* The way to it: nothing moves before open(), which then takes 0 or 3.    *)
(* What was recognised is the operator of the command, and decides.        *)
Etapes(p) ==
    /\ type[p] \in {"", cmd[p].op}
    /\ pc[p] = "debut" => type[p] = ""
    /\ pc[p] \in {"ouvre", "cree", "branche"} =>
           /\ cmd[p].op # "" /\ opt[p].cas # "rien"
           /\ type[p] # "" => opt[p] = Choix(type[p])
    /\ cmd[p].sortie # Ferme =>
           /\ pc[p] \in {"debut", "ouvre", "cree"} => fds[p] = Initiaux(p)
           /\ pc[p] = "branche" => id[p] = Recu(p) /\ fds[p] = Ouverts(p)
           /\ pc[p] \in {"lit", "marche", "fini", "avorte"} => Branche(p)

Tableaux == /\ pc = [p \in Procs |-> pc[p]]
            /\ type = [p \in Procs |-> type[p]]
            /\ opt = [p \in Procs |-> opt[p]]
            /\ id = [p \in Procs |-> id[p]]
            /\ fds = [p \in Procs |-> fds[p]]

Redirige == cmd \in Commandes /\ Tableaux /\ \A p \in Procs : Etapes(p)

LEMMA Types ==
  ASSUME cmd \in Commandes, NEW p \in Procs
  PROVE  /\ cmd[p].op \in Operateurs \cup {""} /\ cmd[p].nom \in Noms
         /\ cmd[p].entree \in {"terminal", "tube", Ferme}
         /\ cmd[p].sortie \in {"terminal", "tube", Ferme}
  BY CommandesAssumption DEF Procs

LEMMA InitRedirige == RedirInit => Redirige
  BY DEF RedirInit, Redirige, Tableaux, Etapes, Initiaux

(* The lowest descriptor that is free, when the ones below are known.      *)
LEMMA LibreEst ==
  ASSUME NEW t, DOMAIN t = 0 .. 4, NEW d \in 0 .. 4, t[d] = Ferme,
         \A e \in 0 .. 4 : e < d => t[e] # Ferme
  PROVE  Libre(t) = d
<1> DEFINE S == {e \in DOMAIN t : t[e] = Ferme}
<1>1. S \subseteq Nat /\ S # {} /\ d \in S
  OBVIOUS
<1>2. Min(S) \in S /\ Min(S) <= d
  BY <1>1, Moindre
<1> QED
  BY <1>2 DEF Libre

LEMMA LibreInitial ==
  ASSUME cmd \in Commandes, NEW p \in Procs, cmd[p].sortie # Ferme
  PROVE  Libre(Initiaux(p)) = Recu(p)
<1>1. DOMAIN Initiaux(p) = 0 .. 4 /\ Recu(p) \in 0 .. 4
  BY DEF Initiaux, Recu
<1>2. Initiaux(p)[Recu(p)] = Ferme
  BY DEF Initiaux, Recu
<1>3. \A e \in 0 .. 4 : e < Recu(p) => Initiaux(p)[e] # Ferme
  <2> SUFFICES ASSUME NEW e \in 0 .. 4, e < Recu(p)
               PROVE  Initiaux(p)[e] # Ferme
    OBVIOUS
  <2>1. e \in {0, 1, 2} /\ cmd[p].entree # Ferme
    BY DEF Recu
  <2> QED
    BY <2>1 DEF Initiaux, Ferme
<1> QED
  BY <1>1, <1>2, <1>3, LibreEst

(* close and dup do what dup2 does: every descriptor below is open.        *)
LEMMA RemplacerEst ==
  ASSUME cmd \in Commandes, NEW p \in Procs, cmd[p].sortie # Ferme,
         NEW s \in {0, 1, 2}, s = 0 => Recu(p) # 0
  PROVE  Remplacer(Ouverts(p), s, Recu(p)) = [Ouverts(p) EXCEPT ![s] = Fichier]
<1> DEFINE t == Close(Ouverts(p), s)
<1>0. Recu(p) # s
  BY DEF Recu
<1>1. DOMAIN t = 0 .. 4 /\ t[s] = Ferme /\ t[Recu(p)] = Fichier
  BY <1>0 DEF Close, Ouverts, Initiaux, Recu
<1>2. \A e \in 0 .. 4 : e < s => t[e] # Ferme
  <2> SUFFICES ASSUME NEW e \in 0 .. 4, e < s
               PROVE  t[e] # Ferme
    OBVIOUS
  <2>1. e \in {0, 1} /\ e # s
    OBVIOUS
  <2>2. t[e] = Ouverts(p)[e]
    BY <2>1 DEF Close, Ouverts, Initiaux
  <2>3. CASE e = 0
    BY <2>2, <2>3 DEF Ouverts, Initiaux, Recu, Ferme, Fichier
  <2>4. CASE e = 1
    BY <2>2, <2>4 DEF Ouverts, Initiaux, Recu
  <2> QED
    BY <2>1, <2>3, <2>4
<1>3. Libre(t) = s
  BY <1>1, <1>2, LibreEst
<1>4. Dup(t, Recu(p)) = [t EXCEPT ![s] = Fichier]
  BY <1>1, <1>3 DEF Dup
<1>5. [t EXCEPT ![s] = Fichier] = [Ouverts(p) EXCEPT ![s] = Fichier]
  <2> DEFINE o == Ouverts(p)
  <2>1. o = [d \in 0 .. 4 |-> o[d]]
    BY DEF Ouverts, Initiaux
  <2> HIDE DEF o
  <2>2. [[o EXCEPT ![s] = Ferme] EXCEPT ![s] = Fichier] = [o EXCEPT ![s] = Fichier]
    BY <2>1
  <2> QED
    BY <2>2 DEF Close, o
<1> QED
  BY <1>4, <1>5 DEF Remplacer

(* A step of a process concerns no other.                                  *)
Seul(p) == /\ cmd' = cmd /\ Tableaux'
           /\ \A q \in Procs \ {p} : /\ pc'[q] = pc[q] /\ type'[q] = type[q]
                                     /\ id'[q] = id[q] /\ fds'[q] = fds[q]
                                     /\ opt'[q] = opt[q]

LEMMA Commande1 ==
  ASSUME cmd' = cmd, NEW p \in Procs
  PROVE  Initiaux(p)' = Initiaux(p) /\ Recu(p)' = Recu(p) /\ Ouverts(p)' = Ouverts(p)
<1>1. Initiaux(p)' = Initiaux(p)
  BY DEF Initiaux
<1>2. Recu(p)' = Recu(p)
  BY DEF Recu
<1> QED
  BY <1>1, <1>2 DEF Ouverts

LEMMA PasSeul ==
  ASSUME Redirige, NEW p \in Procs, Seul(p), Etapes(p)'
  PROVE  Redirige'
<1>1. ASSUME NEW q \in Procs \ {p}
      PROVE  Etapes(q)'
  <2>1. Initiaux(q)' = Initiaux(q) /\ Recu(q)' = Recu(q) /\ Ouverts(q)' = Ouverts(q)
    BY Commande1 DEF Seul
  <2>2. /\ pc'[q] = pc[q] /\ type'[q] = type[q] /\ id'[q] = id[q] /\ fds'[q] = fds[q]
        /\ opt'[q] = opt[q] /\ cmd' = cmd /\ Etapes(q)
    BY DEF Redirige, Seul
  <2>3. Branche(q) => Branche(q)'
    BY <2>2 DEF Branche, BrancheSur, Demande, Entree
  <2> QED
    BY <2>1, <2>2, <2>3 DEF Etapes
<1> QED
  BY <1>1 DEF Redirige, Seul, Procs

LEMMA DebutBranche ==
  ASSUME NEW p \in Procs, fds[p] = Initiaux(p)
  PROVE  BrancheSur(p, {})
<1>1. /\ Initiaux(p)[0] = cmd[p].entree /\ Initiaux(p)[1] = cmd[p].sortie
      /\ Initiaux(p)[2] = "terminal"
  BY DEF Initiaux
<1> QED
  BY <1>1 DEF BrancheSur, Entree

LEMMA ReconnaitreEtapes ==
  ASSUME Redirige, NEW p \in Procs, Reconnaitre(p)
  PROVE  Seul(p) /\ Etapes(p)'
<1>1. Seul(p) /\ pc[p] = "debut" /\ pc'[p] \in {"ouvre", "lit", "echec"}
      /\ type[p] = "" /\ fds' = fds /\ cmd' = cmd
  BY DEF Reconnaitre, Redirige, Tableaux, Seul, Procs, Etapes
<1>0. Initiaux(p)' = Initiaux(p) /\ (cmd[p].sortie # Ferme => fds[p] = Initiaux(p))
  BY <1>1, Commande1 DEF Seul, Redirige, Etapes
<1>2. type'[p] \in {"", cmd[p].op}
  BY <1>1 DEF Reconnaitre, Redirige, Tableaux
<1>3. pc'[p] = "ouvre" => /\ cmd[p].op # "" /\ opt'[p].cas # "rien"
                          /\ type'[p] # "" => opt'[p] = Choix(type'[p])
  <2>1. ASSUME cmd[p].op # "", opt' = [opt EXCEPT ![p] = Choix(cmd[p].op)],
               type' = [type EXCEPT ![p] = cmd[p].op]
        PROVE  opt'[p].cas # "rien" /\ opt'[p] = Choix(type'[p])
    <3>1. type'[p] = cmd[p].op /\ opt'[p] = Choix(cmd[p].op)
      BY <2>1 DEF Redirige, Tableaux
    <3>2. Choix(cmd[p].op).cas # "rien"
      BY DEF Choix
    <3> QED
      BY <3>1, <3>2
  <2>2. ASSUME NEW r \in Restes, opt' = [opt EXCEPT ![p] = r], UNCHANGED type,
               pc' = [pc EXCEPT ![p] = IF r.cas = "rien" THEN "lit"
                                       ELSE IF cmd[p].blanc THEN "echec" ELSE "ouvre"],
               pc'[p] = "ouvre"
        PROVE  opt'[p].cas # "rien" /\ type'[p] = ""
    <3>1. opt'[p] = r /\ r.cas # "rien"
      BY <2>2 DEF Redirige, Tableaux
    <3> QED
      BY <1>1, <2>2, <3>1
  <2>3. pc'[p] = "ouvre" => cmd[p].op # ""
    BY DEF Reconnaitre, Redirige, Tableaux
  <2> QED
    BY <1>1, <2>1, <2>2, <2>3 DEF Reconnaitre
<1>4. pc'[p] = "lit" /\ cmd[p].sortie # Ferme => Branche(p)'
  <2> SUFFICES ASSUME pc'[p] = "lit", cmd[p].sortie # Ferme PROVE Branche(p)'
    OBVIOUS
  <2>1. BrancheSur(p, {})'
    <3>1. BrancheSur(p, {})
      BY <1>0, DebutBranche
    <3> QED
      BY <1>1, <3>1 DEF BrancheSur, Entree
  <2>2. type'[p] = ""
    BY <1>1 DEF Reconnaitre, Redirige, Tableaux
  <2>3. CASE cmd[p].op = ""
    <3>1. Demande(p)' = {}
      BY <1>1, <2>3 DEF Demande, Sorties, Lecture
    <3> QED
      BY <2>1, <3>1 DEF Branche
  <2>4. CASE cmd[p].op # ""
    BY <1>1, <2>1, <2>2, <2>4 DEF Branche
  <2> QED
    BY <2>3, <2>4
<1> QED
  BY <1>0, <1>1, <1>2, <1>3, <1>4 DEF Seul, Etapes

LEMMA OpenEtapes ==
  ASSUME Redirige, NEW p \in Procs, pc[p] \in {"ouvre", "cree"},
         NEW o, Open(p, o), UNCHANGED <<cmd, type, opt>>
  PROVE  Seul(p) /\ Etapes(p)'
<1>1. Seul(p) /\ pc'[p] = "branche" /\ type'[p] = type[p] /\ opt'[p] = opt[p]
      /\ id'[p] = Libre(fds[p]) /\ fds'[p] = [fds[p] EXCEPT ![Libre(fds[p])] = Fichier]
  BY DEF Open, Redirige, Tableaux, Seul, Procs
<1>2. ASSUME cmd[p].sortie # Ferme
      PROVE  id'[p] = Recu(p) /\ fds'[p] = Ouverts(p)
  <2>1. fds[p] = Initiaux(p) /\ Libre(Initiaux(p)) = Recu(p)
    BY <1>2, LibreInitial DEF Redirige, Etapes
  <2> QED
    BY <1>1, <2>1 DEF Ouverts
<1>3. Etapes(p) /\ Recu(p)' = Recu(p) /\ Ouverts(p)' = Ouverts(p)
  BY Commande1 DEF Redirige
<1> QED
  BY <1>1, <1>2, <1>3 DEF Seul, Etapes

LEMMA OuvrirEtapes ==
  ASSUME Redirige, NEW p \in Procs, Ouvrir(p) \/ Creer(p)
  PROVE  Seul(p) /\ Etapes(p)'
<1>0. pc[p] \in {"ouvre", "cree"} /\ UNCHANGED <<cmd, type, opt>>
  BY DEF Ouvrir, Creer
<1>1. ASSUME NEW o, Open(p, o)
      PROVE  Seul(p) /\ Etapes(p)'
  BY <1>0, <1>1, OpenEtapes
<1>2. ASSUME NEW o, OpenEchoue(p, o)
      PROVE  Seul(p) /\ Etapes(p)'
  <2>1. Seul(p) /\ pc'[p] \in {"cree", "echec"} /\ fds' = fds
    BY <1>0, <1>2 DEF OpenEchoue, Redirige, Tableaux, Seul, Procs
  <2>2. Initiaux(p)' = Initiaux(p) /\ Etapes(p)
    BY <2>1, Commande1 DEF Seul, Redirige
  <2> QED
    BY <1>0, <2>1, <2>2 DEF Seul, Etapes
<1>3. (\E o : Open(p, o)) \/ (\E o : OpenEchoue(p, o))
  BY DEF Ouvrir, Creer
<1> QED
  BY <1>1, <1>2, <1>3

(* What the switch does when the operator was recognised.                  *)
LEMMA ChoixCas ==
  ASSUME NEW op \in Operateurs
  PROVE  /\ Choix(op).cas = "un" => op # Lecture /\ (Sorties(op) = {1} \/ Sorties(op) = {2})
         /\ Choix(op).cas = "deux" => op # Lecture /\ Sorties(op) = {1, 2}
         /\ Choix(op).cas = "entree" <=> op = Lecture
<1>0. Sorties(Lecture) # {1, 2}
  BY DEF Sorties, Lecture
<1>1. op = Lecture => Choix(op).cas = "entree"
  BY <1>0 DEF Choix
<1>2. op # Lecture /\ Sorties(op) = {1, 2} => Choix(op).cas = "deux"
  BY DEF Choix
<1>3. op # Lecture /\ Sorties(op) # {1, 2} => Choix(op).cas = "un"
  BY DEF Choix
<1>4. op # Lecture => Sorties(op) \in {{1}, {2}, {1, 2}}
  BY DEF Operateurs, Efface, Ajoute, Sorties
<1> QED
  BY <1>1, <1>2, <1>3, <1>4

(* The descriptors once the file is connected, for each case.              *)
LEMMA BrancherEtapes ==
  ASSUME Redirige, NEW p \in Procs, Brancher(p)
  PROVE  Seul(p) /\ Etapes(p)'
<1> DEFINE o == Ouverts(p)
<1>1. Seul(p) /\ type' = type /\ opt' = opt /\ id' = id /\ pc[p] = "branche"
      /\ pc'[p] \in {"lit", "echec"} /\ Etapes(p) /\ cmd' = cmd
  BY DEF Brancher, VersUn, VersDeux, DepuisFichier, Redirige, Tableaux, Seul, Procs
<1>2. SUFFICES ASSUME cmd[p].sortie # Ferme, pc'[p] = "lit"
               PROVE  Branche(p)'
  BY <1>1 DEF Seul, Etapes
<1>3. cmd \in Commandes /\ fds[p] = o /\ id[p] = Recu(p)
      /\ fds = [q \in Procs |-> fds[q]] /\ pc = [q \in Procs |-> pc[q]]
  BY <1>1, <1>2 DEF Redirige, Etapes, Tableaux
<1>4. /\ o = [d \in 0 .. 4 |-> o[d]] /\ o[1] = cmd[p].sortie /\ o[2] = "terminal"
      /\ o[Recu(p)] = Fichier /\ Recu(p) \in {0, 3}
      /\ cmd[p].entree # Ferme <=> Recu(p) = 3
      /\ Recu(p) = 3 => o[0] = cmd[p].entree
  BY DEF Ouverts, Initiaux, Recu
<1>5. cmd[p].op # "" /\ type[p] \in {"", cmd[p].op}
      /\ (type[p] # "" => opt[p] = Choix(cmd[p].op) /\ cmd[p].op \in Operateurs)
  BY <1>1, <1>3, Types DEF Etapes
<1>6. ASSUME NEW vers \in {{0}, {1, 2}}, BrancheSur(p, vers)', type[p] = "" \/ Demande(p) = vers
      PROVE  Branche(p)'
  <2>1. CASE type[p] = ""
    BY <1>1, <1>5, <1>6, <2>1 DEF Branche
  <2>2. CASE Demande(p) = vers
    <3>1. Demande(p)' = vers
      BY <1>1, <2>2 DEF Demande
    <3> QED
      BY <1>6, <3>1 DEF Branche
  <2> QED
    BY <1>6, <2>1, <2>2
<1> HIDE DEF o
<1>7. CASE VersUn(p)
  <2>1. PICK s \in SortieDe(p) :
           /\ fds[p][s] # Ferme /\ id[p] # s
           /\ fds' = [fds EXCEPT ![p] = Remplacer(@, s, id[p])]
    BY <1>2, <1>3, <1>7 DEF VersUn
  <2>2. s \in {0, 1, 2} /\ (type[p] # "" => s \in {1, 2} /\ Demande(p) = {s})
                        /\ (type[p] = "" => s = 0)
    <3>1. type[p] = "" => s = 0
      BY DEF SortieDe
    <3>2. ASSUME type[p] # "" PROVE s \in {1, 2} /\ Demande(p) = {s}
      <4>1. type[p] = cmd[p].op /\ opt[p].cas = "un" /\ s \in Sorties(cmd[p].op)
        BY <1>5, <1>7, <3>2 DEF SortieDe, VersUn
      <4>2. cmd[p].op # Lecture /\ (Sorties(cmd[p].op) = {1} \/ Sorties(cmd[p].op) = {2})
        BY <1>5, <3>2, <4>1, ChoixCas
      <4> QED
        BY <4>1, <4>2 DEF Demande
    <3> QED
      BY <3>1, <3>2
  <2>3. fds'[p] = [o EXCEPT ![s] = Fichier]
    <3>1. s = 0 => Recu(p) # 0
      BY <1>3, <2>1
    <3>2. Remplacer(o, s, Recu(p)) = [o EXCEPT ![s] = Fichier]
      BY <1>2, <1>3, <2>2, <3>1, RemplacerEst DEF o
    <3> QED
      BY <1>3, <2>1, <3>2
  <2>4. BrancheSur(p, {s})'
    <3>1. o = [d \in 0 .. 4 |-> o[d]]
      BY <1>4
    <3>2. \A d \in 0 .. 4 : fds'[p][d] = IF d = s THEN Fichier ELSE o[d]
      BY ONLY <2>3, <3>1
    <3>3. 0 \in 0 .. 4 /\ 1 \in 0 .. 4 /\ 2 \in 0 .. 4
      OBVIOUS
    <3> QED
      BY <1>1, <1>4, <2>2, <3>2, <3>3 DEF BrancheSur, Entree
  <2>5. CASE type[p] = ""
    BY <1>6, <2>2, <2>4, <2>5
  <2>6. CASE type[p] # ""
    <3>1. Demande(p)' = {s}
      BY <1>1, <2>2, <2>6 DEF Demande
    <3> QED
      BY <2>4, <3>1 DEF Branche
  <2> QED
    BY <2>5, <2>6
<1>8. CASE VersDeux(p)
  <2>1. fds'[p] = Dup2(Dup2(o, Recu(p), 1), Recu(p), 2)
    BY <1>3, <1>8 DEF VersDeux
  <2>2. fds'[p][1] = Fichier /\ fds'[p][2] = Fichier /\ fds'[p][0] = o[0]
    BY <1>4, <2>1 DEF Dup2
  <2>3. BrancheSur(p, {1, 2})'
    BY <1>1, <1>4, <2>2 DEF BrancheSur, Entree
  <2>4. type[p] = "" \/ Demande(p) = {1, 2}
    BY <1>5, <1>8, ChoixCas DEF VersDeux, Demande
  <2> QED
    BY <1>6, <2>3, <2>4
<1>9. CASE DepuisFichier(p)
  <2>1. fds'[p] = [o EXCEPT ![0] = Fichier]
    BY <1>3, <1>4, <1>9 DEF DepuisFichier, Dup2
  <2>2. BrancheSur(p, {0})'
    BY <1>1, <1>4, <2>1 DEF BrancheSur, Entree
  <2>3. type[p] = "" \/ Demande(p) = {0}
    BY <1>5, <1>9, ChoixCas DEF DepuisFichier, Demande
  <2> QED
    BY <1>6, <2>2, <2>3
<1> QED
  BY <1>7, <1>8, <1>9 DEF Brancher

LEMMA SuiteEtapes ==
  ASSUME Redirige, NEW p \in Procs,
         LireBloc(p) \/ FinLecture(p) \/ Echouer(p) \/ Ecrire(p) \/ Terminer(p)
  PROVE  Seul(p) /\ Etapes(p)'
<1>1. /\ Seul(p) /\ type' = type /\ opt' = opt /\ fds' = fds
      /\ pc[p] \in {"lit", "marche"} /\ pc'[p] \in {"lit", "marche", "fini", "echec", "avorte"}
  BY DEF LireBloc, FinLecture, Echouer, Ecrire, Terminer, Redirige, Tableaux, Seul, Procs
<1>2. Branche(p) => Branche(p)'
  BY <1>1 DEF Branche, BrancheSur, Demande, Entree, Seul
<1> QED
  BY <1>1, <1>2 DEF Redirige, Etapes, Seul

LEMMA Repos == Redirige /\ UNCHANGED <<cmd, processus>> => Redirige'
<1> SUFFICES ASSUME Redirige, UNCHANGED <<cmd, processus>> PROVE Redirige'
  OBVIOUS
<1>1. Tableaux' /\ cmd' = cmd /\ Procs' = Procs
  BY DEF Redirige, Tableaux, Procs, processus
<1>2. ASSUME NEW p \in Procs PROVE Etapes(p)'
  <2>1. Seul(p) /\ pc' = pc /\ type' = type /\ opt' = opt /\ fds' = fds /\ id' = id
    BY <1>1 DEF Seul, processus
  <2>2. Initiaux(p)' = Initiaux(p) /\ Recu(p)' = Recu(p) /\ Ouverts(p)' = Ouverts(p)
    BY <1>1, Commande1
  <2>3. Branche(p) => Branche(p)'
    BY <1>1, <2>1 DEF Branche, BrancheSur, Demande, Entree
  <2> QED
    BY <1>1, <2>1, <2>2, <2>3 DEF Redirige, Etapes
<1> QED
  BY <1>1, <1>2 DEF Redirige

LEMMA RedirigeInvariant == Spec => []Redirige
<1>1. Init => Redirige
  BY InitRedirige DEF Init
<1>2. Redirige /\ [Next]_varsLs => Redirige'
  <2> SUFFICES ASSUME Redirige, [Next]_varsLs PROVE Redirige'
    OBVIOUS
  <2>1. ASSUME NEW p \in Procs, Commande(p) PROVE Redirige'
    <3>1. Seul(p) /\ Etapes(p)'
      BY <2>1, ReconnaitreEtapes, OuvrirEtapes, BrancherEtapes, SuiteEtapes
      DEF Commande, Processus
    <3> QED
      BY <3>1, PasSeul
  <2>2. CASE Ls
    BY <2>2, Repos DEF Ls, Opendir, Getdents, Readdir, Permissions, Stat, Closedir, varsRedir
  <2>3. ASSUME NEW n \in Retirables, Retirer(n) PROVE Redirige'
    BY <2>3, Repos DEF Retirer
  <2>4. CASE UNCHANGED varsLs
    BY <2>4, Repos DEF varsLs, varsRedir
  <2> QED
    BY <2>1, <2>2, <2>3, <2>4 DEF Next
<1> QED
  BY <1>1, <1>2, PTL DEF Spec

(* Whatever 0 was at the start, what the command asked for goes to the file*)
(* and the rest where it went; an operator that was not recognised moves   *)
(* nothing, 0 alone, or 1 and 2 together.                                  *)
THEOREM Branchement == Spec => []BienBranche
<1>1. Redirige => BienBranche
  BY DEF Redirige, Etapes, Branche, BienBranche, Connecte
<1> QED
  BY <1>1, RedirigeInvariant, PTL

-----------------------------------------------------------------------------
(* myls.                                                                   *)
Commence == ou \notin {"debut", "absent"}
Traite == ou \in {"permissions", "stat"}

\* The rows are a sequence, of whatever.
Suite(s) == s \in Seq({s[k] : k \in 1 .. Len(s)})

LEMMA Ajout ==
  ASSUME NEW s, Suite(s), NEW e
  PROVE  /\ Suite(Append(s, e)) /\ Len(Append(s, e)) = Len(s) + 1 /\ Len(s) \in Nat
         /\ \A k \in 1 .. Len(s) : Append(s, e)[k] = s[k]
         /\ Append(s, e)[Len(s) + 1] = e
<1> DEFINE S == {s[k] : k \in 1 .. Len(s)}
           r == Append(s, e)
<1>1. s \in Seq(S) /\ s \in Seq(S \cup {e}) /\ e \in S \cup {e}
  BY DEF Suite
<1>2. /\ Len(r) = Len(s) + 1 /\ Len(s) \in Nat /\ r[Len(s) + 1] = e
      /\ \A k \in 1 .. Len(s) : r[k] = s[k]
  BY <1>1
<1>3. r \in Seq(S \cup {e}) /\ \A k \in 1 .. Len(r) : r[k] \in {r[n] : n \in 1 .. Len(r)}
  BY <1>1
<1> HIDE DEF r
<1>4. Suite(r)
  <2> DEFINE T == {r[k] : k \in 1 .. Len(r)}
  <2>1. r \in [1 .. Len(r) -> S \cup {e}] /\ Len(r) \in Nat
    BY <1>3, LenProperties
  <2>2. \A k \in 1 .. Len(r) : r[k] \in T
    BY <1>3
  <2> HIDE DEF T
  <2>3. r \in [1 .. Len(r) -> T]
    BY <2>1, <2>2
  <2>4. r \in Seq(T)
    BY <2>1, <2>3
  <2> QED
    BY <2>4 DEF Suite, T
<1> QED
  BY <1>2, <1>4 DEF r

Depart == ~Commence => rangs = <<>> /\ lot = {} /\ place = 0 /\ stables = {}

Bornes == /\ Suite(rangs) /\ lot \subseteq Noms
          /\ place \in Noms \cup {0} /\ nom \in Noms \cup {0}
          /\ ou \in {"absent", "debut", "readdir", "permissions", "stat", "fini"}

(* What was listed, the name in hand and what is to come, in this order.   *)
Ordre == /\ \A k \in Rangs : rangs[k].nom \in Noms /\ rangs[k].nom <= place
         /\ \A j, k \in Rangs : j < k => rangs[j].nom < rangs[k].nom
         /\ \A k \in Rangs : \A b \in lot : rangs[k].nom < b
         /\ \A b \in lot : b <= place
         /\ Traite => /\ nom \in Noms /\ nom <= place
                      /\ \A k \in Rangs : rangs[k].nom < nom
                      /\ \A b \in lot : nom < b

(* Each of them was there.                                                 *)
Connus == /\ Listes \subseteq vus \ Caches /\ lot \subseteq vus
          /\ Traite => nom \in vus \ Caches
          /\ Commence => Presents \subseteq vus

(* A file that stays is in one of those places.                            *)
Stables == /\ stables \subseteq Fichiers
           /\ Commence => \A x \in stables :
                 \/ x[1] \in Caches \cup Listes \cup lot
                 \/ Traite /\ x[1] = nom
                 \/ x[1] > place
           /\ ou = "fini" => lot = {} /\ \A x \in stables : ~(x[1] > place)

MemeFichier == /\ Colonnes
               /\ ou = "stat" => \A x \in stables : x[1] = nom => perm = x[2]

Parcours == Depart /\ Bornes /\ Ordre /\ Connus /\ Stables /\ MemeFichier

LEMMA ParcoursSuffit == Parcours => ListeFidele
<1> SUFFICES ASSUME Parcours PROVE ListeFidele
  OBVIOUS
<1>1. \A k \in Rangs : rangs[k].nom \in Nat
  BY FichiersAssumption DEF Parcours, Ordre
<1>2. \A j, k \in Rangs : j < k => rangs[j].nom # rangs[k].nom
  BY <1>1 DEF Parcours, Ordre
<1>3. ou = "fini" => {x[1] : x \in stables} \ Caches \subseteq Listes
  BY DEF Parcours, Stables, Commence, Traite
<1> QED
  BY <1>2, <1>3 DEF Parcours, Connus, MemeFichier, ListeFidele, NomsListes

LEMMA InitParcours == Init => Parcours
<1> SUFFICES ASSUME Init PROVE Parcours
  OBVIOUS
<1>1. Rangs = {} /\ ~Commence /\ ~Traite
  BY DEF Init, Rangs, Commence, Traite
<1>2. Suite(<<>>)
  BY DEF Suite
<1> QED
  BY <1>1, <1>2 DEF Init, Parcours, Depart, Bornes, Ordre, Connus, Stables, MemeFichier,
                    Colonnes, Listes

(* Others change the directory: what stays gets less, what was seen more.  *)
LEMMA DossierParcours ==
  ASSUME Parcours, Temoin, UNCHANGED ls
  PROVE  Parcours'
<1>1. /\ Listes' = Listes /\ Rangs' = Rangs /\ (Commence' <=> Commence)
      /\ (Traite' <=> Traite) /\ stables' \subseteq stables /\ vus \subseteq vus'
      /\ UNCHANGED <<ou, lot, place, nom, perm, rangs>>
  BY DEF ls, Listes, Rangs, Commence, Traite, Temoin
<1>2. Depart' /\ Bornes' /\ Ordre'
  BY <1>1 DEF Parcours, Depart, Bornes, Ordre
<1>3. Connus'
  BY <1>1 DEF Parcours, Connus, Temoin, Commence, Presents
<1>4. stables' \subseteq Fichiers'
  BY <1>1 DEF Parcours, Stables, Temoin, Fichiers, Presents
<1>5. Stables'
  BY <1>1, <1>4 DEF Parcours, Stables
<1>6. MemeFichier'
  BY <1>1 DEF Parcours, MemeFichier, Colonnes
<1> QED
  BY <1>2, <1>3, <1>5, <1>6 DEF Parcours

LEMMA OpendirParcours == ASSUME Parcours, Opendir PROVE Parcours'
<1>1. /\ ~Commence /\ Commence' /\ ~Traite' /\ ou' = "readdir" /\ rangs = <<>> /\ rangs' = <<>>
      /\ lot' = {} /\ place' = 0 /\ stables' = Fichiers' /\ vus' = Presents'
      /\ UNCHANGED nom
  BY DEF Opendir, Commence, Traite, Parcours, Depart, varsRedir, Fichiers, Presents
<1>2. Rangs' = {} /\ Listes' = {}
  BY <1>1 DEF Rangs, Listes
<1>3. \A x \in Fichiers' : x[1] > 0
  BY FichiersAssumption DEF Fichiers, Presents
<1>4. Bornes'
  BY <1>1 DEF Parcours, Bornes
<1>5. MemeFichier'
  BY <1>1, <1>2 DEF MemeFichier, Colonnes
<1> QED
  BY <1>1, <1>2, <1>3, <1>4, <1>5 DEF Parcours, Depart, Ordre, Connus, Stables

LEMMA GetdentsParcours == ASSUME Parcours, Getdents PROVE Parcours'
<1>1. PICK q \in Suivants : lot' = {n \in Suivants : n <= q} /\ place' = q
  BY DEF Getdents
<1>2. /\ ou = "readdir" /\ ou' = "readdir" /\ lot = {} /\ ~Traite /\ ~Traite'
      /\ Commence /\ Commence'
      /\ UNCHANGED <<dossier, nom, perm, rangs, stables, vus>>
      /\ Rangs' = Rangs /\ Listes' = Listes /\ Presents' = Presents /\ Fichiers' = Fichiers
  BY DEF Getdents, Commence, Traite, varsRedir, Rangs, Listes, Presents, Fichiers
<1>3. /\ place \in Nat /\ \A n \in Suivants : n \in Noms /\ n \in Nat /\ place < n /\ n \in Presents
  BY FichiersAssumption DEF Suivants, Presents, Parcours, Bornes
<1>4. Depart' /\ Bornes'
  BY <1>1, <1>2, <1>3 DEF Parcours, Depart, Bornes
<1>5. Ordre'
  <2>1. \A k \in Rangs : rangs[k].nom \in Nat /\ rangs[k].nom <= place
    BY FichiersAssumption DEF Parcours, Ordre
  <2> QED
    BY <1>1, <1>2, <1>3, <2>1 DEF Parcours, Ordre
<1>6. Connus'
  BY <1>1, <1>2, <1>3 DEF Parcours, Connus
<1>7. Stables'
  <2>1. ASSUME NEW x \in stables, x[1] > place
        PROVE  x[1] \in lot' \/ x[1] > place'
    <3>1. x[1] \in Suivants
      BY <2>1 DEF Parcours, Stables, Fichiers, Suivants
    <3> QED
      BY <1>1, <1>3, <3>1
  <2> QED
    BY <1>1, <1>2, <2>1 DEF Parcours, Stables
<1>8. MemeFichier'
  BY <1>2 DEF Parcours, MemeFichier, Colonnes
<1> QED
  BY <1>4, <1>5, <1>6, <1>7, <1>8 DEF Parcours

LEMMA ReaddirParcours == ASSUME Parcours, Readdir PROVE Parcours'
<1>1. /\ ou = "readdir" /\ nom' = Min(lot) /\ lot' = lot \ {nom'}
      /\ ou' = (IF nom' \in Caches THEN "readdir" ELSE "permissions")
      /\ UNCHANGED <<dossier, place, perm, rangs, stables, vus>>
      /\ Rangs' = Rangs /\ Listes' = Listes /\ Presents' = Presents /\ Fichiers' = Fichiers
  BY DEF Readdir, varsRedir, Rangs, Listes, Presents, Fichiers
<1>2. nom' \in lot /\ \A b \in lot : nom' <= b
  <2>1. lot \subseteq Nat /\ lot # {}
    BY FichiersAssumption DEF Readdir, Parcours, Bornes
  <2> QED
    BY <1>1, <2>1, Moindre
<1>3. Commence /\ Commence' /\ ~Traite /\ (Traite' <=> nom' \notin Caches)
  BY <1>1 DEF Commence, Traite
<1>4. Depart' /\ Bornes'
  BY <1>1, <1>2, <1>3 DEF Parcours, Depart, Bornes
<1>5. Ordre'
  <2>1. \A b \in lot' : nom' < b
    BY <1>1, <1>2, FichiersAssumption DEF Parcours, Bornes
  <2> QED
    BY <1>1, <1>2, <2>1 DEF Parcours, Ordre, Bornes
<1>6. Connus'
  BY <1>1, <1>2, <1>3 DEF Parcours, Connus
<1>7. Stables'
  BY <1>1, <1>2, <1>3 DEF Parcours, Stables
<1>8. MemeFichier'
  BY <1>1 DEF Parcours, MemeFichier, Colonnes
<1> QED
  BY <1>4, <1>5, <1>6, <1>7, <1>8 DEF Parcours

LEMMA PermissionsParcours == ASSUME Parcours, Permissions PROVE Parcours'
<1>1. /\ ou = "permissions" /\ ou' = "stat" /\ perm' = dossier[nom]
      /\ UNCHANGED <<dossier, lot, place, nom, rangs, stables, vus>>
      /\ Rangs' = Rangs /\ Listes' = Listes /\ Presents' = Presents /\ Fichiers' = Fichiers
      /\ Traite /\ Traite' /\ Commence /\ Commence'
  BY DEF Permissions, varsRedir, Rangs, Listes, Presents, Fichiers, Traite, Commence
<1>2. \A x \in stables : x[1] = nom => dossier[nom] = x[2]
  BY DEF Parcours, Stables, Fichiers
<1> QED
  BY <1>1, <1>2 DEF Parcours, Depart, Bornes, Ordre, Connus, Stables, MemeFichier, Colonnes

LEMMA StatParcours == ASSUME Parcours, Stat PROVE Parcours'
<1>1. /\ ou = "stat" /\ ou' = "readdir" /\ Traite /\ ~Traite' /\ Commence /\ Commence'
      /\ UNCHANGED <<dossier, lot, place, nom, perm, stables, vus>>
      /\ Presents' = Presents /\ Fichiers' = Fichiers
  BY DEF Stat, varsRedir, Presents, Fichiers, Traite, Commence
<1>2. PICK taille : rangs' = Append(rangs, Rang(taille))
  BY DEF Stat
<1> DEFINE n == Len(rangs) + 1
<1>3. /\ Suite(rangs') /\ Len(rangs) \in Nat /\ Rangs' = Rangs \cup {n}
      /\ \A k \in Rangs : rangs'[k] = rangs[k] /\ k < n
      /\ rangs'[n] = Rang(taille)
  BY <1>2, Ajout DEF Parcours, Bornes, Rangs
<1>4. rangs'[n].nom = nom /\ rangs'[n].perm = perm /\ rangs'[n].f = dossier[nom]
  BY <1>3 DEF Rang
<1> HIDE DEF n
<1>5. Listes' = Listes \cup {nom}
  BY <1>3, <1>4 DEF Listes
<1>6. Depart' /\ Bornes'
  BY <1>1, <1>3 DEF Parcours, Depart, Bornes
<1>7. Ordre'
  <2>1. \A j, k \in Rangs' : j < k => j \in Rangs /\ (k \in Rangs \/ k = n)
    BY <1>3 DEF Rangs
  <2> QED
    BY <1>1, <1>3, <1>4, <2>1 DEF Parcours, Ordre
<1>8. Connus'
  BY <1>1, <1>5 DEF Parcours, Connus
<1>9. Stables'
  BY <1>1, <1>5 DEF Parcours, Stables
<1>10. MemeFichier'
  <2>1. \A x \in stables : x[1] = nom => perm = x[2] /\ dossier[nom] = x[2]
    BY <1>1 DEF Parcours, MemeFichier, Stables, Fichiers
  <2> QED
    BY <1>1, <1>3, <1>4, <2>1 DEF Parcours, MemeFichier, Colonnes
<1> QED
  BY <1>6, <1>7, <1>8, <1>9, <1>10 DEF Parcours

LEMMA ClosedirParcours == ASSUME Parcours, Closedir PROVE Parcours'
<1>1. /\ ou = "readdir" /\ ou' = "fini" /\ lot = {} /\ Suivants = {}
      /\ UNCHANGED <<dossier, lot, place, nom, perm, rangs, stables, vus>>
      /\ Rangs' = Rangs /\ Listes' = Listes /\ Presents' = Presents /\ Fichiers' = Fichiers
      /\ ~Traite /\ ~Traite' /\ Commence /\ Commence'
  BY DEF Closedir, varsRedir, Rangs, Listes, Presents, Fichiers, Traite, Commence
<1>2. \A x \in stables : ~(x[1] > place)
  BY <1>1 DEF Parcours, Stables, Fichiers, Suivants
<1> QED
  BY <1>1, <1>2 DEF Parcours, Depart, Bornes, Ordre, Connus, Stables, MemeFichier, Colonnes

LEMMA ParcoursInvariant == Spec => []Parcours
<1>1. Parcours /\ [Next]_varsLs => Parcours'
  <2> SUFFICES ASSUME Parcours, [Next]_varsLs PROVE Parcours'
    OBVIOUS
  <2>1. CASE Ls
    BY <2>1, OpendirParcours, GetdentsParcours, ReaddirParcours, PermissionsParcours,
       StatParcours, ClosedirParcours DEF Ls
  <2>2. ASSUME NEW p \in Procs, Commande(p) PROVE Parcours'
    BY <2>2, DossierParcours DEF Commande
  <2>3. ASSUME NEW n \in Retirables, Retirer(n) PROVE Parcours'
    BY <2>3, DossierParcours DEF Retirer
  <2>4. CASE UNCHANGED varsLs
    <3>1. UNCHANGED <<dossier, ou, lot, place, nom, perm, rangs, stables, vus>>
      BY <2>4 DEF varsLs, varsRedir, ls
    <3> QED
      BY <3>1 DEF Parcours, Depart, Bornes, Ordre, Connus, Stables, MemeFichier, Colonnes,
                  Commence, Traite, Rangs, Listes, Presents, Fichiers
  <2> QED
    BY <2>1, <2>2, <2>3, <2>4 DEF Next
<1> QED
  BY <1>1, InitParcours, PTL DEF Spec

(* Files made, written, replaced and removed during the walk: those that   *)
(* stay are listed once, with their own columns, and no other appears.     *)
THEOREM Liste == Spec => []ListeFidele
BY ParcoursInvariant, ParcoursSuffit, PTL

-----------------------------------------------------------------------------
(* Files: what redirected commands leave in them, alone in one or several  *)
(* that append to the same.                                                *)

(* A set of numbers with a greatest one, and that a finite one has it: the *)
(* smallest set without would have one when an element is taken off.       *)
LEMMA MaximumEst ==
  ASSUME NEW S, S \subseteq Nat, NEW m \in S, \A n \in S : n <= m
  PROVE  Max(S) = m
<1>1. \A x \in S : (\A y \in S : x >= y) => x = m
  <2> TAKE x \in S
  <2> HAVE \A y \in S : x >= y
  <2>1. x >= m /\ x <= m /\ x \in Nat /\ m \in Nat
    OBVIOUS
  <2> QED
    BY <2>1
<1>2. \A y \in S : m >= y
  OBVIOUS
<1> QED
  BY <1>1, <1>2 DEF Max

LEMMA Plafond == Max(Noms) \in Noms /\ \A n \in Noms : n <= Max(Noms)
<1> DEFINE Haut(A) == \E m \in A : \A n \in A : n <= m
           K == {k \in Nat : \E A \in SUBSET Noms :
                                A # {} /\ Cardinality(A) = k /\ ~Haut(A)}
<1>1. \A A \in SUBSET Noms : IsFiniteSet(A) /\ Cardinality(A) \in Nat /\ A \subseteq Nat
  BY FichiersAssumption, FS_Subset, FS_CardinalityType
<1>2. K = {}
  <2> SUFFICES ASSUME K # {} PROVE FALSE
    OBVIOUS
  <2>1. K \subseteq Nat
    OBVIOUS
  <2>2. Min(K) \in K /\ \A k \in K : Min(K) <= k
    BY <2>1, Moindre
  <2>3. PICK A \in SUBSET Noms : A # {} /\ Cardinality(A) = Min(K) /\ ~Haut(A)
    BY <2>2
  <2>4. PICK a \in A : TRUE
    BY <2>3
  <2> DEFINE B == A \ {a}
  <2>5. B \in SUBSET Noms /\ Cardinality(B) = Cardinality(A) - 1 /\ Cardinality(B) \in Nat
    BY <1>1, FS_RemoveElement
  <2>6. a \in Nat /\ A \subseteq Nat
    BY <1>1
  <2>7. CASE B = {}
    <3>1. A = {a}
      BY <2>7
    <3> QED
      BY <2>3, <2>6, <3>1
  <2>8. CASE B # {} /\ ~Haut(B)
    <3>1. Cardinality(B) \in K
      BY <2>5, <2>8
    <3> HIDE DEF K, B
    <3> QED
      BY <1>1, <2>2, <2>3, <2>5, <3>1
  <2>9. CASE Haut(B)
    <3>1. PICK m \in B : \A n \in B : n <= m
      BY <2>9
    <3>2. m \in A /\ m \in Nat
      BY <2>6
    <3>3. CASE a <= m
      <4>1. \A n \in A : n <= m
        BY <3>1, <3>3
      <4> QED
        BY <2>3, <3>2, <4>1
    <3>4. CASE ~(a <= m)
      <4>1. \A n \in A : n <= a
        BY <2>6, <3>1, <3>2, <3>4
      <4> QED
        BY <2>3, <4>1
    <3> QED
      BY <3>3, <3>4
  <2> QED
    BY <2>7, <2>8, <2>9
<1>3. Haut(Noms)
  <2> SUFFICES ASSUME ~Haut(Noms) PROVE FALSE
    OBVIOUS
  <2>1. Cardinality(Noms) \in K
    BY <1>1, FichiersAssumption
  <2> QED
    BY <1>2, <2>1
<1>4. PICK m \in Noms : \A n \in Noms : n <= m
  BY <1>3
<1>5. Noms \subseteq Nat
  BY FichiersAssumption
<1>6. Max(Noms) = m
  BY <1>4, <1>5, MaximumEst
<1> QED
  BY <1>4, <1>6

-----------------------------------------------------------------------------
(* The first e blocks of p over what was there.                            *)
Melange(p, e, o) == [k \in 1 .. (IF e < Len(o) THEN Len(o) ELSE e) |->
                        IF k <= e THEN <<p, k>> ELSE o[k]]

LEMMA MelangeDebut ==
  ASSUME NEW p, NEW e \in Nat, NEW S, NEW o \in Seq(S)
  PROVE  IsPrefix([k \in 1 .. e |-> <<p, k>>], Melange(p, e, o))
<1> DEFINE a == [k \in 1 .. e |-> <<p, k>>]
           L == IF e < Len(o) THEN Len(o) ELSE e
           m == Melange(p, e, o)
           T == S \cup {<<p, k>> : k \in 1 .. e}
<1>1. Len(o) \in Nat /\ \A k \in 1 .. Len(o) : o[k] \in S
  BY LenProperties
<1>2. L \in Nat /\ e <= L
  BY <1>1
<1>3. a \in [1 .. e -> T] /\ \A k \in 1 .. e : a[k] = <<p, k>>
  OBVIOUS
<1>4. m \in [1 .. L -> T]
  <2> SUFFICES ASSUME NEW k \in 1 .. L
               PROVE  (IF k <= e THEN <<p, k>> ELSE o[k]) \in T
    BY DEF Melange
  <2> QED
    BY <1>1
<1>5. \A k \in 1 .. e : m[k] = <<p, k>>
  BY <1>2 DEF Melange
<1> HIDE DEF a, m, L, T
<1>6. a \in Seq(T) /\ Len(a) = e /\ m \in Seq(T) /\ Len(m) = L
  BY <1>2, <1>3, <1>4
<1>7. SubSeq(m, 1, e) = a
  <2>1. /\ SubSeq(m, 1, e) \in Seq(T) /\ Len(SubSeq(m, 1, e)) = e
        /\ \A k \in 1 .. e : SubSeq(m, 1, e)[k] = m[k]
    BY <1>2, <1>6, SubSeqProperties
  <2>2. \A k \in 1 .. e : SubSeq(m, 1, e)[k] = a[k]
    BY <1>3, <1>5, <2>1
  <2> HIDE DEF T, a, m, L
  <2>3. PICK r : r = SubSeq(m, 1, e)
    OBVIOUS
  <2>4. r \in Seq(T) /\ a \in Seq(T) /\ Len(r) = Len(a) /\ \A k \in 1 .. Len(r) : r[k] = a[k]
    BY <1>6, <2>1, <2>2, <2>3
  <2> QED
    BY <2>3, <2>4, SeqEqual
<1>8. IsPrefix(a, m)
  BY <1>2, <1>6, <1>7 DEF IsPrefix
<1> QED
  BY <1>8 DEF a, m

\* A sequence of blocks with b at the place n.
Ecrite(m, n, b) == [k \in 1 .. Max({Len(m), n}) |->
                       IF k = n THEN b ELSE IF k \in DOMAIN m THEN m[k] ELSE Trou]

LEMMA MelangeEcrit ==
  ASSUME NEW p, NEW e \in Nat, NEW S, NEW o \in Seq(S)
  PROVE  Ecrite(Melange(p, e, o), e + 1, <<p, e + 1>>) = Melange(p, e + 1, o)
<1> DEFINE L == IF e < Len(o) THEN Len(o) ELSE e
           N == IF e + 1 < Len(o) THEN Len(o) ELSE e + 1
<1>1. Len(o) \in Nat /\ L \in Nat /\ N \in Nat
  BY LenProperties
<1>2. /\ Len(Melange(p, e, o)) = L
      /\ \A k \in 1 .. L : Melange(p, e, o)[k] = IF k <= e THEN <<p, k>> ELSE o[k]
  <2>1. Melange(p, e, o) = [k \in 1 .. L |-> IF k <= e THEN <<p, k>> ELSE o[k]]
    BY DEF Melange
  <2> HIDE DEF L
  <2> QED
    BY <1>1, <2>1
<1>3. Max({L, e + 1}) = N
  <2>1. N \in {L, e + 1} /\ {L, e + 1} \subseteq Nat /\ \A n \in {L, e + 1} : n <= N
    BY <1>1
  <2> QED
    BY <2>1, MaximumEst
<1>4. \A k \in 1 .. N :
          (IF k = e + 1 THEN <<p, e + 1>>
           ELSE IF k \in DOMAIN Melange(p, e, o) THEN Melange(p, e, o)[k] ELSE Trou)
          = IF k <= e + 1 THEN <<p, k>> ELSE o[k]
  <2> SUFFICES ASSUME NEW k \in 1 .. N, k # e + 1
               PROVE  /\ k \in DOMAIN Melange(p, e, o)
                      /\ Melange(p, e, o)[k] = IF k <= e + 1 THEN <<p, k>> ELSE o[k]
    BY <1>1
  <2>1. k \in 1 .. L /\ (k <= e <=> k <= e + 1)
    BY <1>1
  <2>2. DOMAIN Melange(p, e, o) = 1 .. L
    BY DEF Melange
  <2> QED
    BY <1>2, <2>1, <2>2
<1> QED
  BY <1>2, <1>3, <1>4 DEF Melange, Ecrite

-----------------------------------------------------------------------------
(* The invariant.                                                          *)
Ancien(f) == IF f \in Noms THEN AncienContenu ELSE <<>>
Apres == {"lit", "marche", "fini", "avorte"}

\* A file has a number of its own, and names are those of files.
Catalogue ==
    /\ contenu = [f \in DOMAIN contenu |-> contenu[f]]
    /\ DOMAIN contenu \subseteq Nat \ {0} /\ IsFiniteSet(DOMAIN contenu)
    /\ \A f \in DOMAIN contenu : f <= Max(Noms) + Cardinality(DOMAIN contenu)
    /\ dossier \in [Noms -> {Absent} \cup DOMAIN contenu]

\* A file that nobody has open to write it is one of the start, as it was.
Vierges ==
    \A f \in DOMAIN contenu : Ecrivains(f) = {} => f \in Noms /\ contenu[f] = AncienContenu

\* Where a process is, what it opened and may do with it, what it printed.
Permis(op) == IF op = Lecture THEN {"lit"} ELSE {"ecrit"}

Avancement(p) ==
    /\ ouvert[p].f \in {Absent} \cup DOMAIN contenu
    /\ pc[p] \in {"debut", "ouvre", "cree"} => ouvert[p].f = Absent
    /\ pc[p] = "cree" => type[p] \in Ajoute \cup {""}
    /\ ouvert[p].f = Absent => ouvert[p].droits = {}
    /\ ouvert[p].f # Absent /\ type[p] # "" => ouvert[p].droits = Permis(type[p])
    /\ ecrits[p] \in Nat
    /\ pc[p] \notin {"marche", "fini", "echec", "avorte"} => ecrits[p] = 0
    /\ pc[p] = "fini" => ecrits[p] = Blocs

\* Etapes, for a process that starts with 0 and 1 closed.
Etapes0(p) ==
    cmd[p].sortie = Ferme =>
        /\ pc[p] \in {"debut", "ouvre", "cree"} => fds[p] = Initiaux(p)
        /\ pc[p] = "branche" => id[p] = 0 /\ fds[p] = Ouverts(p)
        /\ pc[p] \in Apres /\ 1 \in Sorties(type[p]) => fds[p][1] = Fichier

\* The process that SeulEcrit is about, from the opening of its file.
Propre(p) ==
    /\ ouvert[p].f # Absent /\ Ecrivains(ouvert[p].f) = {p}
    /\ pc[p] \in Apres \cup {"branche"} /\ 1 \in Sorties(type[p])
    /\ ~(type[p] \in Ajoute /\ ouvert[p].f \in Noms)

Tete(p) ==
    Propre(p) => /\ ~ouvert[p].append /\ ouvert[p].pos = ecrits[p]
                 /\ contenu[ouvert[p].f] = Melange(p, ecrits[p], Ancien(ouvert[p].f))

Ouvertures ==
    /\ ouvert = [p \in Procs |-> [f |-> ouvert[p].f, pos |-> ouvert[p].pos,
                                  append |-> ouvert[p].append,
                                  droits |-> ouvert[p].droits]]
    /\ ecrits = [p \in Procs |-> ecrits[p]]

Suivi(p) == Avancement(p) /\ Etapes0(p) /\ Tete(p)

Registre == /\ Ouvertures /\ Catalogue /\ Vierges
            /\ \A p \in Procs : Suivi(p)

LEMMA AncienType == \A f : \E S : Ancien(f) \in Seq(S)
<1> TAKE f
<1> DEFINE S == {<<Avant, k>> : k \in 1 .. Blocs + 1}
           a == AncienContenu
<1>1. Blocs + 1 \in Nat
  BY FichiersAssumption
<1>2. a \in [1 .. Blocs + 1 -> S]
  BY DEF AncienContenu
<1> HIDE DEF S, a
<1>3. a \in Seq(S) /\ <<>> \in Seq(S)
  BY <1>1, <1>2
<1> QED
  BY <1>3 DEF a, Ancien

LEMMA SeulDuRegistre == Registre => SeulEcrit
<1> SUFFICES ASSUME Registre, NEW p \in Procs, ouvert[p].f # Absent,
                    Ecrivains(ouvert[p].f) = {p}, pc[p] \in {"marche", "fini", "avorte"},
                    1 \in Sorties(type[p]), ~(type[p] \in Ajoute /\ ouvert[p].f \in Noms)
             PROVE  /\ IsPrefix(Imprime(p), contenu[ouvert[p].f])
                    /\ pc[p] = "fini" => ecrits[p] = Blocs
  BY DEF SeulEcrit
<1>1. Avancement(p) /\ Tete(p) /\ Propre(p)
  BY DEF Registre, Suivi, Propre, Apres
<1>2. PICK S : Ancien(ouvert[p].f) \in Seq(S)
  BY AncienType
<1>3. IsPrefix(Imprime(p), Melange(p, ecrits[p], Ancien(ouvert[p].f)))
  BY <1>1, <1>2, MelangeDebut DEF Imprime, Avancement
<1> QED
  BY <1>1, <1>3 DEF Tete, Avancement

-----------------------------------------------------------------------------
(* What a step of p does to the files and to the other processes.          *)
Effet(p) ==
    /\ Seul(p) /\ Ouvertures'
    /\ \A q \in Procs \ {p} : ouvert'[q] = ouvert[q] /\ ecrits'[q] = ecrits[q]
    /\ ouvert'[p].f = ouvert[p].f \/ ouvert[p].f = Absent
    /\ type'[p] = type[p] \/ ouvert'[p].f = Absent
    /\ DOMAIN contenu \subseteq DOMAIN contenu'
    /\ \A f \in DOMAIN contenu' :
          \/ f \in DOMAIN contenu /\ contenu'[f] = contenu[f]
          \/ f = ouvert'[p].f /\ type'[p] # Lecture

LEMMA EffetEcrivains ==
  ASSUME NEW p \in Procs, Effet(p), NEW f, f # Absent
  PROVE  Ecrivains(f) \subseteq Ecrivains(f)' /\ Ecrivains(f)' \subseteq Ecrivains(f) \cup {p}
<1>1. Procs' = Procs
  BY DEF Effet, Seul, Procs
<1>2. \A q \in Procs \ {p} : ouvert'[q] = ouvert[q] /\ type'[q] = type[q]
  BY DEF Effet, Seul
<1>3. p \in Ecrivains(f) => p \in Ecrivains(f)'
  BY <1>1 DEF Effet, Ecrivains
<1> QED
  BY <1>1, <1>2, <1>3 DEF Ecrivains

(* Where p does not write, nothing is written.                             *)
LEMMA EffetAilleurs ==
  ASSUME NEW p \in Procs, Effet(p), NEW f \in DOMAIN contenu', f # Absent,
         p \notin Ecrivains(f)'
  PROVE  f \in DOMAIN contenu /\ contenu'[f] = contenu[f] /\ Ecrivains(f)' = Ecrivains(f)
<1>1. Procs' = Procs
  BY DEF Effet, Seul, Procs
<1>2. ~(f = ouvert'[p].f /\ type'[p] # Lecture)
  BY <1>1 DEF Ecrivains
<1>3. f \in DOMAIN contenu /\ contenu'[f] = contenu[f]
  BY <1>2 DEF Effet
<1> QED
  BY <1>3, EffetEcrivains

LEMMA EffetRegistre ==
  ASSUME Registre, NEW p \in Procs, Effet(p), Catalogue', Suivi(p)'
  PROVE  Registre'
<1>1. Procs' = Procs
  BY DEF Effet, Seul, Procs
<1>2. ASSUME NEW q \in Procs \ {p} PROVE Suivi(q)'
  <2>1. /\ cmd' = cmd /\ pc'[q] = pc[q] /\ type'[q] = type[q] /\ id'[q] = id[q]
        /\ fds'[q] = fds[q] /\ ouvert'[q] = ouvert[q] /\ ecrits'[q] = ecrits[q]
    BY DEF Effet, Seul
  <2>2. Suivi(q)
    BY DEF Registre
  <2>3. Avancement(q)'
    BY <2>1, <2>2 DEF Suivi, Avancement, Effet
  <2>4. Etapes0(q)'
    <3>1. Initiaux(q)' = Initiaux(q) /\ Ouverts(q)' = Ouverts(q)
      BY <2>1, Commande1
    <3> QED
      BY <2>1, <2>2, <3>1 DEF Suivi, Etapes0
  <2>5. Tete(q)'
    <3>0. PICK f : f = ouvert[q].f /\ f = ouvert'[q].f
      BY <2>1
    <3> SUFFICES ASSUME Propre(q)'
                 PROVE  /\ ~ouvert[q].append /\ ouvert[q].pos = ecrits[q]
                        /\ contenu'[f] = Melange(q, ecrits[q], Ancien(f))
      <4>1. Ancien(ouvert[q].f)' = Ancien(f)
        BY <3>0 DEF Ancien, AncienContenu
      <4>2. Melange(q, ecrits[q], Ancien(ouvert[q].f))' = Melange(q, ecrits[q], Ancien(f))
        BY <2>1, <4>1 DEF Melange
      <4> QED
        BY <2>1, <3>0, <4>2 DEF Tete
    <3>1. f # Absent /\ Ecrivains(f)' = {q} /\ f \in DOMAIN contenu'
      <4>1. Ecrivains(ouvert[q].f)' = Ecrivains(f)'
        BY <3>0 DEF Ecrivains
      <4> QED
        BY <2>1, <2>3, <3>0, <4>1 DEF Propre, Avancement
    <3>2. contenu'[f] = contenu[f] /\ Ecrivains(f) = {q}
      BY <3>1, EffetAilleurs
    <3>3. Propre(q)
      BY <2>1, <3>0, <3>1, <3>2 DEF Propre
    <3> QED
      BY <2>2, <3>0, <3>2, <3>3 DEF Suivi, Tete
  <2> QED
    BY <2>3, <2>4, <2>5 DEF Suivi
<1>3. Vierges'
  <2> SUFFICES ASSUME NEW f \in DOMAIN contenu', Ecrivains(f)' = {}
               PROVE  f \in Noms /\ contenu'[f] = AncienContenu
    BY DEF Vierges, AncienContenu
  <2>1. f # Absent
    BY DEF Catalogue, Absent
  <2>2. f \in DOMAIN contenu /\ contenu'[f] = contenu[f] /\ Ecrivains(f) = {}
    BY <2>1, EffetAilleurs
  <2> QED
    BY <2>2 DEF Registre, Vierges
<1> QED
  BY <1>1, <1>2, <1>3 DEF Registre, Effet

-----------------------------------------------------------------------------
(* The steps.                                                              *)
LEMMA CatalogueGarde ==
  ASSUME Catalogue, dossier' = dossier, DOMAIN contenu' = DOMAIN contenu,
         contenu' = [f \in DOMAIN contenu |-> contenu'[f]]
  PROVE  Catalogue'
  BY DEF Catalogue

LEMMA ReconnaitreRegistre ==
  ASSUME Redirige, Registre, NEW p \in Procs, Reconnaitre(p)
  PROVE  Registre'
<1>1. Seul(p) /\ pc[p] = "debut" /\ pc'[p] \in {"ouvre", "lit", "echec"}
      /\ type[p] = "" /\ (pc'[p] = "lit" => type'[p] = "")
      /\ UNCHANGED <<dossier, contenu, cmd, fds, id, ouvert, ecrits>>
  BY ReconnaitreEtapes DEF Reconnaitre, Redirige, Tableaux, Etapes
<1>2. Avancement(p) /\ Etapes0(p) /\ ouvert[p].f = Absent /\ Ouvertures /\ Catalogue
  BY <1>1 DEF Registre, Suivi, Avancement
<1>3. Procs' = Procs
  BY <1>1 DEF Procs
<1>4. Effet(p)
  BY <1>1, <1>2, <1>3 DEF Effet, Ouvertures
<1>5. Catalogue'
  BY <1>1, <1>2, CatalogueGarde DEF Catalogue
<1>6. Avancement(p)' /\ Tete(p)'
  BY <1>1, <1>2 DEF Avancement, Tete, Propre
<1>7. Etapes0(p)'
  <2>1. Initiaux(p)' = Initiaux(p)
    BY <1>1, Commande1
  <2>2. pc'[p] = "lit" => Sorties(type'[p]) = {}
    BY <1>1 DEF Sorties
  <2> QED
    BY <1>1, <1>2, <2>1, <2>2 DEF Etapes0, Apres
<1> QED
  BY <1>4, <1>5, <1>6, <1>7, EffetRegistre DEF Suivi

LEMMA MelangeVide ==
  ASSUME NEW p, NEW S, NEW o \in Seq(S)
  PROVE  Melange(p, 0, o) = o
<1>1. Len(o) \in Nat /\ o = [k \in 1 .. Len(o) |-> o[k]]
  BY LenProperties
<1>2. (IF 0 < Len(o) THEN Len(o) ELSE 0) = Len(o)
  BY <1>1
<1>3. Melange(p, 0, o) = [k \in 1 .. Len(o) |-> IF k <= 0 THEN <<p, k>> ELSE o[k]]
  BY <1>2 DEF Melange
<1>4. \A k \in 1 .. Len(o) : (IF k <= 0 THEN <<p, k>> ELSE o[k]) = o[k]
  BY <1>1
<1> QED
  BY <1>1, <1>3, <1>4

(* The number of a new file is that of no other, nor of a name.            *)
LEMMA NouveauEst ==
  ASSUME Catalogue
  PROVE  /\ Nouveau \in Nat \ {0} /\ Nouveau \notin DOMAIN contenu /\ Nouveau \notin Noms
         /\ Nouveau = Max(Noms) + 1 + Cardinality(DOMAIN contenu)
         /\ Max(Noms) \in Nat /\ Cardinality(DOMAIN contenu) \in Nat
<1>1. Max(Noms) \in Nat /\ Cardinality(DOMAIN contenu) \in Nat
  BY Plafond, FichiersAssumption, FS_CardinalityType DEF Catalogue
<1> DEFINE M == Max(Noms)
           c == Cardinality(DOMAIN contenu)
<1>2. Nouveau = M + 1 + c /\ \A n \in Noms : n \in Nat /\ n <= M
  BY Plafond, FichiersAssumption DEF Nouveau
<1>3. \A f \in DOMAIN contenu : f \in Nat /\ f <= M + c
  BY DEF Catalogue
<1> HIDE DEF M, c
<1>4. M \in Nat /\ c \in Nat
  BY <1>1 DEF M, c
<1>5. M + 1 + c \in Nat \ {0} /\ M + 1 + c \notin DOMAIN contenu /\ M + 1 + c \notin Noms
  BY <1>2, <1>3, <1>4
<1> QED
  BY <1>2, <1>4, <1>5 DEF M, c

LEMMA PermisEst ==
  ASSUME NEW op
  PROVE  ("ecrit" \in Permis(op) <=> op # Lecture) /\ ("lit" \in Permis(op) <=> op = Lecture)
  BY DEF Permis

(* What open() is asked when the operator was recognised.                  *)
Permise(p, o) ==
    type[p] # "" => /\ ~o.tronque /\ o.droits = Permis(type[p])
                    /\ o.append => type[p] \in Ajoute
                    /\ o.creat => ~o.append /\ type[p] # Lecture

LEMMA EssaiPermis ==
  ASSUME Redirige, Registre, NEW p \in Procs
  PROVE  /\ pc[p] = "ouvre" => Permise(p, opt[p])
         /\ pc[p] = "cree" => Permise(p, Second)
         /\ pc[p] = "ouvre" /\ type[p] # "" =>
                /\ ~opt[p].refus
                /\ opt[p].cas # "entree" /\ ~opt[p].creat => type[p] \in Ajoute
                /\ type[p] \in Ajoute => opt[p].append
<1>1. ASSUME type[p] # "", pc[p] = "ouvre"
      PROVE  type[p] \in Operateurs /\ opt[p] = Choix(type[p])
  BY <1>1, Types DEF Redirige, Etapes
<1>2. ASSUME NEW op \in Operateurs
      PROVE  /\ ~Choix(op).tronque /\ Choix(op).droits = Permis(op) /\ ~Choix(op).refus
             /\ Choix(op).append <=> op \in Ajoute
             /\ Choix(op).creat <=> op \in Efface
             /\ op = Lecture => Choix(op).cas = "entree"
  <2>1. op = Lecture => Choix(op).cas = "entree"
    BY ChoixCas
  <2>2. Choix(op).droits = Permis(op)
    BY DEF Choix, Permis
  <2>3. ~Choix(op).tronque /\ ~Choix(op).refus
    BY DEF Choix
  <2>4. /\ Choix(op).append <=> op \in Ajoute
        /\ Choix(op).creat <=> op \in Efface
    BY DEF Choix
  <2> QED
    BY <2>1, <2>2, <2>3, <2>4
<1>3. \A op : op \in Efface => op \notin Ajoute /\ op # Lecture
  BY DEF Efface, Ajoute, Lecture
<1>4. pc[p] = "cree" => type[p] \in Ajoute \cup {""}
  BY DEF Registre, Suivi, Avancement
<1>5. \A op : op \in Ajoute => op # Lecture
  BY DEF Ajoute, Lecture
<1>6. Second.creat /\ ~Second.append /\ ~Second.tronque /\ Second.droits = {"ecrit"}
  BY DEF Second, Rien
<1>7. pc[p] = "ouvre" => Permise(p, opt[p])
  BY <1>1, <1>2, <1>3 DEF Permise
<1>8. pc[p] = "cree" => Permise(p, Second)
  BY <1>4, <1>5, <1>6 DEF Permise, Permis
<1>9. ASSUME type[p] # "", pc[p] = "ouvre"
      PROVE  /\ ~opt[p].refus
             /\ opt[p].cas # "entree" /\ ~opt[p].creat => type[p] \in Ajoute
             /\ type[p] \in Ajoute => opt[p].append
  BY <1>1, <1>2, <1>9 DEF Operateurs
<1> QED
  BY <1>7, <1>8, <1>9

(* What open() gives is a file that is there or one that nobody knows.     *)
Ouvre(p, o, f) ==
    /\ f = IF dossier[cmd[p].nom] = Absent THEN Nouveau ELSE dossier[cmd[p].nom]
    /\ f \in DOMAIN contenu \/ (f = Nouveau /\ o.creat)
    /\ dossier' = [dossier EXCEPT ![cmd[p].nom] = f]
    /\ contenu' = [g \in DOMAIN contenu \cup {f} |->
                      IF g \in DOMAIN contenu /\ (o.tronque => g # f)
                      THEN contenu[g] ELSE <<>>]
    /\ ouvert'[p] = [f |-> f, pos |-> 0, append |-> o.append, droits |-> o.droits]
    /\ Effet(p)

LEMMA OpenEffet ==
  ASSUME Redirige, Registre, NEW p \in Procs, pc[p] \in {"ouvre", "cree"},
         NEW o, Open(p, o), Permise(p, o), UNCHANGED <<cmd, type, opt, ecrits>>
  PROVE  \E f \in Nat \ {0} : Ouvre(p, o, f)
<1>1. Seul(p)
  BY OpenEtapes
<1>2. /\ Suivi(p) /\ Avancement(p) /\ Etapes0(p) /\ ouvert[p].f = Absent /\ ecrits[p] = 0
      /\ Ouvertures /\ Catalogue /\ Vierges /\ Procs' = Procs /\ cmd[p].nom \in Noms
  BY Types DEF Registre, Suivi, Avancement, Procs, Redirige
<1>3. PICK f : f = IF dossier[cmd[p].nom] = Absent THEN Nouveau ELSE dossier[cmd[p].nom]
  OBVIOUS
<1>4. /\ dossier' = [dossier EXCEPT ![cmd[p].nom] = f]
      /\ contenu' = [g \in DOMAIN contenu \cup {f} |->
                        IF g \in DOMAIN contenu /\ (o.tronque => g # f)
                        THEN contenu[g] ELSE <<>>]
      /\ ouvert' = [ouvert EXCEPT ![p] = [f |-> f, pos |-> 0, append |-> o.append, droits |-> o.droits]]
      /\ id' = [id EXCEPT ![p] = Libre(fds[p])]
      /\ fds' = [fds EXCEPT ![p][Libre(fds[p])] = Fichier]
      /\ pc' = [pc EXCEPT ![p] = "branche"]
      /\ dossier[cmd[p].nom] # Absent \/ o.creat
  BY <1>3 DEF Open
<1>5. f \in DOMAIN contenu \/ (f = Nouveau /\ o.creat)
  BY <1>2, <1>3, <1>4 DEF Catalogue
<1>6. f \in Nat \ {0} /\ f # Absent
  BY <1>2, <1>5, NouveauEst DEF Catalogue, Absent
<1>7. ouvert'[p] = [f |-> f, pos |-> 0, append |-> o.append, droits |-> o.droits]
  BY <1>2, <1>4 DEF Ouvertures
<1>8. Effet(p)
  <2>1. Ouvertures' /\ \A q \in Procs \ {p} : ouvert'[q] = ouvert[q]
    BY <1>2, <1>4, <1>7 DEF Ouvertures
  <2>2. type[p] # Lecture \/ (f \in DOMAIN contenu /\ ~o.tronque)
    BY <1>5 DEF Permise, Lecture
  <2> QED
    BY <1>1, <1>2, <1>4, <1>7, <2>1, <2>2 DEF Effet
<1> QED
  BY <1>3, <1>4, <1>5, <1>6, <1>7, <1>8 DEF Ouvre

LEMMA OpenRegistre ==
  ASSUME Redirige, Registre, NEW p \in Procs, pc[p] \in {"ouvre", "cree"},
         NEW o, Open(p, o), Permise(p, o), UNCHANGED <<cmd, type, opt, ecrits>>
  PROVE  Registre'
<1>1. Seul(p)
  BY OpenEtapes
<1>2. /\ Suivi(p) /\ Avancement(p) /\ Etapes0(p) /\ ouvert[p].f = Absent /\ ecrits[p] = 0
      /\ Ouvertures /\ Catalogue /\ Vierges /\ Procs' = Procs /\ cmd[p].nom \in Noms
  BY Types DEF Registre, Suivi, Avancement, Procs, Redirige
<1>0. PICK f \in Nat \ {0} : Ouvre(p, o, f)
  BY OpenEffet
<1>3. /\ f = IF dossier[cmd[p].nom] = Absent THEN Nouveau ELSE dossier[cmd[p].nom]
      /\ f \in DOMAIN contenu \/ (f = Nouveau /\ o.creat)
      /\ dossier' = [dossier EXCEPT ![cmd[p].nom] = f]
      /\ contenu' = [g \in DOMAIN contenu \cup {f} |->
                        IF g \in DOMAIN contenu /\ (o.tronque => g # f)
                        THEN contenu[g] ELSE <<>>]
      /\ ouvert'[p] = [f |-> f, pos |-> 0, append |-> o.append, droits |-> o.droits]
      /\ Effet(p)
  BY <1>0 DEF Ouvre
<1>4. /\ id' = [id EXCEPT ![p] = Libre(fds[p])]
      /\ fds' = [fds EXCEPT ![p][Libre(fds[p])] = Fichier]
      /\ pc' = [pc EXCEPT ![p] = "branche"]
  BY DEF Open
<1>5. f \in DOMAIN contenu \/ (f = Nouveau /\ o.creat)
  BY <1>3
<1>6. f \in Nat \ {0} /\ f # Absent
  BY <1>3 DEF Absent
<1>7. ouvert'[p] = [f |-> f, pos |-> 0, append |-> o.append, droits |-> o.droits]
  BY <1>3
<1>8. Effet(p)
  BY <1>3
<1>9. Catalogue'
  <2>1. DOMAIN contenu' = DOMAIN contenu \cup {f}
    BY <1>3
  <2>2. contenu' = [g \in DOMAIN contenu' |-> contenu'[g]]
    BY <1>3
  <2>3. DOMAIN contenu' \subseteq Nat \ {0} /\ IsFiniteSet(DOMAIN contenu')
    BY <1>2, <1>6, <2>1, FS_AddElement DEF Catalogue
  <2>4. \A g \in DOMAIN contenu' : g <= Max(Noms) + Cardinality(DOMAIN contenu')
    <3>1. CASE f \in DOMAIN contenu
      <4>1. DOMAIN contenu' = DOMAIN contenu
        BY <2>1, <3>1
      <4> QED
        BY <1>2, <4>1 DEF Catalogue
    <3>2. CASE f \notin DOMAIN contenu
      <4>1. Cardinality(DOMAIN contenu') = Cardinality(DOMAIN contenu) + 1
        BY <1>2, <2>1, <3>2, FS_AddElement, SMTT(30) DEF Catalogue
      <4>2. /\ Max(Noms) \in Nat /\ Cardinality(DOMAIN contenu) \in Nat
            /\ f = Max(Noms) + 1 + Cardinality(DOMAIN contenu)
        BY <1>2, <1>5, <3>2, NouveauEst
      <4>3. \A g \in DOMAIN contenu : g \in Nat /\ g <= Max(Noms) + Cardinality(DOMAIN contenu)
        BY <1>2 DEF Catalogue
      <4> DEFINE M == Max(Noms)
                 c == Cardinality(DOMAIN contenu)
      <4> HIDE DEF M, c
      <4>4. \A g \in DOMAIN contenu \cup {f} : g <= M + (c + 1)
        BY <4>2, <4>3 DEF M, c
      <4> QED
        BY <2>1, <4>1, <4>4 DEF M, c
    <3> QED
      BY <3>1, <3>2
  <2>5. dossier' \in [Noms -> {Absent} \cup DOMAIN contenu']
    BY <1>2, <1>3, <2>1 DEF Catalogue
  <2> QED
    BY <2>2, <2>3, <2>4, <2>5 DEF Catalogue
<1>10. Avancement(p)'
  <2>1. pc'[p] = "branche" /\ ecrits'[p] = 0 /\ ouvert'[p].f = f /\ f \in DOMAIN contenu'
    BY <1>1, <1>2, <1>3, <1>4, <1>7 DEF Redirige, Tableaux
  <2>2. ouvert'[p].droits = o.droits /\ type'[p] = type[p]
    BY <1>7
  <2>3. ouvert'[p].f # Absent /\ (type'[p] # "" => ouvert'[p].droits = Permis(type'[p]))
    BY <1>6, <2>1, <2>2 DEF Permise
  <2>4. ecrits'[p] \in Nat /\ pc'[p] \notin {"debut", "ouvre", "cree"}
        /\ pc'[p] # "fini" /\ ouvert'[p].f \in {Absent} \cup DOMAIN contenu'
    BY <2>1
  <2> QED
    BY <2>1, <2>3, <2>4, Zenon DEF Avancement
<1>11. Etapes0(p)'
  <2> SUFFICES ASSUME cmd[p].sortie = Ferme
               PROVE  pc'[p] = "branche" /\ id'[p] = 0 /\ fds'[p] = Ouverts(p)'
    BY <1>1 DEF Etapes0, Apres, Seul
  <2>1. fds[p] = Initiaux(p) /\ cmd[p].entree = Ferme /\ Recu(p) = 0
    BY <1>2, CommandesAssumption DEF Etapes0, Redirige, Recu, Procs
  <2>2. Libre(Initiaux(p)) = 0
    <3>1. DOMAIN Initiaux(p) = 0 .. 4 /\ Initiaux(p)[0] = Ferme
      BY <2>1 DEF Initiaux
    <3> QED
      BY <3>1, LibreEst
  <2>3. /\ pc'[p] = "branche" /\ id'[p] = 0 /\ fds'[p] = [fds[p] EXCEPT ![0] = Fichier]
    BY <1>4, <2>1, <2>2 DEF Redirige, Tableaux
  <2>4. Ouverts(p)' = Ouverts(p)
    BY Commande1
  <2> QED
    BY <2>1, <2>3, <2>4 DEF Ouverts
<1>12. Tete(p)'
  <2> SUFFICES ASSUME Propre(p)'
               PROVE  ~o.append /\ contenu'[f] = Ancien(f)
    <3>1. Ancien(ouvert[p].f)' = Ancien(f)
      BY <1>7 DEF Ancien, AncienContenu
    <3>2. PICK S : Ancien(f) \in Seq(S)
      BY AncienType
    <3>3. Melange(p, 0, Ancien(f)) = Ancien(f)
      BY <3>2, MelangeVide
    <3>4. Melange(p, ecrits[p], Ancien(ouvert[p].f))' = Melange(p, 0, Ancien(f))
      BY <1>2, <3>1 DEF Melange
    <3> QED
      BY <1>2, <1>7, <3>3, <3>4 DEF Tete
  <2>1. Ecrivains(f)' = {p} /\ type' = type /\ ~(type[p] \in Ajoute /\ f \in Noms)
    <3>1. Ecrivains(ouvert[p].f)' = Ecrivains(f)'
      BY <1>7 DEF Ecrivains
    <3> QED
      BY <1>7, <3>1 DEF Propre
  <2>2. Ecrivains(f) = {}
    <3>1. p \notin Ecrivains(f)
      BY <1>2, <1>6 DEF Ecrivains
    <3> QED
      BY <1>6, <1>8, <2>1, <3>1, EffetEcrivains
  <2>0. ~o.tronque /\ (o.append => type[p] \in Ajoute) /\ (o.creat => ~o.append)
    <3>1. type'[p] # ""
      BY DEF Propre, Sorties
    <3> QED
      BY <2>1, <3>1 DEF Permise
  <2>3. CASE f \in DOMAIN contenu
    <3>1. f \in Noms /\ contenu[f] = AncienContenu
      BY <1>2, <2>2, <2>3 DEF Vierges
    <3> QED
      BY <1>3, <2>0, <2>1, <2>3, <3>1 DEF Ancien
  <2>4. CASE f \notin DOMAIN contenu
    <3>1. f \notin Noms /\ o.creat
      BY <1>2, <1>5, <2>4, NouveauEst
    <3> QED
      BY <1>3, <2>0, <2>4, <3>1 DEF Ancien
  <2> QED
    BY <2>3, <2>4
<1> QED
  BY <1>8, <1>9, <1>10, <1>11, <1>12, EffetRegistre DEF Suivi

LEMMA OuvrirRegistre ==
  ASSUME Redirige, Registre, NEW p \in Procs, Ouvrir(p) \/ Creer(p)
  PROVE  Registre'
<1>0. /\ pc[p] \in {"ouvre", "cree"} /\ Avancement(p) /\ Etapes0(p)
      /\ Ouvertures /\ Catalogue /\ UNCHANGED <<cmd, type, opt, ecrits>>
  BY DEF Ouvrir, Creer, Registre, Suivi
<1>1. ASSUME NEW o, Open(p, o), Permise(p, o)
      PROVE  Registre'
  BY <1>0, <1>1, OpenRegistre
<1>2. pc[p] = "ouvre" => Permise(p, opt[p])
  BY EssaiPermis
<1>4. pc[p] = "cree" => Permise(p, Second)
  BY EssaiPermis
<1>3. ASSUME pc[p] = "ouvre", OpenEchoue(p, opt[p])
      PROVE  Registre'
  <2>0. pc'[p] = "cree" => type[p] \in Ajoute \cup {""}
    BY <1>3, EssaiPermis DEF OpenEchoue, Redirige, Tableaux
  <2>1. Seul(p) /\ pc'[p] \in {"cree", "echec"} /\ UNCHANGED <<dossier, contenu, fds, ouvert>>
    BY <1>3, OuvrirEtapes DEF OpenEchoue, Redirige, Tableaux
  <2>2. Procs' = Procs /\ ouvert[p].f = Absent
    BY <1>0, <2>1 DEF Procs, Avancement
  <2>3. Effet(p)
    BY <1>0, <2>1, <2>2 DEF Effet, Ouvertures
  <2>4. Catalogue'
    BY <1>0, <2>1, CatalogueGarde DEF Catalogue
  <2>5. Avancement(p)' /\ Tete(p)'
    BY <1>0, <2>0, <2>1, <2>2 DEF Avancement, Tete, Propre, Apres
  <2>6. Etapes0(p)'
    <3>1. Initiaux(p)' = Initiaux(p)
      BY <1>0, Commande1
    <3> QED
      BY <1>0, <2>1, <3>1 DEF Etapes0, Apres
  <2> QED
    BY <2>3, <2>4, <2>5, <2>6, EffetRegistre DEF Suivi
<1> QED
  BY <1>1, <1>2, <1>3, <1>4 DEF Ouvrir, Creer

(* Where 0 and 1 are closed at the start, only >& and >>& bring 1 to the   *)
(* file: the two others close what is not open, and fail.                  *)
LEMMA BrancherRegistre ==
  ASSUME Redirige, Registre, NEW p \in Procs, Brancher(p)
  PROVE  Registre'
<1>1. /\ Seul(p) /\ pc[p] = "branche" /\ pc'[p] \in {"lit", "echec"}
      /\ UNCHANGED <<dossier, contenu, cmd, type, opt, id, ouvert, ecrits>>
  BY BrancherEtapes
  DEF Brancher, VersUn, VersDeux, DepuisFichier, Redirige, Tableaux
<1>2. Avancement(p) /\ Etapes0(p) /\ Tete(p) /\ Ouvertures /\ Catalogue /\ Procs' = Procs
  BY <1>1 DEF Registre, Suivi, Procs
<1>3. Effet(p)
  BY <1>1, <1>2 DEF Effet, Ouvertures
<1>4. Catalogue'
  BY <1>1, <1>2, CatalogueGarde DEF Catalogue
<1>5. Avancement(p)'
  BY <1>1, <1>2 DEF Avancement
<1>6. Tete(p)'
  BY <1>1, <1>2 DEF Tete, Propre, Apres, Ecrivains, Ancien, AncienContenu, Melange
<1>7. Etapes0(p)'
  <2> SUFFICES ASSUME cmd[p].sortie = Ferme, pc'[p] = "lit", 1 \in Sorties(type[p])
               PROVE  fds'[p][1] = Fichier
    BY <1>1 DEF Etapes0, Apres
  <2> DEFINE o == Ouverts(p)
  <2>0. type[p] \in Operateurs /\ opt[p] = Choix(type[p]) /\ type[p] # Lecture
       /\ type[p] # ""
    <3>1. \A op : 1 \in Sorties(op) => op # "" /\ op # Lecture
      BY DEF Sorties, Lecture
    <3> QED
      BY <1>1, <3>1, Types DEF Redirige, Etapes
  <2>1. /\ id[p] = 0 /\ fds[p] = o /\ fds = [q \in Procs |-> fds[q]]
    BY <1>1, <1>2 DEF Etapes0, Redirige, Tableaux
  <2>2. o = [d \in 0 .. 4 |-> o[d]] /\ o[0] = Fichier /\ o[1] = Ferme
    <3>1. cmd[p].entree = Ferme /\ Recu(p) = 0
      BY CommandesAssumption DEF Redirige, Recu, Procs
    <3> QED
      BY <3>1 DEF Ouverts, Initiaux
  <2> HIDE DEF o
  <2>3. CASE VersUn(p)
    <3>1. PICK s \in SortieDe(p) :
             fds[p][s] = Ferme => pc' = [pc EXCEPT ![p] = "echec"]
      BY <2>3 DEF VersUn
    <3>0. opt[p].cas = "un" /\ SortieDe(p) = Sorties(type[p])
      BY <2>0, <2>3 DEF VersUn, SortieDe
    <3>4. Sorties(type[p]) = {1} \/ Sorties(type[p]) = {2}
      BY <2>0, <3>0, ChoixCas
    <3>2. s = 1
      BY <3>0, <3>1, <3>4
    <3>3. pc'[p] = "echec"
      BY <2>1, <2>2, <3>1, <3>2 DEF Redirige, Tableaux
    <3> QED
      BY <3>3
  <2>4. CASE VersDeux(p)
    <3>1. fds'[p] = Dup2(Dup2(o, 0, 1), 0, 2)
      BY <2>1, <2>4 DEF VersDeux
    <3> QED
      BY <2>2, <3>1 DEF Dup2
  <2>5. ~DepuisFichier(p)
    BY <2>0, ChoixCas DEF DepuisFichier
  <2> QED
    BY <2>3, <2>4, <2>5 DEF Brancher
<1> QED
  BY <1>3, <1>4, <1>5, <1>6, <1>7, EffetRegistre DEF Suivi

LEMMA LectureRegistre ==
  ASSUME Redirige, Registre, NEW p \in Procs, LireBloc(p) \/ FinLecture(p)
  PROVE  Registre'
<1>1. /\ Seul(p) /\ pc[p] = "lit" /\ pc'[p] \in {"lit", "marche"}
      /\ UNCHANGED <<dossier, contenu, cmd, type, id, fds, ecrits>>
  BY SuiteEtapes DEF LireBloc, FinLecture, Redirige, Tableaux
<1>2. Avancement(p) /\ Etapes0(p) /\ Tete(p) /\ Ouvertures /\ Catalogue /\ Procs' = Procs
  BY <1>1 DEF Registre, Suivi, Procs
<1>3. /\ Ouvertures' /\ ouvert'[p].f = ouvert[p].f
      /\ \A q \in Procs \ {p} : ouvert'[q] = ouvert[q]
      /\ ouvert'[p].droits = ouvert[p].droits
      /\ 1 \notin Sorties(type[p]) \/ ouvert' = ouvert
  <2>1. CASE FinLecture(p)
    BY <1>1, <1>2, <2>1 DEF FinLecture, Ouvertures
  <2>2. CASE LireBloc(p)
    <3>1. "lit" \in ouvert[p].droits
      BY <2>2 DEF LireBloc, Encore, EntreeFichier
    <3>2. type[p] \in {"", Lecture}
      BY <1>2, <3>1, PermisEst DEF Avancement
    <3>3. 1 \notin Sorties(type[p])
      BY <3>2 DEF Sorties, Lecture
    <3> QED
      BY <1>1, <1>2, <2>2, <3>3 DEF LireBloc, Ouvertures
  <2> QED
    BY <2>1, <2>2
<1>4. Effet(p)
  BY <1>1, <1>2, <1>3 DEF Effet
<1>5. Catalogue'
  BY <1>1, <1>2, CatalogueGarde DEF Catalogue
<1>6. Avancement(p)' /\ Etapes0(p)'
  BY <1>1, <1>2, <1>3 DEF Avancement, Etapes0, Apres
<1>7. Tete(p)'
  <2>1. CASE 1 \notin Sorties(type[p])
    BY <1>1, <2>1 DEF Tete, Propre
  <2>2. CASE ouvert' = ouvert
    BY <1>1, <1>2, <2>2
    DEF Tete, Propre, Apres, Ecrivains, Ancien, AncienContenu, Melange
  <2> QED
    BY <1>3, <2>1, <2>2
<1> QED
  BY <1>4, <1>5, <1>6, <1>7, EffetRegistre DEF Suivi

(* A write reaches the file of p, and its place there, or nothing.         *)
LEMMA WriteEffet ==
  ASSUME Registre, NEW p \in Procs, Seul(p), type' = type,
         \A q \in Procs \ {p} : ecrits'[q] = ecrits[q],
         ecrits' = [q \in Procs |-> ecrits'[q]],
         NEW d, NEW b, Write(p, d, b)
  PROVE  /\ Effet(p) /\ DOMAIN contenu' = DOMAIN contenu
         /\ contenu' = [f \in DOMAIN contenu |-> contenu'[f]]
         /\ ouvert'[p].f = ouvert[p].f /\ ouvert'[p].append = ouvert[p].append
         /\ ouvert'[p].droits = ouvert[p].droits
<1>1. Ouvertures /\ Procs' = Procs /\ contenu = [f \in DOMAIN contenu |-> contenu[f]]
  BY DEF Registre, Catalogue, Seul, Procs
<1>3. CASE UNCHANGED <<contenu, ouvert>>
  BY <1>1, <1>3 DEF Effet, Ouvertures
<1>4. CASE ~UNCHANGED <<contenu, ouvert>>
  <2>1. PICK t : contenu' = [contenu EXCEPT ![ouvert[p].f] = t]
    BY <1>4 DEF Write
  <2>2. PICK n : ouvert' = [ouvert EXCEPT ![p].pos = n]
    BY <1>4 DEF Write
  <2>3. type[p] # Lecture
    <3>1. "ecrit" \in ouvert[p].droits
      BY <1>4 DEF Write
    <3>2. Avancement(p)
      BY DEF Registre, Suivi
    <3> QED
      BY <3>1, <3>2, PermisEst DEF Avancement, Lecture
  <2>4. /\ Ouvertures' /\ ouvert'[p].f = ouvert[p].f /\ ouvert'[p].append = ouvert[p].append
        /\ ouvert'[p].droits = ouvert[p].droits
        /\ \A q \in Procs \ {p} : ouvert'[q] = ouvert[q]
    BY <1>1, <2>2 DEF Ouvertures
  <2>5. /\ DOMAIN contenu' = DOMAIN contenu
        /\ contenu' = [f \in DOMAIN contenu |-> contenu'[f]]
        /\ \A f \in DOMAIN contenu : f # ouvert[p].f => contenu'[f] = contenu[f]
    BY <1>1, <2>1
  <2> QED
    BY <2>3, <2>4, <2>5 DEF Effet
<1> QED
  BY <1>3, <1>4

\* Whoever asked for 1 in the file has it there when it prints.
LEMMA UnEstFichier ==
  ASSUME Redirige, Registre, NEW p \in Procs, pc[p] = "marche", 1 \in Sorties(type[p])
  PROVE  fds[p][1] = Fichier
<1>1. Etapes(p) /\ Etapes0(p)
  BY DEF Redirige, Registre, Suivi
<1>2. type[p] # "" /\ type[p] # Lecture
  BY DEF Sorties, Lecture
<1>3. CASE cmd[p].sortie = Ferme
  <2>1. pc[p] \in Apres
    BY DEF Apres
  <2> QED
    BY <1>1, <1>3, <2>1 DEF Etapes0
<1>4. CASE cmd[p].sortie # Ferme
  <2>1. type[p] = cmd[p].op /\ Branche(p)
    BY <1>1, <1>2, <1>4 DEF Etapes
  <2>2. BrancheSur(p, Sorties(type[p]))
    BY <1>2, <2>1 DEF Branche, Demande
  <2>3. \A d \in {1, 2} : d \in Sorties(type[p]) => fds[p][d] = Fichier
    BY <2>2 DEF BrancheSur
  <2> QED
    BY <2>3
<1> QED
  BY <1>3, <1>4

(* The next block comes after the ones before.                             *)
LEMMA WriteTete ==
  ASSUME Redirige, Registre, NEW p \in Procs, Propre(p), pc[p] = "marche",
         NEW e, e = ecrits[p], Write(p, 1, <<p, e + 1>>)
  PROVE  /\ ~ouvert'[p].append /\ ouvert'[p].pos = e + 1
         /\ contenu'[ouvert[p].f] = Melange(p, e + 1, Ancien(ouvert[p].f))
<1>1. /\ Avancement(p) /\ Etapes0(p) /\ Tete(p) /\ Ouvertures /\ Etapes(p)
      /\ contenu = [f \in DOMAIN contenu |-> contenu[f]]
  BY DEF Registre, Suivi, Catalogue, Redirige
<1>2. fds[p][1] = Fichier /\ "ecrit" \in ouvert[p].droits
  <2>1. /\ 1 \in Sorties(type[p]) /\ type[p] # "" /\ type[p] # Lecture
        /\ ouvert[p].f # Absent
    BY DEF Propre, Sorties, Lecture
  <2>2. fds[p][1] = Fichier
    BY <2>1, UnEstFichier
  <2>3. "ecrit" \in ouvert[p].droits
    BY <1>1, <2>1, PermisEst DEF Avancement
  <2> QED
    BY <2>2, <2>3
<1>3. PICK f : f = ouvert[p].f
  OBVIOUS
<1>4. PICK S : Ancien(f) \in Seq(S)
  BY AncienType
<1>5. /\ e \in Nat /\ f \in DOMAIN contenu /\ ~ouvert[p].append /\ ouvert[p].pos = e
      /\ contenu[f] = Melange(p, e, Ancien(f))
  BY <1>1, <1>3 DEF Avancement, Propre, Tete
<1>6. Place(p) = e + 1
  BY <1>5 DEF Place
<1>7. contenu'[f] = Ecrite(contenu[f], e + 1, <<p, e + 1>>)
  BY <1>2, <1>3, <1>5, <1>6 DEF Write, Ecrite
<1>8. contenu'[f] = Melange(p, e + 1, Ancien(f))
  BY <1>4, <1>5, <1>7, MelangeEcrit
<1>9. ~ouvert'[p].append /\ ouvert'[p].pos = e + 1
  BY <1>1, <1>2, <1>5, <1>6 DEF Write, Ouvertures
<1> QED
  BY <1>3, <1>8, <1>9

LEMMA SortieRegistre ==
  ASSUME Redirige, Registre, NEW p \in Procs, Echouer(p) \/ Ecrire(p) \/ Terminer(p)
  PROVE  Registre'
<1>1. /\ Seul(p) /\ pc[p] = "marche" /\ pc'[p] \in {"marche", "fini", "echec", "avorte"}
      /\ UNCHANGED <<dossier, cmd, type, fds>>
  BY SuiteEtapes DEF Echouer, Ecrire, Terminer, Redirige, Tableaux
<1>2. /\ Avancement(p) /\ Etapes0(p) /\ Tete(p) /\ Ouvertures /\ Catalogue
      /\ Procs' = Procs /\ ecrits[p] \in Nat
  BY <1>1 DEF Registre, Suivi, Procs, Avancement
<1>3. /\ ecrits' = [q \in Procs |-> ecrits'[q]]
      /\ \A q \in Procs \ {p} : ecrits'[q] = ecrits[q]
  BY <1>2 DEF Echouer, Ecrire, Terminer, Ouvertures
<1>4. Etapes0(p)'
  BY <1>1, <1>2 DEF Etapes0, Apres
<1>5. CASE \/ pc'[p] = "echec" /\ (\E b : Write(p, 2, b)) /\ ecrits' = ecrits
           \/ pc'[p] = "avorte" /\ UNCHANGED <<contenu, ouvert, ecrits>>
  <2>1. /\ Effet(p) /\ DOMAIN contenu' = DOMAIN contenu
        /\ contenu' = [f \in DOMAIN contenu |-> contenu'[f]]
        /\ ouvert'[p].f = ouvert[p].f /\ ouvert'[p].droits = ouvert[p].droits
        /\ ecrits'[p] = ecrits[p]
        /\ pc'[p] = "echec" \/ UNCHANGED <<contenu, ouvert, ecrits>>
    <3>1. CASE pc'[p] = "echec"
      BY <1>1, <1>3, <1>5, <3>1, WriteEffet
    <3>2. CASE UNCHANGED <<contenu, ouvert, ecrits>>
      BY <1>1, <1>2, <3>2 DEF Effet, Ouvertures, Catalogue
    <3> QED
      BY <1>5, <3>1, <3>2
  <2>2. Catalogue'
    BY <1>1, <1>2, <2>1, CatalogueGarde
  <2>3. Avancement(p)'
    BY <1>1, <1>2, <1>5, <2>1 DEF Avancement
  <2>4. Tete(p)'
    <3>1. CASE pc'[p] = "echec"
      BY <3>1 DEF Tete, Propre, Apres
    <3>2. CASE UNCHANGED <<contenu, ouvert, ecrits>>
      BY <1>1, <1>2, <3>2
      DEF Tete, Propre, Apres, Ecrivains, Ancien, AncienContenu, Melange
    <3> QED
      BY <2>1, <3>1, <3>2
  <2> QED
    BY <1>4, <2>1, <2>2, <2>3, <2>4, EffetRegistre DEF Suivi
<1>6. CASE /\ Write(p, 1, <<p, ecrits[p] + 1>>) /\ ecrits'[p] = ecrits[p] + 1
           /\ pc'[p] = "marche" \/ (pc'[p] = "fini" /\ ecrits'[p] = Blocs)
  <2>1. PICK e : e = ecrits[p]
    OBVIOUS
  <2>2. /\ Effet(p) /\ DOMAIN contenu' = DOMAIN contenu
        /\ contenu' = [f \in DOMAIN contenu |-> contenu'[f]]
        /\ ouvert'[p].f = ouvert[p].f /\ ouvert'[p].droits = ouvert[p].droits
    BY <1>1, <1>3, <1>6, WriteEffet
  <2>3. Catalogue'
    BY <1>1, <1>2, <2>2, CatalogueGarde
  <2>4. Avancement(p)'
    <3>1. /\ ecrits'[p] \in Nat
          /\ pc'[p] \notin {"debut", "ouvre", "cree"} /\ pc'[p] \in {"marche", "fini"}
          /\ pc'[p] = "fini" => ecrits'[p] = Blocs
      BY <1>2, <1>6
    <3> QED
      BY <1>1, <1>2, <2>2, <3>1 DEF Avancement
  <2>5. Tete(p)'
    <3> SUFFICES ASSUME Propre(p)' PROVE /\ ~ouvert'[p].append /\ ouvert'[p].pos = ecrits'[p]
                                         /\ contenu'[ouvert'[p].f]
                                              = Melange(p, ecrits[p], Ancien(ouvert[p].f))'
      BY DEF Tete
    <3>1. Propre(p)
      <4>1. Ecrivains(ouvert[p].f)' = Ecrivains(ouvert[p].f)
        <5>1. \A q \in Procs : ouvert'[q].f = ouvert[q].f
          BY <2>2 DEF Effet
        <5> QED
          BY <1>1, <1>2, <5>1, <2>2 DEF Ecrivains
      <4> QED
        BY <1>1, <2>2, <4>1 DEF Propre, Apres
    <3>2. /\ ~ouvert'[p].append /\ ouvert'[p].pos = e + 1
          /\ contenu'[ouvert[p].f] = Melange(p, e + 1, Ancien(ouvert[p].f))
      BY <1>1, <1>6, <2>1, <3>1, WriteTete
    <3>3. Melange(p, ecrits[p], Ancien(ouvert[p].f))' = Melange(p, e + 1, Ancien(ouvert[p].f))
      BY <1>6, <2>1, <2>2 DEF Melange, Ancien, AncienContenu
    <3> QED
      BY <1>6, <2>1, <2>2, <3>2, <3>3
  <2> QED
    BY <1>4, <2>2, <2>3, <2>4, <2>5, EffetRegistre DEF Suivi
<1>7. CASE Echouer(p)
  BY <1>5, <1>7 DEF Echouer, Redirige, Tableaux
<1>8. CASE Ecrire(p)
  BY <1>1, <1>2, <1>6, <1>8 DEF Ecrire, Ouvertures, Redirige, Tableaux
<1>9. CASE Terminer(p)
  <2>1. CASE deplace[p]
    BY <1>5, <1>9, <2>1 DEF Terminer, Redirige, Tableaux
  <2>2. CASE ~deplace[p]
    <3>1. Blocs = ecrits[p] + 1
      BY <1>2, <1>9, FichiersAssumption DEF Terminer
    <3>2. Write(p, 1, <<p, ecrits[p] + 1>>) /\ ecrits'[p] = Blocs /\ pc'[p] = "fini"
      BY <1>2, <1>9, <2>2, <3>1 DEF Terminer, Ouvertures, Redirige, Tableaux
    <3> QED
      BY <1>6, <3>1, <3>2
  <2> QED
    BY <2>1, <2>2
<1> QED
  BY <1>7, <1>8, <1>9

(* myls reads, and a file that is removed stays open where it was.         *)
LEMMA ReposRegistre ==
  ASSUME Registre, UNCHANGED <<cmd, processus, contenu>>,
         dossier' \in [Noms -> {Absent} \cup DOMAIN contenu]
  PROVE  Registre'
<1>1. Catalogue' /\ Ouvertures' /\ Procs' = Procs
  BY DEF Registre, Catalogue, Ouvertures, Procs, processus
<1>2. \A f : Ecrivains(f)' = Ecrivains(f) /\ Ancien(f)' = Ancien(f)
  BY <1>1 DEF Ecrivains, Ancien, AncienContenu, processus
<1>3. Vierges'
  BY <1>2 DEF Registre, Vierges, AncienContenu, processus
<1>4. ASSUME NEW p \in Procs PROVE Suivi(p)'
  <2>1. /\ cmd' = cmd /\ pc' = pc /\ type' = type /\ fds' = fds /\ id' = id
        /\ ouvert' = ouvert /\ ecrits' = ecrits /\ contenu' = contenu /\ Suivi(p)
    BY DEF Registre, processus
  <2>2. Avancement(p)'
    BY <2>1 DEF Suivi, Avancement
  <2>3. Etapes0(p)'
    <3>1. Initiaux(p)' = Initiaux(p) /\ Ouverts(p)' = Ouverts(p)
      BY <2>1, Commande1
    <3> QED
      BY <2>1, <3>1 DEF Suivi, Etapes0
  <2>4. Tete(p)'
    <3>1. Propre(p)' => Propre(p)
      <4>1. Ecrivains(ouvert[p].f)' = Ecrivains(ouvert[p].f)
        BY <1>1, <2>1 DEF Ecrivains
      <4> QED
        BY <2>1, <4>1 DEF Propre
    <3>2. Ancien(ouvert[p].f)' = Ancien(ouvert[p].f)
      BY <2>1 DEF Ancien, AncienContenu
    <3>3. Melange(p, ecrits[p], Ancien(ouvert[p].f))'
          = Melange(p, ecrits[p], Ancien(ouvert[p].f))
      BY <2>1, <3>2 DEF Melange
    <3> QED
      BY <2>1, <3>1, <3>3 DEF Suivi, Tete
  <2> QED
    BY <2>2, <2>3, <2>4 DEF Suivi
<1> QED
  BY <1>1, <1>3, <1>4 DEF Registre

LEMMA InitRegistre == RedirInit => Registre
<1> SUFFICES ASSUME RedirInit PROVE Registre
  OBVIOUS
<1>1. /\ dossier \in [Noms -> Noms \cup {Absent}]
      /\ \A n \in Noms : dossier[n] \in {n, Absent}
      /\ contenu = [f \in {n \in Noms : dossier[n] = n} |-> AncienContenu]
  BY DEF RedirInit
<1>2. DOMAIN contenu = {n \in Noms : dossier[n] = n}
  BY <1>1
<1>3. Catalogue
  <2>1. DOMAIN contenu \subseteq Noms /\ IsFiniteSet(DOMAIN contenu)
    BY <1>2, FichiersAssumption, FS_Subset
  <2>2. DOMAIN contenu \subseteq Nat \ {0} /\ Cardinality(DOMAIN contenu) \in Nat
    BY <2>1, FichiersAssumption, FS_CardinalityType
  <2>3. \A f \in DOMAIN contenu : f <= Max(Noms) + Cardinality(DOMAIN contenu)
    <3> DEFINE M == Max(Noms)
               c == Cardinality(DOMAIN contenu)
    <3>1. M \in Nat /\ \A f \in DOMAIN contenu : f \in Nat /\ f <= M
      BY <2>1, Plafond, FichiersAssumption
    <3>2. c \in Nat
      BY <2>2
    <3> HIDE DEF M, c
    <3>3. \A f \in DOMAIN contenu : f <= M + c
      BY <3>1, <3>2
    <3> QED
      BY <3>3 DEF M, c
  <2>4. dossier \in [Noms -> {Absent} \cup DOMAIN contenu]
    BY <1>1, <1>2
  <2>5. contenu = [f \in DOMAIN contenu |-> contenu[f]]
    BY <1>1
  <2> QED
    BY <2>1, <2>2, <2>3, <2>4, <2>5 DEF Catalogue
<1>4. Vierges
  BY <1>1, <1>2 DEF Vierges
<1>5. Ouvertures /\ \A p \in Procs : /\ ouvert[p].f = Absent /\ ouvert[p].droits = {}
                                     /\ pc[p] = "debut" /\ ecrits[p] = 0
  BY DEF RedirInit, Ouvertures, Absent
<1>6. ASSUME NEW p \in Procs PROVE Suivi(p)
  <2>1. fds[p] = Initiaux(p)
    BY DEF RedirInit, Initiaux
  <2>2. Avancement(p)
    <3>1. /\ ecrits[p] \in Nat /\ ecrits[p] = 0 /\ pc[p] = "debut"
          /\ ouvert[p].f \in {Absent} \cup DOMAIN contenu
          /\ ouvert[p].f = Absent /\ ouvert[p].droits = {}
      BY <1>5
    <3>2. pc[p] # "cree" /\ pc[p] # "fini"
      BY <3>1
    <3> QED
      BY <3>1, <3>2, Zenon DEF Avancement
  <2> QED
    BY <1>5, <2>1, <2>2 DEF Suivi, Etapes0, Tete, Propre, Apres
<1> QED
  BY <1>3, <1>4, <1>5, <1>6 DEF Registre

LEMMA RegistreInvariant == Spec => []Registre
<1>1. Init => Registre
  BY InitRegistre DEF Init
<1>2. Redirige /\ Registre /\ [Next]_varsLs => Registre'
  <2> SUFFICES ASSUME Redirige, Registre, [Next]_varsLs PROVE Registre'
    OBVIOUS
  <2>1. ASSUME NEW p \in Procs, Commande(p) PROVE Registre'
    BY <2>1, ReconnaitreRegistre, OuvrirRegistre, BrancherRegistre, LectureRegistre,
       SortieRegistre DEF Commande, Processus
  <2>0. dossier \in [Noms -> {Absent} \cup DOMAIN contenu]
    BY DEF Registre, Catalogue
  <2>2. CASE Ls
    BY <2>0, <2>2, ReposRegistre
    DEF Ls, Opendir, Getdents, Readdir, Permissions, Stat, Closedir, varsRedir
  <2>3. ASSUME NEW n \in Retirables, Retirer(n) PROVE Registre'
    BY <2>0, <2>3, ReposRegistre DEF Retirer
  <2>4. CASE UNCHANGED varsLs
    BY <2>0, <2>4, ReposRegistre DEF varsLs, varsRedir
  <2> QED
    BY <2>1, <2>2, <2>3, <2>4 DEF Next
<1> QED
  BY <1>1, <1>2, RedirigeInvariant, PTL DEF Spec

(* A process that is alone to write its file and does not append leaves its*)
(* whole output at the head of it, in its order; whoever else reads the    *)
(* file or removes its name.                                               *)
THEOREM EcritSeul == Spec => []SeulEcrit
BY SeulDuRegistre, RegistreInvariant, PTL

-----------------------------------------------------------------------------
(* The steps of a process, for the files: nothing, an opening, a write.    *)
Calme(p) ==
    /\ UNCHANGED <<dossier, contenu, ecrits>>
    /\ ouvert'[p].f = ouvert[p].f /\ ouvert'[p].append = ouvert[p].append
    /\ \/ ouvert'[p].pos = ouvert[p].pos
       \/ ouvert[p].pos < Len(Texte(p)) /\ ouvert'[p].pos = ouvert[p].pos + 1

Ouverture(p) ==
    /\ \E o, f : /\ Ouvre(p, o, f)
                 /\ type[p] \in Ajoute => o.append \/ pc[p] = "cree"
                 /\ type[p] # "" => ~o.tronque
    /\ pc[p] \in {"ouvre", "cree"} /\ UNCHANGED <<type, ecrits>>

Ecriture(p) ==
    /\ pc[p] = "marche" /\ UNCHANGED <<dossier, type>>
    /\ \E n \in 0 .. Blocs :
          \/ n = 0 /\ Write(p, 2, <<p, n>>) /\ ecrits' = ecrits
          \/ n = ecrits[p] + 1 /\ Write(p, 1, <<p, n>>) /\ ecrits'[p] = n

Pas(p) == Effet(p) /\ (Calme(p) \/ Ouverture(p) \/ Ecriture(p))

LEMMA CalmeEffet ==
  ASSUME Registre, NEW p \in Procs, Seul(p), Calme(p), Ouvertures',
         \A q \in Procs \ {p} : ouvert'[q] = ouvert[q],
         type'[p] = type[p] \/ ouvert[p].f = Absent
  PROVE  Pas(p)
<1>1. Procs' = Procs
  BY DEF Seul, Procs
<1> QED
  BY <1>1 DEF Pas, Effet, Calme

LEMMA OuvrirPas ==
  ASSUME Redirige, Registre, NEW p \in Procs, Ouvrir(p) \/ Creer(p)
  PROVE  Pas(p)
<1>0. /\ pc[p] \in {"ouvre", "cree"} /\ Avancement(p) /\ Ouvertures
      /\ UNCHANGED <<cmd, type, opt, ecrits>> /\ Seul(p) /\ Procs' = Procs
  BY OuvrirEtapes DEF Ouvrir, Creer, Registre, Suivi, Seul, Procs
<1>1. ASSUME NEW o, Open(p, o), Permise(p, o), type[p] \in Ajoute => o.append \/ pc[p] = "cree"
      PROVE  Pas(p)
  <2>1. PICK f \in Nat \ {0} : Ouvre(p, o, f)
    BY <1>0, <1>1, OpenEffet
  <2>2. Effet(p)
    BY <2>1 DEF Ouvre
  <2>3. Ouverture(p)
    <3>1. type[p] # "" => ~o.tronque
      BY <1>1 DEF Permise
    <3> QED
      BY <1>0, <1>1, <2>1, <3>1 DEF Ouverture
  <2> QED
    BY <2>2, <2>3 DEF Pas
<1>2. CASE pc[p] = "ouvre" /\ Open(p, opt[p])
  <2>1. type[p] \in Ajoute => type[p] # ""
    BY DEF Ajoute
  <2> QED
    BY <1>1, <1>2, <2>1, EssaiPermis
<1>3. CASE pc[p] = "cree" /\ Open(p, Second)
  BY <1>1, <1>3, EssaiPermis
<1>4. CASE \E o : OpenEchoue(p, o)
  <2>1. Calme(p) /\ UNCHANGED ouvert
    BY <1>0, <1>4 DEF OpenEchoue, Calme
  <2> QED
    BY <1>0, <2>1, CalmeEffet DEF Calme, Ouvertures
<1> QED
  BY <1>2, <1>3, <1>4 DEF Ouvrir, Creer

LEMMA ProcessusPas ==
  ASSUME Redirige, Registre, NEW p \in Procs, Processus(p)
  PROVE  Pas(p)
<1>0. /\ Ouvertures /\ Avancement(p) /\ Etapes(p) /\ Seul(p) /\ Procs' = Procs
      /\ ecrits[p] \in Nat /\ Blocs \in Nat
  BY ReconnaitreEtapes, OuvrirEtapes, BrancherEtapes, SuiteEtapes, FichiersAssumption
  DEF Processus, Registre, Suivi, Redirige, Seul, Procs, Avancement
<1>1. CASE Reconnaitre(p) \/ Brancher(p) \/ FinLecture(p)
  <2>1. Calme(p) /\ UNCHANGED ouvert
    BY <1>1 DEF Reconnaitre, Brancher, FinLecture, Calme
  <2>2. type'[p] = type[p] \/ ouvert[p].f = Absent
    BY <1>0, <1>1 DEF Reconnaitre, Brancher, FinLecture, Avancement
  <2> QED
    BY <1>0, <2>1, <2>2, CalmeEffet DEF Calme, Ouvertures
<1>2. CASE LireBloc(p)
  <2>1. Calme(p) /\ Ouvertures' /\ \A q \in Procs \ {p} : ouvert'[q] = ouvert[q]
    BY <1>0, <1>2 DEF LireBloc, Calme, Encore, Ouvertures
  <2> QED
    BY <1>0, <1>2, <2>1, CalmeEffet DEF LireBloc
<1>3. CASE Ouvrir(p) \/ Creer(p)
  BY <1>3, OuvrirPas
<1>4. CASE Terminer(p) /\ deplace[p]
  <2>1. Calme(p) /\ UNCHANGED <<ouvert, type>>
    BY <1>4 DEF Terminer, Calme
  <2> QED
    BY <1>0, <2>1, CalmeEffet DEF Calme, Ouvertures
<1>5. CASE Echouer(p) \/ Ecrire(p) \/ (Terminer(p) /\ ~deplace[p])
  <2>1. Ecriture(p)
    <3>1. CASE Echouer(p)
      BY <1>0, <3>1 DEF Echouer, Ecriture
    <3>2. CASE Ecrire(p)
      <4>1. ecrits[p] + 1 \in 0 .. Blocs /\ ecrits'[p] = ecrits[p] + 1
        BY <1>0, <3>2 DEF Ecrire, Ouvertures
      <4> QED
        BY <3>2, <4>1 DEF Ecrire, Ecriture
    <3>3. CASE Terminer(p) /\ ~deplace[p]
      <4>1. Blocs = ecrits[p] + 1 /\ Blocs \in 0 .. Blocs /\ ecrits'[p] = Blocs
        BY <1>0, <3>3 DEF Terminer, Ouvertures
      <4> QED
        BY <3>3, <4>1 DEF Terminer, Ecriture
    <3> QED
      BY <1>5, <3>1, <3>2, <3>3
  <2>2. PICK d, b : Write(p, d, b)
    BY <2>1 DEF Ecriture
  <2>3. /\ type' = type /\ ecrits' = [q \in Procs |-> ecrits'[q]]
        /\ \A q \in Procs \ {p} : ecrits'[q] = ecrits[q]
    BY <1>0, <1>5 DEF Echouer, Ecrire, Terminer, Ouvertures
  <2>4. Effet(p)
    BY <1>0, <2>2, <2>3, WriteEffet
  <2> QED
    BY <2>1, <2>4 DEF Pas
<1> QED
  BY <1>1, <1>2, <1>3, <1>4, <1>5 DEF Processus

-----------------------------------------------------------------------------
(* Types.                                                                  *)
LEMMA MaxDeux ==
  ASSUME NEW a \in Nat, NEW n \in Nat
  PROVE  Max({a, n}) = IF n <= a THEN a ELSE n
<1> DEFINE L == IF n <= a THEN a ELSE n
<1>1. L \in {a, n} /\ {a, n} \subseteq Nat /\ \A k \in {a, n} : k <= L
  OBVIOUS
<1> HIDE DEF L
<1>2. Max({a, n}) = L
  BY <1>1, MaximumEst
<1> QED
  BY <1>2 DEF L

LEMMA EcriteEst ==
  ASSUME NEW S, NEW m \in Seq(S), NEW n \in Nat, n > 0, NEW b \in S, Trou \in S
  PROVE  /\ Ecrite(m, n, b) \in Seq(S)
         /\ n <= Len(m) => Len(Ecrite(m, n, b)) = Len(m)
         /\ ~(n <= Len(m)) => Len(Ecrite(m, n, b)) = n
<1> DEFINE L == IF n <= Len(m) THEN Len(m) ELSE n
           e(k) == IF k = n THEN b ELSE IF k \in DOMAIN m THEN m[k] ELSE Trou
<1>1. /\ Len(m) \in Nat /\ n \in Nat /\ L \in Nat /\ DOMAIN m = 1 .. Len(m)
      /\ \A k \in 1 .. Len(m) : m[k] \in S
  BY LenProperties
<1>2. \A k \in 1 .. L : e(k) \in S
  BY <1>1
<1>3. Max({Len(m), n}) = L
  BY <1>1, MaxDeux
<1>4. Ecrite(m, n, b) = [k \in 1 .. L |-> e(k)]
  BY <1>3 DEF Ecrite
<1> HIDE DEF L, e
<1>5. Ecrite(m, n, b) \in [1 .. L -> S]
  BY <1>2, <1>4
<1>6. Ecrite(m, n, b) \in Seq(S) /\ Len(Ecrite(m, n, b)) = L
  BY <1>1, <1>5
<1> QED
  BY <1>6 DEF L

LEMMA EcriteAuBout ==
  ASSUME NEW S, NEW m \in Seq(S), NEW b \in S, Trou \in S
  PROVE  /\ Len(Ecrite(m, Len(m) + 1, b)) = Len(m) + 1
         /\ \A k \in 1 .. Len(m) + 1 :
               Ecrite(m, Len(m) + 1, b)[k] = IF k = Len(m) + 1 THEN b ELSE m[k]
<1>1. PICK n : n = Len(m) + 1
  OBVIOUS
<1>2. Len(m) \in Nat /\ n \in Nat /\ n > 0 /\ ~(n <= Len(m)) /\ DOMAIN m = 1 .. Len(m)
  BY <1>1, LenProperties
<1>3. Len(Ecrite(m, n, b)) = n
  BY <1>2, EcriteEst
<1>4. Max({Len(m), n}) = n
  BY <1>2, MaxDeux
<1>5. \A k \in 1 .. n : k # n => k \in DOMAIN m
  BY <1>1, <1>2
<1>6. \A k \in 1 .. n : Ecrite(m, n, b)[k] = IF k = n THEN b ELSE m[k]
  BY <1>4, <1>5 DEF Ecrite
<1> QED
  BY <1>1, <1>3, <1>6

Controle(p) ==
    /\ pc[p] \in {"debut", "ouvre", "cree", "branche", "lit", "marche",
                  "fini", "echec", "avorte"}
    /\ type[p] \in Operateurs \cup {""} /\ opt[p] \in Options
    /\ id[p] \in 0 .. 4

\* A place in a file that nobody cut is within it.
Position(p) ==
    /\ ouvert[p].pos \in Nat
    /\ ouvert[p].f # Absent /\ Intact(ouvert[p].f) => ouvert[p].pos <= Len(Texte(p))
    /\ ecrits[p] \in 0 .. Blocs

Contenus == \A f \in DOMAIN contenu : contenu[f] \in Seq(Bloc)

TypesDe == Contenus /\ \A p \in Procs : Controle(p) /\ Position(p)

LEMMA TypeDuRegistre == Registre /\ TypesDe => TypeRedir
  BY DEF Registre, Suivi, Catalogue, Avancement, TypesDe, Contenus, Controle, Position,
         TypeRedir

LEMMA InitTypes == RedirInit => TypesDe
<1> SUFFICES ASSUME RedirInit PROVE TypesDe
  OBVIOUS
<1>1. Blocs \in Nat \ {0}
  BY FichiersAssumption
<1>2. Contenus
  <2>1. AncienContenu \in [1 .. Blocs + 1 -> Bloc]
    BY <1>1 DEF AncienContenu, Bloc
  <2>2. AncienContenu \in Seq(Bloc)
    <3> HIDE DEF AncienContenu, Bloc
    <3> QED
      BY <1>1, <2>1
  <2> QED
    BY <2>2 DEF RedirInit, Contenus
<1>3. ASSUME NEW p \in Procs PROVE Controle(p) /\ Position(p)
  <2>1. pc[p] = "debut" /\ type[p] = ""
    BY DEF RedirInit
  <2>2. id[p] = 0
    BY DEF RedirInit
  <2>3. id[p] \in 0 .. 4
    BY <2>2
  <2>4. ouvert[p].f = Absent /\ ouvert[p].pos = 0 /\ ecrits[p] = 0
    BY DEF RedirInit
  <2>6. opt[p] \in Options
    BY DEF RedirInit, Rien, Options
  <2>5. Position(p)
    BY <1>1, <2>4 DEF Position
  <2> QED
    BY <2>1, <2>3, <2>5, <2>6 DEF Controle
<1> QED
  BY <1>2, <1>3 DEF TypesDe

LEMMA ControlePas ==
  ASSUME Redirige, Registre, NEW p \in Procs, Controle(p), Processus(p)
  PROVE  Controle(p)'
<1>0. /\ Etapes(p) /\ Etapes0(p) /\ Tableaux /\ cmd[p].op \in Operateurs \cup {""}
      /\ p \in DOMAIN pc
  BY Types DEF Redirige, Registre, Suivi, Tableaux
<1>1. CASE Reconnaitre(p)
  <2>1. /\ pc'[p] \in {"ouvre", "lit", "echec"} /\ id' = id
        /\ type'[p] \in Operateurs \cup {""}
    BY <1>0, <1>1 DEF Reconnaitre, Controle, Tableaux
  <2>2. Choix(cmd[p].op) \in Options
    BY DEF Choix, Options
  <2>3. opt'[p] \in {opt[p], Choix(cmd[p].op)} \cup Restes
    BY <1>0, <1>1 DEF Reconnaitre, Tableaux
  <2>4. opt'[p] \in Options
    BY <2>2, <2>3, RestesAssumption DEF Controle
  <2> QED
    BY <2>1, <2>4 DEF Controle
<1>2. CASE Ouvrir(p) \/ Creer(p)
  <2>1. pc[p] \in {"ouvre", "cree"}
    BY <1>2 DEF Ouvrir, Creer
  <2>2. Libre(fds[p]) \in 0 .. 4
    <3>1. fds[p] = Initiaux(p)
      BY <1>0, <2>1 DEF Etapes, Etapes0
    <3> DEFINE S == {d \in DOMAIN fds[p] : fds[p][d] = Ferme}
    <3>2. DOMAIN fds[p] = 0 .. 4 /\ fds[p][4] = Ferme
      BY <3>1 DEF Initiaux
    <3>3. S \subseteq Nat /\ S # {} /\ S \subseteq 0 .. 4
      BY <3>2
    <3>4. Min(S) \in S
      BY <3>3, Moindre
    <3> QED
      BY <3>3, <3>4 DEF Libre
  <2>3. CASE \E o : Open(p, o)
    BY <1>0, <1>2, <2>2, <2>3 DEF Open, Ouvrir, Creer, Controle, Tableaux
  <2>4. CASE \E o : OpenEchoue(p, o)
    BY <1>0, <1>2, <2>4 DEF OpenEchoue, Ouvrir, Creer, Controle, Tableaux
  <2> QED
    BY <1>2, <2>3, <2>4 DEF Ouvrir, Creer
<1>3. CASE Brancher(p)
  BY <1>0, <1>3 DEF Brancher, VersUn, VersDeux, DepuisFichier, Controle, Tableaux
<1>4. CASE LireBloc(p) \/ FinLecture(p)
  BY <1>0, <1>4 DEF LireBloc, FinLecture, Controle, Tableaux
<1>5. CASE Echouer(p) \/ Ecrire(p) \/ Terminer(p)
  BY <1>0, <1>5 DEF Echouer, Ecrire, Terminer, Controle, Tableaux
<1> QED
  BY <1>1, <1>2, <1>3, <1>4, <1>5 DEF Processus

\* What a write leaves of the file.
LEMMA EcritureEst ==
  ASSUME Registre, TypesDe, NEW p \in Procs, NEW d, NEW n \in 0 .. Blocs,
         Write(p, d, <<p, n>>), NEW f \in DOMAIN contenu, f # Absent
  PROVE  \/ contenu'[f] = contenu[f]
         \/ /\ f = ouvert[p].f /\ type[p] # Lecture /\ Place(p) \in Nat \ {0}
            /\ Intact(f) => Place(p) <= Len(contenu[f]) + 1
            /\ contenu'[f] = Ecrite(contenu[f], Place(p), <<p, n>>)
            /\ <<p, n>> \in Bloc /\ Trou \in Bloc
<1>1. contenu = [g \in DOMAIN contenu |-> contenu[g]] /\ contenu[f] \in Seq(Bloc)
  BY DEF Registre, Catalogue, TypesDe, Contenus
<1>2. <<p, n>> \in Bloc /\ Trou \in Bloc
  BY FichiersAssumption DEF Bloc, Trou
<1>3. CASE f = ouvert[p].f /\ "ecrit" \in ouvert[p].droits
  <2>1. /\ Len(contenu[f]) \in Nat /\ ouvert[p].pos \in Nat
        /\ Intact(f) => ouvert[p].pos <= Len(contenu[f])
    <3>1. Len(contenu[f]) \in Nat
      BY <1>1, LenProperties
    <3>2. Position(p)
      BY DEF TypesDe
    <3>3. ouvert[p].f = f /\ Texte(p) = contenu[f]
      BY <1>3 DEF Texte
    <3>4. ouvert[p].pos \in Nat
      BY <3>2 DEF Position
    <3>5. Intact(f) => ouvert[p].pos <= Len(contenu[f])
      BY <3>2, <3>3, Zenon DEF Position
    <3> QED
      BY <3>1, <3>4, <3>5, Zenon
  <2>2. Place(p) \in Nat \ {0} /\ (Intact(f) => Place(p) <= Len(contenu[f]) + 1)
    <3>1. Place(p) = Len(contenu[f]) + 1 \/ Place(p) = ouvert[p].pos + 1
      BY <1>3, Zenon DEF Place, Texte
    <3> QED
      BY <2>1, <3>1, SMTT(20)
  <2>3. Avancement(p)
    BY DEF Registre, Suivi
  <2>4. type[p] # Lecture
    BY <1>3, <2>3, PermisEst DEF Avancement, Lecture
  <2> QED
    BY <1>1, <1>2, <1>3, <2>2, <2>4 DEF Write, Ecrite
<1>4. CASE f # ouvert[p].f \/ "ecrit" \notin ouvert[p].droits
  BY <1>1, <1>4 DEF Write
<1> QED
  BY <1>3, <1>4

\* Only an operator that was not recognised cuts a file.
LEMMA OuvreTronque ==
  ASSUME NEW p \in Procs, Ouverture(p), NEW f \in DOMAIN contenu, contenu'[f] # contenu[f]
  PROVE  contenu'[f] = <<>> /\ ouvert'[p].f = f /\ type'[p] = ""
<1>1. PICK o, g : Ouvre(p, o, g) /\ (type[p] # "" => ~o.tronque) /\ UNCHANGED type
  BY DEF Ouverture
<1>2. contenu'[f] = IF o.tronque => f # g THEN contenu[f] ELSE <<>>
  BY <1>1 DEF Ouvre
<1>3. ~(o.tronque => f # g)
  BY <1>2
<1>4. contenu'[f] = <<>> /\ o.tronque /\ f = g
  BY <1>2, <1>3, Zenon
<1>5. ouvert'[p] = [f |-> g, pos |-> 0, append |-> o.append, droits |-> o.droits]
  BY <1>1 DEF Ouvre
<1>6. ouvert'[p].f = g
  BY ONLY <1>5
<1> QED
  BY <1>1, <1>4, <1>6

LEMMA IntactAvant ==
  ASSUME NEW p \in Procs, Effet(p), NEW f, f # Absent, Intact(f)'
  PROVE  Intact(f)
<1> SUFFICES ASSUME NEW q \in Procs, ouvert[q].f = f
             PROVE  type[q] # ""
  BY DEF Intact
<1>1. Procs' = Procs /\ \A r \in Procs \ {p} : ouvert'[r] = ouvert[r] /\ type'[r] = type[r]
  BY DEF Effet, Seul, Procs
<1>2. ouvert'[q].f = f /\ type'[q] = type[q]
  BY <1>1 DEF Effet
<1> QED
  BY <1>1, <1>2 DEF Intact

LEMMA PasTypes ==
  ASSUME Redirige, Registre, TypesDe, NEW p \in Procs, Processus(p), Registre'
  PROVE  TypesDe'
<1>0. /\ Effet(p) /\ Seul(p) /\ (Calme(p) \/ Ouverture(p) \/ Ecriture(p))
      /\ Procs' = Procs /\ Bloc' = Bloc
      /\ \A q \in Procs : ouvert[q].f \in {Absent} \cup DOMAIN contenu
      /\ Absent \notin DOMAIN contenu
  BY ProcessusPas
  DEF Pas, Effet, Seul, Procs, Bloc, Registre, Suivi, Avancement, Catalogue, Absent
\* A file that nobody cuts grows only.
<1>1. ASSUME NEW f \in DOMAIN contenu
      PROVE  /\ f \in DOMAIN contenu' /\ contenu'[f] \in Seq(Bloc)
             /\ Len(contenu[f]) \in Nat /\ Len(contenu'[f]) \in Nat
             /\ Intact(f)' => Intact(f) /\ Len(contenu[f]) <= Len(contenu'[f])
  <2>1. /\ contenu[f] \in Seq(Bloc) /\ Len(contenu[f]) \in Nat /\ f \in DOMAIN contenu'
        /\ f # Absent /\ (Intact(f)' => Intact(f))
    BY <1>0, LenProperties, IntactAvant DEF TypesDe, Contenus, Effet
  <2>2. CASE contenu'[f] = contenu[f]
    BY <2>1, <2>2
  <2>3. CASE Ouverture(p) /\ contenu'[f] # contenu[f]
    <3>1. contenu'[f] = <<>> /\ ouvert'[p].f = f /\ type'[p] = ""
      BY <2>3, OuvreTronque
    <3>2. ~Intact(f)'
      BY <1>0, <3>1 DEF Intact
    <3>4. <<>> \in Seq(Bloc) /\ Len(<<>>) \in Nat
      OBVIOUS
    <3>3. contenu'[f] \in Seq(Bloc) /\ Len(contenu'[f]) \in Nat
      BY <3>1, <3>4, Zenon
    <3> QED
      BY <2>1, <3>2, <3>3
  <2>4. CASE Ecriture(p) /\ contenu'[f] # contenu[f]
    <3>1. PICK n \in 0 .. Blocs, d \in {1, 2} : Write(p, d, <<p, n>>)
      BY <2>4 DEF Ecriture
    <3> DEFINE m == contenu[f]
               k == Place(p)
               b == <<p, n>>
    <3>2. /\ k \in Nat \ {0} /\ contenu'[f] = Ecrite(m, k, b) /\ b \in Bloc /\ m \in Seq(Bloc)
          /\ Trou \in Bloc
      BY <2>1, <2>4, <3>1, EcritureEst
    <3> HIDE DEF m, k, b
    <3>6. m \in Seq(Bloc) /\ k \in Nat /\ k > 0 /\ b \in Bloc /\ Trou \in Bloc
      BY <3>2
    <3>3. /\ Ecrite(m, k, b) \in Seq(Bloc)
          /\ k <= Len(m) => Len(Ecrite(m, k, b)) = Len(m)
          /\ ~(k <= Len(m)) => Len(Ecrite(m, k, b)) = k
      BY ONLY <3>6, EcriteEst
    <3>4. Len(m) \in Nat
      BY <2>1 DEF m
    <3>5. Len(Ecrite(m, k, b)) \in Nat /\ Len(m) <= Len(Ecrite(m, k, b))
      BY <3>2, <3>3, <3>4
    <3> QED
      BY <2>1, <3>2, <3>3, <3>4, <3>5 DEF m
  <2> QED
    BY <1>0, <2>2, <2>3, <2>4 DEF Calme
<1>2. Contenus'
  <2> SUFFICES ASSUME NEW f \in DOMAIN contenu', f \notin DOMAIN contenu
               PROVE  contenu'[f] \in Seq(Bloc)
    BY <1>0, <1>1 DEF Contenus
  <2>1. Ouverture(p)
    BY <1>0 DEF Effet, Calme, Ecriture, Write
  <2>2. contenu'[f] = <<>>
    BY <2>1 DEF Ouverture, Ouvre
  <2> QED
    BY <2>2
<1>3. ASSUME NEW q \in Procs \ {p} PROVE Controle(q)' /\ Position(q)'
  <2>1. /\ pc'[q] = pc[q] /\ type'[q] = type[q] /\ opt'[q] = opt[q] /\ id'[q] = id[q]
        /\ ouvert'[q] = ouvert[q] /\ ecrits'[q] = ecrits[q] /\ Controle(q) /\ Position(q)
    BY <1>0 DEF Seul, Effet, TypesDe
  <2>2. Controle(q)'
    BY <2>1 DEF Controle
  <2>3. Position(q)'
    <3> SUFFICES ASSUME ouvert'[q].f # Absent, Intact(ouvert[q].f)'
                 PROVE  ouvert'[q].pos <= Len(contenu'[ouvert'[q].f])
      BY <2>1 DEF Position, Texte
    <3>1. PICK f \in DOMAIN contenu : f = ouvert[q].f /\ f = ouvert'[q].f
      BY <1>0, <2>1
    <3>2. Intact(f)'
      BY <3>1 DEF Intact
    <3>3. Intact(f) /\ Len(contenu[f]) \in Nat /\ Len(contenu'[f]) \in Nat
          /\ Len(contenu[f]) <= Len(contenu'[f])
      BY <1>1, <3>2
    <3>4. Intact(ouvert[q].f) /\ ouvert[q].f # Absent
      BY <2>1, <3>1, <3>3
    <3>5. ouvert[q].pos \in Nat /\ ouvert[q].pos <= Len(contenu[f])
      BY <2>1, <3>1, <3>4 DEF Position, Texte
    <3> QED
      BY <2>1, <3>1, <3>3, <3>5
  <2> QED
    BY <2>2, <2>3
<1>4. Controle(p)'
  BY ControlePas DEF TypesDe
<1>5. Position(p)'
  <2>1. CASE Calme(p)
    <3>1. /\ ouvert'[p].f = ouvert[p].f /\ contenu' = contenu /\ ecrits' = ecrits /\ Position(p)
      BY <2>1 DEF Calme, TypesDe
    <3>2. ouvert'[p].f # Absent /\ Intact(ouvert[p].f)' => Intact(ouvert[p].f)
      <4>1. PICK f : f = ouvert[p].f /\ f = ouvert'[p].f
        BY <3>1
      <4>2. Intact(ouvert[p].f)' => Intact(f)'
        BY <4>1 DEF Intact
      <4> QED
        BY <1>0, <4>1, <4>2, IntactAvant
    <3>3. ouvert[p].f # Absent => Len(Texte(p)) \in Nat
      BY <1>0, <1>1 DEF Texte
    <3> QED
      BY <2>1, <3>1, <3>2, <3>3 DEF Calme, Position, Texte
  <2>2. CASE Ouverture(p)
    <3>0. PICK o, f : Ouvre(p, o, f)
      BY <2>2 DEF Ouverture
    <3>1. ouvert'[p].f = f /\ ouvert'[p].pos = 0 /\ f \in DOMAIN contenu'
      BY <3>0 DEF Ouvre
    <3>2. Len(contenu'[f]) \in Nat
      BY <1>2, <3>1, LenProperties DEF Contenus
    <3>3. 0 \in Nat /\ 0 <= Len(contenu'[f]) /\ ecrits'[p] \in 0 .. Blocs
      <4>1. ecrits' = ecrits /\ ecrits[p] \in 0 .. Blocs
        BY <2>2 DEF Ouverture, TypesDe, Position
      <4> QED
        BY <3>2, <4>1
    <3>4. ouvert'[p].pos \in Nat /\ ouvert'[p].pos <= Len(Texte(p)')
      BY <3>1, <3>3 DEF Texte
    <3> QED
      BY <3>3, <3>4 DEF Position
  <2>3. CASE Ecriture(p)
    <3>1. ecrits'[p] \in 0 .. Blocs
      BY <2>3 DEF Ecriture, TypesDe, Position
    <3>2. PICK n \in 0 .. Blocs, d \in {1, 2} : Write(p, d, <<p, n>>)
      BY <2>3 DEF Ecriture
    <3>3. CASE UNCHANGED <<contenu, ouvert>>
      <4>1. Intact(ouvert[p].f)' => Intact(ouvert[p].f)
        BY <1>0, <2>3, <3>3 DEF Ecriture, Intact
      <4> QED
        BY <3>1, <3>3, <4>1 DEF TypesDe, Position, Texte
    <3>4. CASE ~UNCHANGED <<contenu, ouvert>>
      <4>1. Ouvertures /\ contenu = [g \in DOMAIN contenu |-> contenu[g]]
        BY DEF Registre, Catalogue
      <4>0. ouvert[p].f # Absent
        BY <3>2, <3>4 DEF Write, Registre, Suivi, Avancement
      <4>2. ouvert' = [ouvert EXCEPT ![p].pos = Place(p)]
        BY <3>2, <3>4 DEF Write
      <4>3. ouvert'[p].pos = Place(p) /\ ouvert'[p].f = ouvert[p].f
        BY <4>1, <4>2 DEF Ouvertures
      <4>4. PICK f \in DOMAIN contenu : f = ouvert[p].f
        BY <1>0, <4>0
      <4> DEFINE m == contenu[f]
                 k == Place(p)
                 b == <<p, n>>
      <4>5. m \in Seq(Bloc) /\ Len(m) \in Nat /\ ouvert[p].pos \in Nat
        BY <1>1, <4>3, <4>4 DEF TypesDe, Contenus, Position
      <4>6. k \in Nat \ {0}
        BY <4>4, <4>5 DEF Place, Texte
      <4>7. contenu'[f] = Ecrite(m, k, b)
        BY <3>2, <3>4, <4>1, <4>4 DEF Write, Ecrite
      <4>8. b \in Bloc /\ Trou \in Bloc
        BY FichiersAssumption DEF Bloc, Trou
      <4> HIDE DEF m, k, b
      <4>9. /\ k <= Len(m) => Len(Ecrite(m, k, b)) = Len(m)
            /\ ~(k <= Len(m)) => Len(Ecrite(m, k, b)) = k
        <5>1. m \in Seq(Bloc) /\ k \in Nat /\ k > 0 /\ b \in Bloc /\ Trou \in Bloc
          BY <4>5, <4>6, <4>8
        <5> QED
          BY ONLY <5>1, EcriteEst
      <4>10. k \in Nat /\ k <= Len(Ecrite(m, k, b))
        BY <4>5, <4>6, <4>9
      <4>11. ouvert'[p].pos \in Nat /\ ouvert'[p].pos <= Len(contenu'[ouvert'[p].f])
        BY <4>3, <4>4, <4>7, <4>10 DEF k
      <4> QED
        BY <3>1, <4>11 DEF Position, Texte
    <3> QED
      BY <3>3, <3>4
  <2> QED
    BY <1>0, <2>1, <2>2, <2>3
<1> QED
  BY <1>0, <1>2, <1>3, <1>4, <1>5 DEF TypesDe

LEMMA ReposTypes ==
  ASSUME TypesDe, UNCHANGED <<cmd, processus, contenu>>
  PROVE  TypesDe'
<1>1. Procs' = Procs /\ Bloc' = Bloc
  BY DEF Procs, Bloc
<1> QED
  BY <1>1 DEF TypesDe, Contenus, Controle, Position, Texte, Intact, processus

LEMMA TypesInvariant == Spec => []TypesDe
<1>1. Init => TypesDe
  BY InitTypes DEF Init
<1>2. Redirige /\ Registre /\ Registre' /\ TypesDe /\ [Next]_varsLs => TypesDe'
  <2> SUFFICES ASSUME Redirige, Registre, Registre', TypesDe, [Next]_varsLs PROVE TypesDe'
    OBVIOUS
  <2>1. ASSUME NEW p \in Procs, Commande(p) PROVE TypesDe'
    BY <2>1, PasTypes DEF Commande
  <2>2. CASE Ls
    BY <2>2, ReposTypes
    DEF Ls, Opendir, Getdents, Readdir, Permissions, Stat, Closedir, varsRedir
  <2>3. ASSUME NEW n \in Retirables, Retirer(n) PROVE TypesDe'
    BY <2>3, ReposTypes DEF Retirer
  <2>4. CASE UNCHANGED varsLs
    BY <2>4, ReposTypes DEF varsLs, varsRedir
  <2> QED
    BY <2>1, <2>2, <2>3, <2>4 DEF Next
<1> QED
  BY <1>1, <1>2, RedirigeInvariant, RegistreInvariant, PTL DEF Spec

-----------------------------------------------------------------------------
(* The invariant.  What a file is made of: the old content, then blocks of *)
(* those who write it; of each of them, up to what it printed, and all of  *)
(* it if 1 goes there.                                                     *)
Anciens(f) ==
    /\ Blocs + 1 <= Len(contenu[f])
    /\ \A k \in 1 .. Blocs + 1 : contenu[f][k] = <<Avant, k>>

Auteurs(f) == \A k \in 1 .. Len(contenu[f]) : contenu[f][k][1] \in {Avant} \cup Ecrivains(f)

Entiere(p, f) ==
    /\ EnOrdre(p, f)
    /\ \A k \in De(p, f) : contenu[f][k][2] <= ecrits[p]
    /\ p \in Ecrivains(f) /\ 1 \in Sorties(type[p]) =>
           \A n \in 1 .. ecrits[p] : \E k \in De(p, f) : contenu[f][k][2] = n

Complet(f) ==
    (\A p \in Ecrivains(f) : type[p] \in Ajoute) =>
        Anciens(f) /\ Auteurs(f) /\ \A p \in Procs : Entiere(p, f)

\* A name that is gone does not get its old file again, so that the second
\* try, without O_APPEND, opens no file of the start.
EnFin(p) ==
    /\ pc[p] = "cree" /\ type[p] \in Ajoute => dossier[cmd[p].nom] \notin Noms
    /\ ouvert[p].f \in Noms /\ type[p] \in Ajoute => ouvert[p].append

Ajouts == /\ \A f \in Noms \cap DOMAIN contenu : Complet(f)
          /\ \A p \in Procs : EnFin(p)

LEMMA BlocsDe ==
  ASSUME TypesDe, NEW f \in DOMAIN contenu
  PROVE  /\ contenu[f] \in Seq(Bloc) /\ Len(contenu[f]) \in Nat
         /\ \A k \in 1 .. Len(contenu[f]) : contenu[f][k] \in Bloc /\ contenu[f][k][2] \in Nat
         /\ \A p : De(p, f) \subseteq 1 .. Len(contenu[f])
<1>1. contenu[f] \in Seq(Bloc) /\ Blocs \in Nat
  BY FichiersAssumption DEF TypesDe, Contenus
<1>2. Len(contenu[f]) \in Nat /\ \A k \in 1 .. Len(contenu[f]) : contenu[f][k] \in Bloc
  BY <1>1, LenProperties
<1>3. \A b \in Bloc : b[2] \in Nat
  BY <1>1 DEF Bloc
<1> QED
  BY <1>1, <1>2, <1>3 DEF De

LEMMA AjoutDuRegistre == TypesDe /\ Ajouts => AjoutSansPerte
<1> SUFFICES ASSUME TypesDe, Ajouts, NEW f \in Noms \cap DOMAIN contenu,
                    \A p \in Ecrivains(f) : type[p] \in Ajoute
             PROVE  /\ IsPrefix(AncienContenu, contenu[f])
                    /\ \A p \in Ecrivains(f) :
                          1 \in Sorties(type[p]) =>
                              /\ {contenu[f][k][2] : k \in De(p, f)} = 1 .. ecrits[p]
                              /\ EnOrdre(p, f)
  BY DEF AjoutSansPerte, SansPerte
<1>1. Anciens(f) /\ \A p \in Procs : Entiere(p, f)
  BY DEF Ajouts, Complet
<1>2. /\ contenu[f] \in Seq(Bloc) /\ Len(contenu[f]) \in Nat
      /\ \A k \in 1 .. Len(contenu[f]) : contenu[f][k] \in Bloc /\ contenu[f][k][2] \in Nat
      /\ \A p : De(p, f) \subseteq 1 .. Len(contenu[f])
  BY BlocsDe
<1>3. IsPrefix(AncienContenu, contenu[f])
  <2> DEFINE a == AncienContenu
             m == contenu[f]
             N == Blocs + 1
  <2>1. N \in Nat \ {0} /\ N <= Len(m) /\ Len(m) \in Nat
    BY <1>1, <1>2, FichiersAssumption DEF Anciens
  <2>2. a \in [1 .. N -> Bloc]
    BY FichiersAssumption DEF AncienContenu, Bloc
  <2>3. \A k \in 1 .. N : a[k] = m[k]
    BY <1>1 DEF Anciens, AncienContenu
  <2>4. m \in Seq(Bloc)
    BY <1>2
  <2> HIDE DEF a, m, N
  <2>5. a \in Seq(Bloc) /\ Len(a) = N
    BY <2>1, <2>2
  <2>6. /\ SubSeq(a, 1, N) \in Seq(Bloc) /\ Len(SubSeq(a, 1, N)) = N
        /\ \A k \in 1 .. N : SubSeq(a, 1, N)[k] = a[k]
    BY <2>1, <2>5
  <2>7. /\ SubSeq(m, 1, N) \in Seq(Bloc) /\ Len(SubSeq(m, 1, N)) = N
        /\ \A k \in 1 .. N : SubSeq(m, 1, N)[k] = m[k]
    BY <2>1, <2>4
  <2>8. SubSeq(a, 1, N) = SubSeq(m, 1, N)
    BY <2>3, <2>6, <2>7, SeqEqual
  <2>9. IsPrefix(a, m)
    BY <2>1, <2>5, <2>8 DEF IsPrefix
  <2> QED
    BY <2>9 DEF a, m
<1>4. ASSUME NEW p \in Ecrivains(f), 1 \in Sorties(type[p])
      PROVE  {contenu[f][k][2] : k \in De(p, f)} = 1 .. ecrits[p] /\ EnOrdre(p, f)
  <2>1. Entiere(p, f) /\ ecrits[p] \in Nat
    BY <1>1 DEF Ecrivains, TypesDe, Position
  <2>2. ASSUME NEW k \in De(p, f) PROVE contenu[f][k][2] \in 1 .. ecrits[p]
    BY <1>2, <2>1 DEF Entiere, De
  <2>3. ASSUME NEW n \in 1 .. ecrits[p] PROVE \E k \in De(p, f) : contenu[f][k][2] = n
    BY <1>4, <2>1 DEF Entiere
  <2>4. {contenu[f][k][2] : k \in De(p, f)} = 1 .. ecrits[p]
    BY <2>2, <2>3
  <2> QED
    BY <2>1, <2>4 DEF Entiere
<1> QED
  BY <1>3, <1>4

LEMMA InitAjouts == RedirInit => Ajouts
<1> SUFFICES ASSUME RedirInit PROVE Ajouts
  OBVIOUS
<1>1. Blocs \in Nat \ {0} /\ Noms \subseteq Nat \ {0}
  BY FichiersAssumption
<1>2. \A p \in Procs : ouvert[p].f = Absent /\ pc[p] = "debut"
  BY DEF RedirInit
<1>3. \A p \in Procs : ecrits[p] = 0 /\ p # Avant
  BY CommandesAssumption DEF RedirInit, Procs
<1>4. \A p \in Procs : EnFin(p)
  BY <1>1, <1>2 DEF EnFin, Absent
<1>5. ASSUME NEW f \in Noms \cap DOMAIN contenu PROVE Complet(f)
  <2>1. contenu[f] = AncienContenu
    BY DEF RedirInit
  <2>2. Len(contenu[f]) = Blocs + 1 /\ \A k \in 1 .. Blocs + 1 : contenu[f][k] = <<Avant, k>>
    BY <1>1, <2>1 DEF AncienContenu
  <2>3. \A p \in Procs : De(p, f) = {}
    <3> SUFFICES ASSUME NEW p \in Procs, NEW k \in De(p, f) PROVE FALSE
      OBVIOUS
    <3>1. contenu[f][k] = <<Avant, k>> /\ contenu[f][k][1] = p
      BY <2>2 DEF De
    <3> QED
      BY <1>3, <3>1
  <2>4. Ecrivains(f) = {}
    BY <1>1, <1>2 DEF Ecrivains, Absent
  <2>5. Anciens(f)
    BY <1>1, <2>2 DEF Anciens
  <2>6. Auteurs(f)
    BY <2>2 DEF Auteurs
  <2>7. \A p \in Procs : Entiere(p, f)
    BY <2>3, <2>4 DEF Entiere, EnOrdre
  <2> QED
    BY <2>5, <2>6, <2>7 DEF Complet
<1> QED
  BY <1>4, <1>5 DEF Ajouts

-----------------------------------------------------------------------------
(* A step that does not write to f: p has nothing to write there, or has   *)
(* just opened it.                                                         *)
SansEcrire(p, f) ==
    /\ contenu'[f] = contenu[f] /\ ecrits[p] <= ecrits'[p]
    /\ p \in Ecrivains(f)' =>
           \/ p \in Ecrivains(f) /\ ecrits'[p] = ecrits[p]
           \/ p \in Ecrivains(f) /\ 1 \notin Sorties(type'[p])
           \/ ecrits'[p] = 0

LEMMA AjoutGarde ==
  ASSUME Registre, TypesDe, TypesDe', NEW p \in Procs, Effet(p),
         NEW f \in Noms \cap DOMAIN contenu, Complet(f), SansEcrire(p, f)
  PROVE  Complet(f)'
<1>0. /\ f # Absent /\ Procs' = Procs
      /\ \A q \in Procs \ {p} : type'[q] = type[q] /\ ecrits'[q] = ecrits[q]
  BY FichiersAssumption DEF Effet, Seul, Procs, Absent
<1>1. Ecrivains(f) \subseteq Ecrivains(f)' /\ Ecrivains(f)' \subseteq Ecrivains(f) \cup {p}
  BY <1>0, EffetEcrivains
<1>6. /\ contenu'[f] = contenu[f] /\ ecrits[p] <= ecrits'[p]
      /\ p \in Ecrivains(f)' =>
           \/ p \in Ecrivains(f) /\ ecrits'[p] = ecrits[p]
           \/ p \in Ecrivains(f) /\ 1 \notin Sorties(type'[p])
           \/ ecrits'[p] = 0
  BY DEF SansEcrire
<1>2. \A q \in Ecrivains(f) : type'[q] = type[q]
  BY <1>0 DEF Effet, Ecrivains
<1> SUFFICES ASSUME \A q \in Ecrivains(f)' : type'[q] \in Ajoute
             PROVE  Anciens(f)' /\ Auteurs(f)' /\ \A q \in Procs : Entiere(q, f)'
  BY <1>0 DEF Complet
<1>3. Anciens(f) /\ Auteurs(f) /\ \A q \in Procs : Entiere(q, f)
  BY <1>1, <1>2 DEF Complet
<1>4. Anciens(f)' /\ Auteurs(f)'
  BY <1>1, <1>3, <1>6 DEF Anciens, Auteurs
<1>5. ASSUME NEW q \in Procs PROVE Entiere(q, f)'
  <2>1. De(q, f)' = De(q, f) /\ (EnOrdre(q, f) => EnOrdre(q, f)') /\ Entiere(q, f)
    BY <1>3, <1>6 DEF De, EnOrdre
  <2>2. /\ ecrits[q] \in Nat /\ ecrits'[q] \in Nat /\ ecrits[q] <= ecrits'[q]
        /\ \A k \in De(q, f) : contenu[f][k][2] \in Nat
    <3>1. ecrits[q] \in Nat /\ ecrits'[q] \in Nat
      BY <1>0 DEF TypesDe, Position
    <3> QED
      BY <1>0, <1>6, <3>1, BlocsDe
  <2>3. ASSUME q \in Ecrivains(f)', 1 \in Sorties(type'[q]), NEW n \in 1 .. ecrits'[q]
        PROVE  \E k \in De(q, f) : contenu[f][k][2] = n
    <3>1. ecrits'[q] # 0
      BY <2>2
    <3>2. q \in Ecrivains(f) /\ ecrits'[q] = ecrits[q] /\ type'[q] = type[q]
      BY <1>0, <1>1, <1>2, <1>6, <2>3, <3>1
    <3> QED
      BY <2>1, <2>3, <3>2 DEF Entiere
  <2> QED
    BY <1>0, <1>6, <2>1, <2>2, <2>3 DEF Entiere
<1> QED
  BY <1>4, <1>5

(* A block at the end of f.                                                *)
LEMMA AjoutEcrit ==
  ASSUME Registre, TypesDe, NEW p \in Procs, Effet(p), type' = type,
         NEW f \in Noms \cap DOMAIN contenu, Complet(f), p \in Ecrivains(f),
         NEW n \in 0 .. Blocs, <<p, n>> \in Bloc, Trou \in Bloc,
         contenu'[f] = Ecrite(contenu[f], Len(contenu[f]) + 1, <<p, n>>),
         (n = 0 /\ ecrits'[p] = ecrits[p]) \/ (n = ecrits[p] + 1 /\ ecrits'[p] = n)
  PROVE  Complet(f)'
<1>0. /\ f # Absent /\ Procs' = Procs /\ Blocs \in Nat /\ ecrits[p] \in Nat
      /\ \A q \in Procs \ {p} : ecrits'[q] = ecrits[q]
  BY FichiersAssumption DEF Effet, Seul, Procs, Absent, TypesDe, Position
<1>1. Ecrivains(f)' = Ecrivains(f)
  <2>1. Ecrivains(f) \subseteq Ecrivains(f)' /\ Ecrivains(f)' \subseteq Ecrivains(f) \cup {p}
    BY <1>0, EffetEcrivains
  <2> QED
    BY <2>1
<1> DEFINE m == contenu[f]
           b == <<p, n>>
           L == Len(m)
<1>2. /\ m \in Seq(Bloc) /\ L \in Nat
      /\ \A k \in 1 .. L : m[k][2] \in Nat
      /\ \A q : De(q, f) \subseteq 1 .. L
  BY BlocsDe
<1>3. /\ Len(contenu'[f]) = L + 1
      /\ \A k \in 1 .. L + 1 : contenu'[f][k] = IF k = L + 1 THEN b ELSE m[k]
  <2>2. /\ contenu'[f] = Ecrite(m, Len(m) + 1, b) /\ m \in Seq(Bloc) /\ b \in Bloc
        /\ Trou \in Bloc
    BY <1>2
  <2> HIDE DEF m, b
  <2>3. /\ Len(Ecrite(m, Len(m) + 1, b)) = Len(m) + 1
        /\ \A k \in 1 .. Len(m) + 1 :
              Ecrite(m, Len(m) + 1, b)[k] = IF k = Len(m) + 1 THEN b ELSE m[k]
    BY <2>2, EcriteAuBout
  <2> QED
    BY <2>2, <2>3 DEF L
<1> HIDE DEF L
<1>4. contenu'[f][L + 1] = b /\ \A k \in 1 .. L : contenu'[f][k] = m[k]
  <2>1. /\ L + 1 \in 1 .. L + 1
        /\ \A k \in 1 .. L : k \in 1 .. L + 1 /\ k # L + 1
    BY <1>2
  <2> HIDE DEF m, b
  <2> QED
    BY <1>3, <2>1
<1> SUFFICES ASSUME \A q \in Ecrivains(f) : type[q] \in Ajoute
             PROVE  Anciens(f)' /\ Auteurs(f)' /\ \A q \in Procs : Entiere(q, f)'
  BY <1>0, <1>1 DEF Complet
<1>5. Anciens(f) /\ Auteurs(f) /\ \A q \in Procs : Entiere(q, f)
  BY DEF Complet
<1>6. Anciens(f)'
  <2>1. Blocs + 1 <= L /\ \A k \in 1 .. Blocs + 1 : m[k] = <<Avant, k>>
    BY <1>5 DEF Anciens, L
  <2>2. Blocs + 1 <= L + 1 /\ \A k \in 1 .. Blocs + 1 : k \in 1 .. L
    BY <1>0, <1>2, <2>1
  <2>3. \A k \in 1 .. Blocs + 1 : contenu'[f][k] = <<Avant, k>>
    BY <1>4, <2>1, <2>2
  <2> QED
    BY <1>3, <2>2, <2>3 DEF Anciens
<1>7. Auteurs(f)'
  <2> SUFFICES ASSUME NEW k \in 1 .. L + 1
               PROVE  contenu'[f][k][1] \in {Avant} \cup Ecrivains(f)
    BY <1>1, <1>3 DEF Auteurs
  <2>1. k = L + 1 \/ k \in 1 .. L
    BY <1>2
  <2> QED
    BY <1>4, <1>5, <2>1 DEF Auteurs, L
<1>8. ASSUME NEW q \in Procs
      PROVE  De(q, f)' = De(q, f) \cup (IF q = p /\ n > 0 THEN {L + 1} ELSE {})
  <2>1. De(q, f)' = {k \in 1 .. L + 1 : contenu'[f][k][1] = q /\ contenu'[f][k][2] > 0}
    BY <1>3 DEF De
  <2>2. 1 .. L + 1 = 1 .. L \cup {L + 1}
    BY <1>2
  <2>3. De(q, f) = {k \in 1 .. L : contenu'[f][k][1] = q /\ contenu'[f][k][2] > 0}
    BY <1>4 DEF De, L
  <2> QED
    BY <1>4, <2>1, <2>2, <2>3
<1>9. ASSUME NEW q \in Procs PROVE Entiere(q, f)'
  <2>0. Entiere(q, f) /\ De(q, f) \subseteq 1 .. L /\ type'[q] = type[q] /\ ecrits[q] \in Nat
    BY <1>2, <1>5 DEF TypesDe, Position
  <2>1. CASE q # p \/ n = 0
    <3>1. De(q, f)' = De(q, f) /\ ecrits'[q] = ecrits[q]
      <4>1. ~(q = p /\ n > 0)
        BY <2>1
      <4>2. De(q, f)' = De(q, f)
        BY <1>8, <4>1
      <4>3. ecrits'[q] = ecrits[q]
        BY <1>0, <2>1
      <4> QED
        BY <4>2, <4>3
    <3>2. \A k \in De(q, f) : contenu'[f][k] = contenu[f][k]
      BY <1>4, <2>0
    <3> QED
      BY <1>1, <2>0, <3>1, <3>2 DEF Entiere, EnOrdre
  <2>2. CASE q = p /\ n # 0
    <3>1. De(p, f)' = De(p, f) \cup {L + 1} /\ n = ecrits[p] + 1 /\ ecrits'[p] = n /\ n > 0
      BY <1>8, <2>2
    <3>2. /\ contenu'[f][L + 1][2] = n
          /\ \A k \in De(p, f) :
                /\ contenu'[f][k][2] = contenu[f][k][2] /\ k \in 1 .. L
                /\ contenu[f][k][2] \in Nat /\ contenu[f][k][2] <= ecrits[p]
      <4>1. contenu'[f][L + 1][2] = n
        BY <1>4
      <4>2. \A k \in De(p, f) : k \in 1 .. L /\ contenu[f][k][2] <= ecrits[p]
        BY <2>0, <2>2 DEF Entiere
      <4> QED
        BY <1>2, <1>4, <4>1, <4>2
    <3>3. EnOrdre(p, f)'
      <4> SUFFICES ASSUME NEW j \in De(p, f)', NEW k \in De(p, f)', j < k
                   PROVE  contenu'[f][j][2] < contenu'[f][k][2]
        BY DEF EnOrdre
      <4>1. j \in De(p, f)
        BY <1>2, <3>1, <3>2
      <4>2. CASE k = L + 1
        BY <1>0, <3>1, <3>2, <4>1, <4>2, SMTT(30)
      <4>3. CASE k \in De(p, f)
        BY <2>0, <2>2, <3>2, <4>1, <4>3 DEF Entiere, EnOrdre
      <4> QED
        BY <3>1, <4>2, <4>3
    <3>4. \A k \in De(p, f)' : contenu'[f][k][2] <= ecrits'[p]
      BY <1>0, <3>1, <3>2
    <3>5. ASSUME 1 \in Sorties(type[p]), NEW i \in 1 .. ecrits'[p]
          PROVE  \E k \in De(p, f)' : contenu'[f][k][2] = i
      <4>1. CASE i = n
        BY <3>1, <3>2, <4>1
      <4>2. CASE i # n
        <5>1. i \in 1 .. ecrits[p]
          BY <1>0, <3>1, <4>2
        <5>2. PICK k \in De(p, f) : contenu[f][k][2] = i
          BY <2>0, <2>2, <3>5, <5>1 DEF Entiere
        <5> QED
          BY <3>1, <3>2, <5>2
      <4> QED
        BY <4>1, <4>2
    <3> QED
      BY <2>0, <2>2, <3>3, <3>4, <3>5 DEF Entiere
  <2> QED
    BY <2>1, <2>2
<1> QED
  BY <1>6, <1>7, <1>9

LEMMA PasAjout ==
  ASSUME Redirige, Registre, TypesDe, TypesDe', Ajouts, NEW p \in Procs, Processus(p),
         NEW f \in Noms \cap DOMAIN contenu'
  PROVE  f \in DOMAIN contenu /\ Complet(f)'
<1>0. /\ Effet(p) /\ (Calme(p) \/ Ouverture(p) \/ Ecriture(p))
      /\ Procs' = Procs /\ f # Absent /\ Catalogue /\ Ouvertures /\ Avancement(p) /\ EnFin(p)
      /\ ecrits[p] \in Nat /\ ecrits'[p] \in Nat
      /\ contenu = [g \in DOMAIN contenu |-> contenu[g]]
  BY ProcessusPas, FichiersAssumption
  DEF Pas, Effet, Seul, Procs, Registre, Suivi, Absent, TypesDe, Position, Ajouts, Catalogue
<1>1. f \in DOMAIN contenu
  <2>1. CASE Ouverture(p)
    <3>1. PICK o, g : Ouvre(p, o, g)
      BY <2>1 DEF Ouverture
    <3>2. DOMAIN contenu' = DOMAIN contenu \cup {g}
      BY <3>1 DEF Ouvre
    <3>3. g \in DOMAIN contenu \/ g = Nouveau
      BY <3>1 DEF Ouvre
    <3>4. f \in Noms /\ Nouveau \notin Noms
      BY <1>0, NouveauEst DEF Catalogue, Absent
    <3> QED
      BY <3>2, <3>3, <3>4
  <2>2. CASE Calme(p) \/ Ecriture(p)
    BY <1>0, <2>2 DEF Calme, Ecriture, Write
  <2> QED
    BY <1>0, <2>1, <2>2
<1>2. Complet(f)
  BY <1>1 DEF Ajouts
<1>3. CASE Calme(p)
  <2>1. p \in Ecrivains(f)' => p \in Ecrivains(f)
    BY <1>0, <1>3 DEF Calme, Effet, Ecrivains
  <2>2. contenu'[f] = contenu[f] /\ ecrits'[p] = ecrits[p] /\ ecrits[p] <= ecrits'[p]
    BY <1>0, <1>3 DEF Calme
  <2>3. SansEcrire(p, f)
    BY <2>1, <2>2 DEF SansEcrire
  <2> QED
    BY <1>0, <1>1, <1>2, <2>3, AjoutGarde
<1>4. CASE Ouverture(p)
  <2>1. ecrits'[p] = ecrits[p] /\ ecrits[p] = 0 /\ ecrits[p] <= ecrits'[p]
    <3>1. pc[p] \in {"ouvre", "cree"} /\ ecrits' = ecrits
      BY <1>4 DEF Ouverture
    <3>2. pc[p] \notin {"marche", "fini", "echec", "avorte"}
      BY <3>1
    <3>3. ecrits[p] = 0
      BY <1>0, <3>2, Zenon DEF Avancement
    <3> QED
      BY <3>1, <3>3
  <2>2. CASE contenu'[f] = contenu[f]
    <3>1. SansEcrire(p, f)
      BY <2>1, <2>2 DEF SansEcrire
    <3> QED
      BY <1>0, <1>1, <1>2, <3>1, AjoutGarde
  <2>3. CASE contenu'[f] # contenu[f]
    <3>1. ouvert'[p].f = f /\ type'[p] = ""
      BY <1>1, <1>4, <2>3, OuvreTronque
    <3>2. p \in Ecrivains(f)' /\ type'[p] \notin Ajoute
      BY <1>0, <3>1 DEF Ecrivains, Ajoute, Lecture
    <3> QED
      BY <1>1, <3>2 DEF Complet
  <2> QED
    BY <2>2, <2>3
<1>5. CASE Ecriture(p)
  <2>1. PICK n \in 0 .. Blocs, d \in {1, 2} :
           /\ Write(p, d, <<p, n>>)
           /\ \/ n = 0 /\ ecrits' = ecrits
              \/ d = 1 /\ n = ecrits[p] + 1 /\ ecrits'[p] = n
    BY <1>5 DEF Ecriture
  <2>2. pc[p] = "marche" /\ type' = type /\ ecrits[p] <= ecrits'[p]
    BY <1>0, <1>5, <2>1 DEF Ecriture
  <2>3. (p \in Ecrivains(f)' <=> p \in Ecrivains(f)) /\ Ecrivains(f) \subseteq Ecrivains(f)'
    <3>1. ouvert'[p].f = ouvert[p].f
      BY <1>0, <2>1 DEF Write, Ouvertures
    <3> QED
      BY <1>0, <2>2, <3>1, EffetEcrivains DEF Ecrivains
  <2>4. \/ contenu'[f] = contenu[f]
        \/ /\ f = ouvert[p].f /\ type[p] # Lecture
           /\ contenu'[f] = Ecrite(contenu[f], Place(p), <<p, n>>) /\ <<p, n>> \in Bloc
    BY <1>0, <1>1, <2>1, EcritureEst
  <2>5. CASE contenu'[f] = contenu[f] /\ p \notin Ecrivains(f)
    <3>1. SansEcrire(p, f)
      BY <2>2, <2>3, <2>5 DEF SansEcrire
    <3> QED
      BY <1>0, <1>1, <1>2, <3>1, AjoutGarde
  <2>6. CASE p \in Ecrivains(f) /\ fds[p][d] # Fichier
    <3>1. contenu'[f] = contenu[f]
      BY <2>1, <2>6 DEF Write
    <3>2. ecrits'[p] = ecrits[p] \/ 1 \notin Sorties(type'[p])
      BY <2>1, <2>2, <2>6, UnEstFichier
    <3>3. SansEcrire(p, f)
      BY <2>2, <2>6, <3>1, <3>2 DEF SansEcrire
    <3> QED
      BY <1>0, <1>1, <1>2, <3>3, AjoutGarde
  <2>7. CASE p \in Ecrivains(f) /\ fds[p][d] = Fichier
    <3>1. f = ouvert[p].f /\ type[p] # Lecture
      BY <2>7 DEF Ecrivains
    <3>2. CASE type[p] \notin Ajoute
      <4>1. p \in Ecrivains(f)' /\ type'[p] \notin Ajoute
        BY <2>2, <2>3, <2>7, <3>2
      <4> QED
        BY <1>1, <4>1 DEF Complet
    <3>3. CASE type[p] \in Ajoute
      <4>1. Place(p) = Len(contenu[f]) + 1
        BY <1>0, <3>1, <3>3 DEF EnFin, Place, Texte
      <4>0. "ecrit" \in ouvert[p].droits
        <5>1. type[p] # "" /\ ouvert[p].f # Absent
          BY <1>0, <3>1, <3>3 DEF Ajoute
        <5> QED
          BY <1>0, <3>1, <5>1, PermisEst DEF Avancement
      <4>2. contenu'[f] = Ecrite(contenu[f], Len(contenu[f]) + 1, <<p, n>>)
        BY <1>0, <1>1, <2>1, <2>7, <3>1, <4>0, <4>1 DEF Write, Ecrite
      <4>3. <<p, n>> \in Bloc /\ Trou \in Bloc
        BY FichiersAssumption DEF Bloc, Trou
      <4>4. (n = 0 /\ ecrits'[p] = ecrits[p]) \/ (n = ecrits[p] + 1 /\ ecrits'[p] = n)
        BY <2>1
      <4> QED
        BY <1>0, <1>1, <1>2, <2>2, <2>7, <4>2, <4>3, <4>4, AjoutEcrit
    <3> QED
      BY <3>2, <3>3
  <2>8. p \in Ecrivains(f) \/ contenu'[f] = contenu[f]
    BY <2>4 DEF Ecrivains
  <2> QED
    BY <2>5, <2>6, <2>7, <2>8
<1> QED
  BY <1>0, <1>1, <1>3, <1>4, <1>5

LEMMA PasEnFin ==
  ASSUME Redirige, Registre, Ajouts, NEW p \in Procs, Processus(p), NEW q \in Procs
  PROVE  EnFin(q)'
<1>0. /\ Effet(p) /\ Seul(p) /\ (Calme(p) \/ Ouverture(p) \/ Ecriture(p))
      /\ Catalogue /\ Tableaux /\ Ouvertures /\ EnFin(q) /\ cmd' = cmd /\ cmd[q].nom \in Noms
      /\ Absent \notin Noms
  BY ProcessusPas, FichiersAssumption, Types
  DEF Pas, Effet, Seul, Registre, Redirige, Ajouts, Absent
<1>1. \A n \in Noms : dossier[n] \notin Noms => dossier'[n] \notin Noms
  <2>1. CASE Calme(p) \/ Ecriture(p)
    BY <2>1 DEF Calme, Ecriture
  <2>2. CASE Ouverture(p)
    <3>1. PICK f : /\ dossier' = [dossier EXCEPT ![cmd[p].nom] = f]
                   /\ f = IF dossier[cmd[p].nom] = Absent THEN Nouveau ELSE dossier[cmd[p].nom]
      BY <2>2 DEF Ouverture, Ouvre
    <3>2. Nouveau \notin Noms /\ dossier = [n \in Noms |-> dossier[n]]
      BY <1>0, NouveauEst DEF Catalogue
    <3> QED
      BY <3>1, <3>2
  <2> QED
    BY <1>0, <2>1, <2>2
<1>2. pc'[q] = "cree" /\ type'[q] \in Ajoute => dossier'[cmd'[q].nom] \notin Noms
  <2>1. CASE pc[q] = "cree"
    <3>1. type'[q] = type[q]
      BY <1>0, <2>1 DEF Seul, Processus, Reconnaitre, Ouvrir, Creer, Brancher,
                        LireBloc, FinLecture, Echouer, Ecrire, Terminer
    <3> QED
      BY <1>0, <1>1, <2>1, <3>1 DEF EnFin
  <2>2. CASE pc[q] # "cree" /\ pc'[q] = "cree" /\ type'[q] \in Ajoute
    <3>1. q = p
      BY <1>0, <2>2 DEF Seul
    <3>2. pc[p] = "ouvre" /\ type' = type /\ OpenEchoue(p, opt[p])
      <4>1. \/ Reconnaitre(p) /\ pc'[p] \in {"ouvre", "lit", "echec"}
            \/ Ouvrir(p)
            \/ Creer(p)
            \/ Brancher(p) /\ pc'[p] \in {"lit", "echec"}
            \/ (LireBloc(p) \/ FinLecture(p)) /\ pc'[p] \in {"lit", "marche"}
            \/ (Echouer(p) \/ Ecrire(p) \/ Terminer(p))
               /\ pc'[p] \in {"marche", "fini", "echec", "avorte"}
        BY <1>0 DEF Processus, Reconnaitre, Brancher, VersUn, VersDeux, DepuisFichier,
                    LireBloc, FinLecture, Echouer, Ecrire, Terminer, Tableaux
      <4>2. \A o : Open(p, o) => pc'[p] # "cree"
        BY <1>0 DEF Open, Tableaux
      <4> QED
        BY <2>2, <3>1, <4>1, <4>2 DEF Ouvrir, Creer
    <3>3. ~opt[p].refus
      <4>1. type[p] # ""
        BY <2>2, <3>1, <3>2 DEF Ajoute
      <4> QED
        BY <3>2, <4>1, EssaiPermis
    <3> QED
      BY <1>0, <3>1, <3>2, <3>3 DEF OpenEchoue
  <2> QED
    BY <2>1, <2>2
<1>3. ouvert'[q].f \in Noms /\ type'[q] \in Ajoute => ouvert'[q].append
  <2>1. CASE q # p
    BY <1>0, <2>1 DEF Effet, Seul, EnFin
  <2>2. CASE q = p /\ Calme(p)
    BY <1>0, <2>2 DEF Effet, EnFin, Calme
  <2>3. CASE q = p /\ Ouverture(p)
    <3>1. PICK o, f :
             /\ f = IF dossier[cmd[p].nom] = Absent THEN Nouveau ELSE dossier[cmd[p].nom]
             /\ ouvert'[p] = [f |-> f, pos |-> 0, append |-> o.append, droits |-> o.droits]
             /\ type[p] \in Ajoute => o.append \/ pc[p] = "cree"
             /\ type' = type
      BY <2>3 DEF Ouverture, Ouvre
    <3>2. pc[p] = "cree" /\ type[p] \in Ajoute => f \notin Noms
      BY <1>0, <2>3, <3>1, NouveauEst DEF EnFin
    <3> QED
      BY <2>3, <3>1, <3>2
  <2>4. CASE q = p /\ Ecriture(p)
    <3>1. ouvert'[p].f = ouvert[p].f /\ ouvert'[p].append = ouvert[p].append /\ type' = type
      BY <1>0, <2>4 DEF Ecriture, Write, Ouvertures
    <3> QED
      BY <1>0, <2>4, <3>1 DEF EnFin
  <2> QED
    BY <1>0, <2>1, <2>2, <2>3, <2>4
<1> QED
  BY <1>2, <1>3 DEF EnFin

\* Somebody else takes names off.
LEMMA ReposAjouts ==
  ASSUME Ajouts, UNCHANGED <<cmd, processus, contenu>>,
         \A n \in Noms : dossier'[n] \in {dossier[n], Absent}, cmd \in Commandes
  PROVE  Ajouts'
<1>1. Procs' = Procs /\ Absent \notin Noms
  BY FichiersAssumption DEF Procs, Absent
<1>2. \A f : Ecrivains(f)' = Ecrivains(f)
  BY <1>1 DEF Ecrivains, processus
<1>3. ASSUME NEW f \in Noms \cap DOMAIN contenu PROVE Complet(f)'
  BY <1>1, <1>2
  DEF Ajouts, Complet, Anciens, Auteurs, Entiere, De, EnOrdre, processus
<1>4. ASSUME NEW p \in Procs PROVE EnFin(p)'
  <2>1. cmd[p].nom \in Noms
    BY Types
  <2> QED
    BY <1>1, <2>1 DEF Ajouts, EnFin, processus
<1> QED
  BY <1>1, <1>3, <1>4 DEF Ajouts

LEMMA AjoutsInvariant == Spec => []Ajouts
<1>1. Init => Ajouts
  BY InitAjouts DEF Init
<1>2. /\ Redirige /\ Registre /\ TypesDe /\ TypesDe' /\ Ajouts /\ [Next]_varsLs
      => Ajouts'
  <2> SUFFICES ASSUME Redirige, Registre, TypesDe, TypesDe', Ajouts, [Next]_varsLs
               PROVE  Ajouts'
    OBVIOUS
  <2>0. /\ cmd \in Commandes /\ dossier = [n \in Noms |-> dossier[n]]
    BY DEF Redirige, Registre, Catalogue
  <2>1. ASSUME NEW p \in Procs, Commande(p) PROVE Ajouts'
    <3>1. Procs' = Procs
      BY <2>1, ProcessusPas DEF Commande, Pas, Effet, Seul, Procs
    <3> QED
      BY <2>1, <3>1, PasAjout, PasEnFin DEF Commande, Ajouts
  <2>2. CASE Ls
    BY <2>0, <2>2, ReposAjouts
    DEF Ls, Opendir, Getdents, Readdir, Permissions, Stat, Closedir, varsRedir
  <2>3. ASSUME NEW n \in Retirables, Retirer(n) PROVE Ajouts'
    BY <2>0, <2>3, ReposAjouts DEF Retirer
  <2>4. CASE UNCHANGED varsLs
    BY <2>0, <2>4, ReposAjouts DEF varsLs, varsRedir
  <2> QED
    BY <2>1, <2>2, <2>3, <2>4 DEF Next
<1> QED
  BY <1>1, <1>2, RedirigeInvariant, RegistreInvariant, TypesInvariant, PTL DEF Spec

(* Processes that all append to a file that was there lose nothing to each *)
(* other, however many they are and whatever they are interleaved with: the*)
(* old content is still at the head, and each output is there, whole and in*)
(* its order.                                                              *)
THEOREM AjoutEntier == Spec => []AjoutSansPerte
<1>1. TypesDe /\ Ajouts => AjoutSansPerte
  BY AjoutDuRegistre
<1> QED
  BY <1>1, TypesInvariant, AjoutsInvariant, PTL

-----------------------------------------------------------------------------
(* The total of myls.                                                      *)

\* A sum cut to the width of int may be cut before or after each addition.
LEMMA PetitMultiple ==
  ASSUME NEW K \in Nat \ {0}, NEW d \in Int, -K < K * d, K * d < K
  PROVE  d = 0
<1>1. CASE d >= 1
  <2>1. K * d >= K * 1
    BY <1>1
  <2> QED
    BY <2>1
<1>2. CASE d <= -1
  <2>1. K * d <= K * (-1)
    BY <1>2
  <2> QED
    BY <2>1
<1> QED
  BY <1>1, <1>2

LEMMA Division ==
  ASSUME NEW K \in Nat \ {0}, NEW x \in Int
  PROVE  /\ x % K \in 0 .. K - 1 /\ x \div K \in Int
         /\ x = K * (x \div K) + (x % K)
  OBVIOUS

LEMMA ResteSomme ==
  ASSUME NEW K \in Nat \ {0}, NEW x \in Int, NEW t \in Int
  PROVE  ((x % K) + t) % K = (x + t) % K
<1> DEFINE r == x % K
           q == x \div K
           r2 == (r + t) % K
           q2 == (r + t) \div K
           r3 == (x + t) % K
           q3 == (x + t) \div K
<1>1. r \in 0 .. K - 1 /\ q \in Int /\ x = K * q + r
  BY Division
<1>2. r2 \in 0 .. K - 1 /\ q2 \in Int /\ r + t = K * q2 + r2
  <2>1. r + t \in Int
    BY <1>1
  <2> HIDE DEF r
  <2> QED
    BY <2>1, Division
<1>3. r3 \in 0 .. K - 1 /\ q3 \in Int /\ x + t = K * q3 + r3
  <2>1. x + t \in Int
    OBVIOUS
  <2> QED
    BY <2>1, Division
<1> HIDE DEF r, q, r2, q2, r3, q3
<1>4. K * (q + q2 - q3) = r3 - r2 /\ q + q2 - q3 \in Int
  BY <1>1, <1>2, <1>3
<1>5. -K < K * (q + q2 - q3) /\ K * (q + q2 - q3) < K
  BY <1>2, <1>3, <1>4
<1>6. q + q2 - q3 = 0
  BY <1>4, <1>5, PetitMultiple
<1>7. r3 - r2 = 0
  BY <1>4, <1>6
<1> QED
  BY <1>2, <1>3, <1>7 DEF r, r2, r3

LEMMA EntierSomme ==
  ASSUME NEW s \in Nat, NEW t \in Nat
  PROVE  Entier(Entier(s) + t) = Entier(s + t)
<1> DEFINE M == MaxInt + 1
           K == 2 * M
           x == s + M
<1>1. M \in Nat \ {0} /\ K \in Nat \ {0} /\ x \in Int /\ x % K \in Int
  BY MylsAssumption
<1>2. Entier(s) = (x % K) - M /\ Entier(s + t) = ((x + t) % K) - M
  <2>1. s + MaxInt + 1 = x /\ s + t + MaxInt + 1 = x + t /\ 2 * (MaxInt + 1) = K
    BY MylsAssumption
  <2> HIDE DEF x, K
  <2>2. Entier(s) = (x % K) - (MaxInt + 1) /\ Entier(s + t) = ((x + t) % K) - (MaxInt + 1)
    BY <2>1 DEF Entier
  <2> QED
    BY <2>2
<1>3. Entier(Entier(s) + t) = (((x % K) + t) % K) - M
  <2>1. Entier(s) + t + MaxInt + 1 = (x % K) + t /\ 2 * (MaxInt + 1) = K
    <3> DEFINE y == x % K
    <3>1. y \in Int /\ Entier(s) = y - M
      BY <1>1, <1>2
    <3> HIDE DEF y, x, K
    <3>2. Entier(s) + t + MaxInt + 1 = y + t
      BY <3>1, MylsAssumption
    <3> QED
      BY <3>2 DEF y, K
  <2> HIDE DEF x, K
  <2>2. Entier(Entier(s) + t) = (((x % K) + t) % K) - (MaxInt + 1)
    BY <2>1 DEF Entier
  <2> QED
    BY <2>2
<1> HIDE DEF x, K, M
<1>4. ((x % K) + t) % K = (x + t) % K
  <2>1. K \in Nat \ {0} /\ x \in Int /\ t \in Int
    BY <1>1
  <2> QED
    BY <2>1, ResteSomme, Zenon
<1> QED
  BY <1>2, <1>3, <1>4

\* The sum is what one adds row by row.
Cumule(f, r) ==
    /\ f[0] = 0 /\ Somme(r) = f[Len(r)]
    /\ \A k \in 0 .. Len(r) : f[k] \in Nat
    /\ \A k \in 1 .. Len(r) : f[k] = f[k - 1] + r[k].taille

LEMMA SommeEst ==
  ASSUME NEW r, Len(r) \in Nat, \A k \in 1 .. Len(r) : r[k].taille \in Nat
  PROVE  \E f : Cumule(f, r)
<1> DEFINE n == Len(r)
           G == [x \in (1 .. n) \X Nat |-> x[2] + r[x[1]].taille]
           Suivant(c) == c = [k \in 0 .. n |-> IF k = 0 THEN 0 ELSE c[k - 1] + r[k].taille]
           c0 == CHOOSE c : Suivant(c)
<1>1. \A k \in 1 .. n : \A x \in Nat : G[<<k, x>>] = x + r[k].taille /\ G[<<k, x>>] \in Nat
  OBVIOUS
<1> HIDE DEF G
<1>2. PICK f : Recurrente(f, n, Nat, 0, G)
  BY <1>1, RecurrenteExiste
<1>3. /\ f \in [0 .. n -> Nat] /\ f[0] = 0
      /\ \A k \in 1 .. n : f[k - 1] \in Nat /\ f[k] = f[k - 1] + r[k].taille
  <2>1. /\ f \in [0 .. n -> Nat] /\ f[0] = 0
        /\ \A k \in 1 .. n : f[k] = G[<<k, f[k - 1]>>]
    BY <1>2 DEF Recurrente
  <2>2. \A k \in 1 .. n : k - 1 \in 0 .. n
    OBVIOUS
  <2> QED
    BY <1>1, <2>1, <2>2
<1>4. Suivant(f)
  <2>1. \A k \in 0 .. n : f[k] = IF k = 0 THEN 0 ELSE f[k - 1] + r[k].taille
    BY <1>3
  <2> QED
    BY <1>3, <2>1
<1>5. Suivant(c0)
  BY <1>4
<1>6. Somme(r) = c0[n]
  BY DEF Somme
<1> HIDE DEF c0
<1>7. c0[0] = 0 /\ \A k \in 1 .. n : c0[k] = c0[k - 1] + r[k].taille
  BY <1>5
<1>8. \A k \in 1 .. n : c0[k - 1] = f[k - 1] => c0[k] = f[k]
  BY <1>3, <1>7
<1>9. c0[0] = f[0] /\ n \in Nat
  BY <1>3, <1>7
<1> HIDE DEF n
<1>10. \A k \in 0 .. n : c0[k] = f[k]
  BY ONLY <1>8, <1>9, RecurrenteUnique, SMTT(30)
<1>11. Somme(r) = f[n]
  BY <1>6, <1>9, <1>10
<1> QED
  BY <1>3, <1>11 DEF Cumule, n

LEMMA SommeAjout ==
  ASSUME NEW r, Suite(r), NEW e, e.taille \in Nat,
         \A k \in 1 .. Len(r) : r[k].taille \in Nat
  PROVE  Somme(Append(r, e)) = Somme(r) + e.taille /\ Somme(r) \in Nat
<1> DEFINE s == Append(r, e)
           n == Len(r)
<1>1. /\ Len(s) = n + 1 /\ n \in Nat /\ s[n + 1] = e
      /\ \A k \in 1 .. n : s[k] = r[k]
  BY Ajout
<1> HIDE DEF s
<1>2. \A k \in 1 .. n + 1 : s[k].taille \in Nat
  BY <1>1
<1>3. PICK f : Cumule(f, r)
  BY <1>1, SommeEst
<1>4. PICK g : Cumule(g, s)
  BY <1>1, <1>2, SommeEst
<1>5. /\ f[0] = 0 /\ Somme(r) = f[n] /\ \A k \in 0 .. n : f[k] \in Nat
      /\ \A k \in 1 .. n : f[k] = f[k - 1] + r[k].taille
  BY <1>3 DEF Cumule
<1>6. /\ g[0] = 0 /\ Somme(s) = g[n + 1]
      /\ \A k \in 1 .. n + 1 : g[k] = g[k - 1] + s[k].taille
  BY <1>1, <1>4 DEF Cumule
<1>7. \A k \in 1 .. n : f[k - 1] = g[k - 1] => f[k] = g[k]
  BY <1>1, <1>5, <1>6
<1> HIDE DEF n
<1>8. \A k \in 0 .. n : f[k] = g[k]
  <2>1. f[0] = g[0] /\ n \in Nat
    BY <1>1, <1>5, <1>6
  <2> QED
    BY ONLY <1>7, <2>1, RecurrenteUnique, SMTT(30)
<1>9. g[n + 1] = g[n] + e.taille
  BY <1>1, <1>6
<1> QED
  <2>1. n + 1 \in Nat /\ n \in 0 .. n
    BY <1>1
  <2>2. f[n] = g[n] /\ f[n] \in Nat
    BY <1>5, <1>8, <2>1
  <2> QED
    BY <1>5, <1>6, <1>9, <2>2 DEF s

Total ==
    /\ perm \in {Absent} \cup DOMAIN contenu
    /\ \A k \in Rangs : rangs[k].taille \in Nat
    /\ totalSize = Entier(Somme(rangs))

LEMMA InitTotal == Init => Total
<1> SUFFICES ASSUME Init PROVE Total
  OBVIOUS
<1>1. rangs = <<>> /\ totalSize = 0 /\ perm = Absent /\ Rangs = {} /\ Len(rangs) = 0
  BY DEF Init, Rangs
<1>2. Somme(rangs) = 0
  <2>1. PICK f : Cumule(f, rangs)
    BY <1>1, SommeEst
  <2> QED
    BY <1>1, <2>1 DEF Cumule
<1>3. Entier(0) = 0
  BY MylsAssumption DEF Entier
<1> QED
  BY <1>1, <1>2, <1>3 DEF Total

LEMMA PasTotal ==
  ASSUME Redirige, Registre, TypesDe, Parcours, Total, [Next]_varsLs
  PROVE  Total'
<1>1. ASSUME NEW p \in Procs, Commande(p) PROVE Total'
  <2>1. DOMAIN contenu \subseteq DOMAIN contenu' /\ UNCHANGED <<perm, rangs, totalSize>>
    BY <1>1, ProcessusPas DEF Commande, Pas, Effet, ls
  <2> QED
    BY <2>1 DEF Total, Rangs
<1>2. CASE Stat
  <2>1. Suite(rangs) /\ nom \in Noms /\ dossier \in [Noms -> {Absent} \cup DOMAIN contenu]
    BY <1>2 DEF Stat, Parcours, Bornes, Ordre, Traite, Registre, Catalogue
  <2>2. PICK t \in Nat : /\ rangs' = Append(rangs, Rang(t))
                         /\ \/ t = 0 /\ totalSize' = totalSize
                            \/ totalSize' = Entier(totalSize + t)
    <3>1. CASE dossier[nom] = Absent
      BY <1>2, <3>1 DEF Stat
    <3>2. CASE dossier[nom] # Absent
      <4>1. Taille(dossier[nom]) \in Nat
        BY <2>1, <3>2, BlocsDe DEF Taille
      <4> QED
        BY <1>2, <3>2, <4>1 DEF Stat
    <3> QED
      BY <3>1, <3>2
  <2> DEFINE e == Rang(t)
  <2>3. e.taille = t
    BY DEF Rang
  <2> HIDE DEF e
  <2>4. Somme(rangs') = Somme(rangs) + t /\ Somme(rangs) \in Nat
    BY <2>1, <2>2, <2>3, SommeAjout DEF Total, Rangs, e
  <2>5. totalSize' = Entier(Somme(rangs'))
    <3>1. CASE totalSize' = Entier(totalSize + t)
      BY <2>4, <3>1, EntierSomme DEF Total
    <3>2. CASE t = 0 /\ totalSize' = totalSize
      BY <2>4, <3>2 DEF Total
    <3> QED
      BY <2>2, <3>1, <3>2
  <2>6. \A k \in Rangs' : rangs'[k].taille \in Nat
    <3>1. /\ Len(rangs') = Len(rangs) + 1 /\ Len(rangs) \in Nat /\ rangs'[Len(rangs) + 1] = e
          /\ \A k \in 1 .. Len(rangs) : rangs'[k] = rangs[k]
      BY <2>1, <2>2, Ajout DEF e
    <3> QED
      BY <2>3, <3>1 DEF Total, Rangs
  <2> QED
    BY <1>2, <2>5, <2>6 DEF Stat, Total, varsRedir
<1>3. CASE Permissions
  <2>1. perm' = dossier[nom] /\ nom \in Noms /\ UNCHANGED <<contenu, rangs, totalSize>>
        /\ dossier \in [Noms -> {Absent} \cup DOMAIN contenu]
    BY <1>3 DEF Permissions, Parcours, Ordre, Traite, varsRedir, Registre, Catalogue
  <2> QED
    BY <2>1 DEF Total, Rangs
<1>4. CASE UNCHANGED <<contenu, perm, rangs, totalSize>>
  BY <1>4 DEF Total, Rangs
<1> QED
  BY <1>1, <1>2, <1>3, <1>4
  DEF Next, Ls, Opendir, Getdents, Readdir, Closedir, Retirer, varsLs, varsRedir, ls

(* Types of the redirections and of myls: the place of each process is in  *)
(* its file, and the total that myls prints is the sum of the sizes in its *)
(* rows, cut to the width of an int, whatever was written meanwhile.       *)
THEOREM TypesLs == Spec => []TypeOK
<1>1. Registre /\ TypesDe /\ Parcours /\ Total => TypeOK
  <2> SUFFICES ASSUME Registre, TypesDe, Parcours, Total PROVE TypeOK
    OBVIOUS
  <2>1. TypeRedir
    BY TypeDuRegistre
  <2> QED
    BY <2>1 DEF Parcours, Bornes, Ordre, Total, TypeOK
<1>2. /\ Redirige /\ Registre /\ TypesDe /\ Parcours /\ Total /\ [Next]_varsLs
      => Total'
  BY PasTotal
<1> QED
  BY <1>1, <1>2, InitTotal, RedirigeInvariant, RegistreInvariant, TypesInvariant,
     ParcoursInvariant, PTL DEF Spec
=============================================================================
