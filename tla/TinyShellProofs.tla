--------------------------- MODULE TinyShellProofs ---------------------------
(***************************************************************************)
(* Theorems about TinyShell, for every finite set of process identifiers,  *)
(* every set of lines and programs, every pipe capacity and every limit on *)
(* pipes, with and without failures of fork().                             *)
(***************************************************************************)
EXTENDS TinyShell, FiniteSetTheorems, TLAPS

(* The children are finitely many, so that they can be counted.            *)
LEMMA EnfantsFini == IsFiniteSet(Enfants) /\ Cardinality(Enfants) \in Nat
  BY PidsAssumption, FS_Subset, FS_CardinalityType DEF Enfants

(* A word of the line that is a program is not a separator.                *)
LEMMA MotDisjoint == Programmes \cap Separateurs = {} /\ "|" \in Separateurs
  BY ProgrammesAssumption DEF Separateurs

-----------------------------------------------------------------------------
(* wait(): what it leaves well typed, and how it changes the children.     *)
LEMMA WaitTypage ==
  ASSUME TypeOK, Wait
  PROVE  status' \in Int /\ TypeProcessus' /\ issues' \subseteq Nat \X Nat
<1>1. CASE PasDEnfant
  BY <1>1 DEF PasDEnfant, processus, TypeOK, TypeShell, TypeProcessus,
              TypeHistoire, Vivants
<1>2. ASSUME NEW p \in Pids, Recolte(p)
      PROVE  status' \in Int /\ TypeProcessus' /\ issues' \subseteq Nat \X Nat
  <2>1. IoLibre \in TypeIo
    BY DEF IoLibre, TypeIo, Terminal
  <2>2. io' \in [Pids -> TypeIo] /\ ret' \in [Pids -> Nat]
        /\ etat' \in [Pids -> {"libre", "vivant", "zombie"}]
    BY <1>2, <2>1 DEF Recolte, TypeOK, TypeProcessus
  <2>3. \A q \in Vivants' : io'[q].prog \in Programmes
    BY <1>2 DEF Recolte, TypeOK, TypeProcessus, Vivants, Zombies
  <2>4. ret[p] \in Nat /\ io[p].mot \in Nat
    BY <1>2 DEF TypeOK, TypeProcessus, TypeIo
  <2> QED
    BY <1>2, <2>2, <2>3, <2>4 DEF Recolte, TypeOK, TypeProcessus, TypeHistoire
<1> QED
  BY <1>1, <1>2 DEF Wait

LEMMA WaitEnfants ==
  ASSUME TypeOK, Wait
  PROVE  \/ Enfants = {} /\ Enfants' = {}
         \/ Cardinality(Enfants') = Cardinality(Enfants) - 1
<1>1. CASE PasDEnfant
  BY <1>1 DEF PasDEnfant, processus, Enfants
<1>2. ASSUME NEW p \in Pids, Recolte(p)
      PROVE  Cardinality(Enfants') = Cardinality(Enfants) - 1
  <2>1. p \in Enfants /\ Enfants' = Enfants \ {p}
    BY <1>2 DEF Recolte, Enfants, Zombies, TypeOK, TypeProcessus
  <2> QED
    BY <2>1, EnfantsFini, FS_RemoveElement
<1> QED
  BY <1>1, <1>2 DEF Wait

(* wait() never touches a process that is still running.                   *)
LEMMA WaitVivants ==
  ASSUME TypeOK, Wait
  PROVE  Vivants' = Vivants
  BY DEF Wait, PasDEnfant, Recolte, processus, Vivants, Zombies, TypeOK,
         TypeProcessus

-----------------------------------------------------------------------------
(* The steps of the shell that neither wait nor fork leave the processes   *)
(* as they are.                                                            *)
LEMMA ProcessusInchanges ==
  ASSUME UNCHANGED processus
  PROVE  Enfants' = Enfants /\ Vivants' = Vivants
         /\ (TypeProcessus => TypeProcessus')
  BY DEF processus, Enfants, Vivants, TypeProcessus

(* The pipes after the possible pipe() of a launch.                        *)
LEMMA TubesTypage ==
  ASSUME TypeTubes
  PROVE  TubesApresPipe \in Seq(Seq({"ligne", "vide"}))
  BY DEF TypeTubes, TubesApresPipe

(* Reading from a pipe or writing to one leaves every pipe a sequence.     *)
LEMMA TubeModifie ==
  ASSUME TypeTubes, NEW t, NEW v,
         t \in 1..Len(tubes) => v \in Seq({"ligne", "vide"})
  PROVE  [tubes EXCEPT ![t] = v] \in Seq(Seq({"ligne", "vide"}))
<1> DEFINE S == Seq({"ligne", "vide"})
<1>1. tubes \in Seq(S)
  BY DEF TypeTubes
<1>2. t \in 1..Len(tubes) => v \in S
  OBVIOUS
<1> HIDE DEF S
<1>3. [tubes EXCEPT ![t] = v] \in Seq(S)
  <2>1. tubes \in [1..Len(tubes) -> S] /\ Len(tubes) \in Nat
    BY <1>1
  <2>2. [tubes EXCEPT ![t] = v] \in [1..Len(tubes) -> S]
    BY <1>2, <2>1
  <2> QED
    BY <2>1, <2>2
<1> QED
  BY <1>3 DEF S

(* The plumbing of a child is well typed.                                  *)
LEMMA BranchementTypage ==
  ASSUME TypeOK, AExecuter, NEW n \in Nat
  PROVE  Branchement(n) \in TypeIo /\ Branchement(n).prog \in Programmes
<1> DEFINE e == IF DepuisTube THEN (IF n = 0 THEN Ferme ELSE n) ELSE Terminal
           s == IF VersTube THEN (IF n = 0 THEN Ferme ELSE n) ELSE Terminal
           l == ~(Lit[Mot] = "fin" \/ (Lit[Mot] = "vide" /\ DepuisTube))
<1>1. e \in Int /\ s \in Int /\ l \in BOOLEAN
  BY DEF Ferme, Terminal
<1>2. Branchement(n) = [prog |-> Mot, mot |-> i, herite |-> n, lus |-> 0,
                        ecrits |-> 0, entree |-> e, sortie |-> s, lu |-> l]
  BY DEF Branchement
<1>3. Mot \in Programmes /\ i \in Nat
  BY DEF AExecuter, TypeOK, TypeShell
<1> HIDE DEF e, s, l
<1>4. [prog |-> Mot, mot |-> i, herite |-> n, lus |-> 0, ecrits |-> 0,
       entree |-> e, sortie |-> s, lu |-> l] \in TypeIo
  BY <1>1, <1>3 DEF TypeIo
<1> QED
  BY <1>2, <1>3, <1>4

-----------------------------------------------------------------------------
(* Typing, one lemma for the shell and one for its processes.              *)
LEMMA ShellTypage ==
  ASSUME TypeOK, Shell
  PROVE  TypeOK'
<1> USE DEF TypeOK
<1>1. ASSUME NEW l \in Lignes, Demander(l)
      PROVE  TypeOK'
  <2>1. l \in Seq(Mots) /\ l # <<>>
    BY LignesAssumption
  <2>2. Len(l) \in Nat /\ Len(l) >= 1
    BY <2>1
  <2>3. TypeShell'
    <3>1. pc' \in {"termine", "drapeaux"}
      BY <1>1 DEF Demander
    <3>2. tabcmd' = l /\ i' = 1 /\ nbCommandes' >= 1
      BY <1>1, <2>2 DEF Demander, nbCommandes
    <3>3. affiche' \in {"rien", "normal", "anormal"} \X Int
      BY <1>1 DEF Demander
    <3>4. /\ redirection' = 0 /\ nbRedirection' = 0 /\ status' = 0
          /\ attentes' = attentes
      BY <1>1 DEF Demander
    <3>6. finDeRedirection' \in BOOLEAN
      BY <1>1 DEF Demander
    <3>5. nbCommandes' \in Nat
      BY <2>2, <3>2 DEF nbCommandes
    <3>7. attentes' \in Nat
      BY <3>4 DEF TypeShell
    <3>8. tabcmd' \in Lignes \cup {<<>>}
      BY <3>2
    <3>9. i' \in Nat \ {0} /\ i' <= nbCommandes' + 1 /\ i' <= nbCommandes'
      BY <3>2, <3>5 DEF nbCommandes
    <3>10. redirection' \in Nat /\ nbRedirection' \in Nat /\ status' \in Int
      BY <3>4
    <3> QED
      BY <3>1, <3>3, <3>6, <3>7, <3>8, <3>9, <3>10 DEF TypeShell
  <2>4. TypeTubes' /\ TypeProcessus'
    BY <1>1, ProcessusInchanges DEF Demander, TypeTubes
  <2>5. TypeHistoire'
    BY <1>1 DEF Demander, TypeHistoire
  <2> QED
    BY <2>3, <2>4, <2>5
<1>2. CASE Drapeaux
  <2>1. TypeProcessus' /\ status' \in Int /\ issues' \subseteq Nat \X Nat
    BY <1>2, WaitTypage, ProcessusInchanges
    DEF Drapeaux, TypeShell, TypeHistoire
  <2>2. /\ redirection' \in Nat /\ nbRedirection' \in Nat
        /\ finDeRedirection' \in BOOLEAN
    <3>1. DrapeauxSuivants /\ redirection \in Nat /\ nbRedirection \in Nat
      BY <1>2 DEF Drapeaux, TypeShell
    <3>2. redirection' \in Nat /\ nbRedirection' \in Nat
      BY <3>1 DEF DrapeauxSuivants
    <3>3. finDeRedirection \in BOOLEAN
      BY DEF TypeShell
    <3>4. finDeRedirection' \in BOOLEAN
      BY <3>1, <3>3, Zenon DEF DrapeauxSuivants
    <3> QED
      BY <3>2, <3>4
  <2>3. TypeShell'
    BY <1>2, <2>1, <2>2 DEF Drapeaux, TypeShell, nbCommandes
  <2> QED
    BY <1>2, <2>1, <2>3 DEF Drapeaux, TypeTubes, TypeHistoire
<1>3. ASSUME Suivant, pc = "execute", status' \in Int
      PROVE  TypeShell'
  BY <1>3 DEF Suivant, TypeShell, nbCommandes
<1>4. CASE Separateur
  BY <1>3, <1>4, ProcessusInchanges
  DEF Separateur, TypeTubes, TypeHistoire, TypeShell
<1>5. CASE Interne
  <2>1. status' \in Int
    BY <1>5 DEF Interne, RetoursInterne, Internes, TypeShell
  <2> QED
    BY <1>3, <1>5, <2>1, ProcessusInchanges
    DEF Interne, TypeTubes, TypeHistoire
<1>6. ASSUME NEW p \in Pids, Lancer(p)
      PROVE  TypeOK'
  <2>1. TypeShell'
    BY <1>3, <1>6 DEF Lancer, AExecuter, TypeShell
  <2>2. TypeTubes' /\ Len(TubesApresPipe) \in Nat
    BY <1>6, TubesTypage DEF Lancer, TypeTubes
  <2>3. TypeProcessus'
    <3>1. /\ Branchement(Len(TubesApresPipe)) \in TypeIo
          /\ Branchement(Len(TubesApresPipe)).prog \in Programmes
      BY <1>6, <2>2, BranchementTypage DEF Lancer
    <3> QED
      BY <1>6, <3>1 DEF Lancer, TypeProcessus, Vivants
  <2>4. TypeHistoire'
    BY <1>6 DEF Lancer, TypeHistoire, TypeShell
  <2> QED
    BY <2>1, <2>2, <2>3, <2>4
<1>7. CASE ForkRate
  <2>1. TypeShell'
    BY <1>3, <1>7 DEF ForkRate, AExecuter, TypeShell
  <2> QED
    BY <1>7, <2>1, TubesTypage, ProcessusInchanges
    DEF ForkRate, TypeTubes, TypeHistoire
<1>8. CASE PipeRate
  <2>1. TypeShell'
    BY <1>8 DEF PipeRate, TypeShell, nbCommandes
  <2> QED
    BY <1>8, <2>1, ProcessusInchanges DEF PipeRate, TypeTubes, TypeHistoire
<1>9. CASE FinBoucle
  <2>1. TypeShell'
    BY <1>9 DEF FinBoucle, TypeShell, nbCommandes
  <2> QED
    BY <1>9, <2>1, ProcessusInchanges DEF FinBoucle, TypeTubes, TypeHistoire
<1>10. CASE Attendre
  <2>1. TypeProcessus' /\ status' \in Int /\ issues' \subseteq Nat \X Nat
    BY <1>10, WaitTypage DEF Attendre
  <2>2. TypeShell'
    BY <1>10, <2>1 DEF Attendre, TypeShell, nbCommandes
  <2> QED
    BY <1>10, <2>1, <2>2 DEF Attendre, TypeTubes, TypeHistoire
<1>11. CASE Afficher
  <2>1. affiche' \in {"rien", "normal", "anormal"} \X Int
    BY <1>11 DEF Afficher, Rapport, TypeShell
  <2>2. TypeShell'
    BY <1>11, <2>1 DEF Afficher, TypeShell, nbCommandes
  <2> QED
    BY <1>11, <2>2, ProcessusInchanges DEF Afficher, TypeTubes, TypeHistoire
<1> QED
  BY <1>1, <1>2, <1>4, <1>5, <1>6, <1>7, <1>8, <1>9, <1>10, <1>11 DEF Shell

LEMMA ProcessusTypage ==
  ASSUME TypeOK, NEW p \in Pids, Processus(p)
  PROVE  TypeOK'
<1> USE DEF TypeOK
<1>1. CASE FinEntree(p)
  <2>1. TypeProcessus'
    BY <1>1, ZenonT(40) DEF FinEntree, TypeProcessus, TypeIo, Vivants
  <2> QED
    BY <1>1, <2>1 DEF FinEntree, shell, TypeShell, TypeTubes, TypeHistoire,
                      nbCommandes
<1>2. CASE LireTube(p)
  <2>1. io[p].entree \in Int /\ io[p] \in TypeIo
    BY DEF TypeProcessus, TypeIo
  <2>2. TypeTubes'
    <3> DEFINE t == io[p].entree
    <3>1. t \in 1..Len(tubes) => Tail(tubes[t]) \in Seq({"ligne", "vide"})
      <4> SUFFICES ASSUME t \in 1..Len(tubes)
                   PROVE  Tail(tubes[t]) \in Seq({"ligne", "vide"})
        OBVIOUS
      <4>1. tubes[t] \in Seq({"ligne", "vide"}) /\ tubes[t] # <<>>
        BY <1>2 DEF LireTube, TypeTubes
      <4> QED
        BY <4>1
    <3>2. tubes' = [tubes EXCEPT ![t] = Tail(tubes[t])]
      BY <1>2 DEF LireTube
    <3> QED
      BY <3>1, <3>2, TubeModifie DEF TypeTubes
  <2>3. TypeProcessus'
    BY <1>2, <2>1 DEF LireTube, TypeProcessus, TypeIo, Vivants
  <2> QED
    BY <1>2, <2>2, <2>3 DEF LireTube, shell, TypeShell, TypeHistoire,
                            nbCommandes
<1>3. CASE EcrireTube(p)
  <2> DEFINE e == Ecrit[io[p].prog]
             k == io[p].ecrits
  <2>1. io[p] \in TypeIo /\ io[p].prog \in Programmes
    BY <1>3 DEF EcrireTube, TypeProcessus, Vivants
  <2>2. e \in Seq({"ligne", "vide"}) /\ k \in Nat /\ k < Len(e)
    BY <1>3, <2>1, ProgrammesAssumption DEF EcrireTube, Reste, TypeIo
  <2>3. e[k + 1] \in {"ligne", "vide"}
    BY <2>2
  <2>4. TypeTubes'
    <3> DEFINE t == io[p].sortie
               v == Append(tubes[t], e[k + 1])
    <3>1. t \in 1..Len(tubes) => v \in Seq({"ligne", "vide"})
      BY <2>3 DEF TypeTubes
    <3>2. tubes' = [tubes EXCEPT ![t] = v]
      BY <1>3 DEF EcrireTube
    <3> HIDE DEF v, t
    <3> QED
      BY <3>1, <3>2, TubeModifie DEF TypeTubes
  <2>5. TypeProcessus'
    <3>1. io' = [io EXCEPT ![p].ecrits = k + 1] /\ etat' = etat /\ ret' = ret
      BY <1>3 DEF EcrireTube
    <3> HIDE DEF k
    <3>2. [io[p] EXCEPT !.ecrits = k + 1] \in TypeIo
      <4>1. k + 1 \in Nat
        BY <2>2
      <4> QED
        BY <2>1, <4>1 DEF TypeIo
    <3>3. io' = [io EXCEPT ![p] = [io[p] EXCEPT !.ecrits = k + 1]]
      BY <3>1
    <3> QED
      BY <3>1, <3>2, <3>3 DEF TypeProcessus, Vivants
  <2> QED
    BY <1>3, <2>4, <2>5 DEF EcrireTube, shell, TypeShell, TypeHistoire,
                            nbCommandes
<1>4. CASE Terminer(p)
  <2>1. io[p].prog \in Programmes
    BY <1>4 DEF Terminer, TypeProcessus, Vivants
  <2>2. Retours[io[p].prog] \subseteq Nat
    BY <2>1, ProgrammesAssumption
  <2>3. TypeProcessus'
    BY <1>4, <2>2 DEF Terminer, SIGABRT, TypeProcessus, Vivants
  <2> QED
    BY <1>4, <2>3 DEF Terminer, shell, TypeShell, TypeTubes, TypeHistoire,
                      nbCommandes
<1> QED
  BY <1>1, <1>2, <1>3, <1>4 DEF Processus

(* The shell, its pipes and its processes are always well typed.           *)
THEOREM Typage == Spec => []TypeOK
<1>1. Init => TypeOK
  <2>1. IoLibre \in TypeIo
    BY DEF IoLibre, TypeIo, Terminal
  <2>2. Init => TypeShell
    <3>1. Init => finDeRedirection \in BOOLEAN
      BY DEF Init
    <3>2. Init => affiche \in {"rien", "normal", "anormal"} \X Int
      BY DEF Init
    <3>3. Init => Len(tabcmd) = 0
      BY DEF Init
    <3> QED
      BY <3>1, <3>2, <3>3 DEF Init, TypeShell, nbCommandes
  <2>3. Init => TypeTubes /\ TypeHistoire
    BY DEF Init, TypeTubes, TypeHistoire
  <2>4. Init => TypeProcessus
    BY <2>1 DEF Init, TypeProcessus, Vivants
  <2> QED
    BY <2>2, <2>3, <2>4 DEF TypeOK
<1>2. TypeOK /\ [Next]_vars => TypeOK'
  <2>1. TypeOK /\ UNCHANGED vars => TypeOK'
    BY ProcessusInchanges
    DEF vars, shell, TypeOK, TypeShell, TypeTubes, TypeHistoire, nbCommandes
  <2> QED
    BY <2>1, ShellTypage, ProcessusTypage DEF Next, Fini
<1> QED
  BY <1>1, <1>2, PTL DEF Spec

-----------------------------------------------------------------------------
(* The counting argument.  A word consumed by the loop of executerCommande *)
(* forks at most one child, and a "|" forks none; the look-ahead counts a  *)
(* "|" one word early, which is what Tuyau accounts for.  So the waits of  *)
(* afficherRetour are at least as many as the children left.               *)
IInv == TypeOK /\ AttentesSuffisent /\ AucunFilsAInvite

LEMMA TuyauTypage ==
  ASSUME NEW n \in Nat
  PROVE  Tuyau(n) \in {0, 1}
  BY DEF Tuyau

\* wait() does not make the children more numerous.
LEMMA WaitDecroit ==
  ASSUME TypeOK, Wait
  PROVE  /\ Cardinality(Enfants) \in Nat
         /\ Cardinality(Enfants') \in Nat
         /\ Cardinality(Enfants') <= Cardinality(Enfants)
         /\ \/ Cardinality(Enfants') = 0
            \/ Cardinality(Enfants') = Cardinality(Enfants) - 1
<1>1. Cardinality(Enfants) \in Nat /\ Cardinality({}) = 0
  BY EnfantsFini, FS_EmptySet
<1>2. CASE Enfants = {} /\ Enfants' = {}
  BY <1>1, <1>2
<1>3. CASE Cardinality(Enfants') = Cardinality(Enfants) - 1
  <2>1. IsFiniteSet(Enfants') /\ Cardinality(Enfants') \in Nat
    BY PidsAssumption, FS_Subset, FS_CardinalityType DEF Enfants
  <2> QED
    BY <1>1, <1>3, <2>1
<1> QED
  BY <1>2, <1>3, WaitEnfants

LEMMA LancerEnfants ==
  ASSUME TypeOK, NEW p \in Pids, Lancer(p)
  PROVE  Cardinality(Enfants') = Cardinality(Enfants) + 1
<1>1. p \notin Enfants /\ Enfants' = Enfants \cup {p}
  BY DEF Lancer, Enfants, TypeOK, TypeProcessus
<1> QED
  BY <1>1, EnfantsFini, FS_AddElement

LEMMA ProcessusEnfants ==
  ASSUME TypeOK, NEW p \in Pids, Processus(p)
  PROVE  Enfants' = Enfants
  BY DEF Processus, FinEntree, LireTube, EcrireTube, Terminer, Enfants,
         TypeOK, TypeProcessus

\* What one word does to the count, the two halves of the loop body.
LEMMA DrapeauxCompte ==
  ASSUME IInv, Drapeaux
  PROVE  AttentesSuffisent'
<1> DEFINE c == Cardinality(Enfants)
           d == Cardinality(Enfants')
<1>1. /\ c \in Nat /\ d \in Nat /\ d <= c
  <2>1. CASE nbRedirection' # 0
    BY <2>1, WaitDecroit DEF Drapeaux, IInv
  <2>2. CASE nbRedirection' = 0
    <3>1. Enfants' = Enfants
      BY <2>2, ProcessusInchanges DEF Drapeaux
    <3> QED
      BY <3>1, EnfantsFini
  <2> QED
    BY <2>1, <2>2
<1>2. /\ i \in Nat /\ nbRedirection \in Nat /\ c + nbRedirection <= i - 1 + Tuyau(i)
  BY DEF IInv, TypeOK, TypeShell, AttentesSuffisent, Drapeaux
<1>3. nbRedirection' = nbRedirection + Tuyau(i + 1)
  BY <1>2 DEF Drapeaux, DrapeauxSuivants, PipeSuit, Tuyau, nbCommandes
<1>4. pc' = "execute" /\ i' = i /\ Tuyau(i)' = Tuyau(i)
      /\ Tuyau(i + 1)' = Tuyau(i + 1)
  BY DEF Drapeaux, Tuyau, nbCommandes
<1>5. Tuyau(i) \in Nat /\ Tuyau(i + 1) \in Nat
  BY <1>2, TuyauTypage
<1>6. d + nbRedirection' <= i - 1 + Tuyau(i) + Tuyau(i + 1)
  <2> HIDE DEF c, d
  <2> QED
    BY <1>1, <1>2, <1>3, <1>5
<1> QED
  BY <1>4, <1>6 DEF AttentesSuffisent

\* From "execute" to the next word, with d children after the step.
LEMMA SuivantCompte ==
  ASSUME IInv, pc = "execute", Suivant,
         \/ Cardinality(Enfants') = Cardinality(Enfants)
         \/ /\ Cardinality(Enfants') = Cardinality(Enfants) + 1
            /\ Mot # "|"
  PROVE  AttentesSuffisent'
<1> DEFINE c == Cardinality(Enfants)
           d == Cardinality(Enfants')
<1>1. /\ i \in Nat /\ nbRedirection \in Nat /\ c \in Nat
      /\ c + nbRedirection <= i - 1 + Tuyau(i) + Tuyau(i + 1)
  BY EnfantsFini DEF IInv, TypeOK, TypeShell, AttentesSuffisent
<1>2. Tuyau(i) \in {0, 1} /\ Tuyau(i + 1) \in {0, 1}
  BY <1>1, TuyauTypage
<1>3. d = c \/ (d = c + 1 /\ Tuyau(i) = 0)
  BY DEF Tuyau, Mot
<1>4. /\ pc' = "drapeaux" /\ i' = i + 1 /\ nbRedirection' = nbRedirection
      /\ Tuyau(i)' = Tuyau(i + 1)
  BY DEF Suivant, Tuyau, nbCommandes
<1>5. d + nbRedirection' <= i' - 1 + Tuyau(i + 1)
  <2> HIDE DEF c, d
  <2> QED
    BY <1>1, <1>2, <1>3, <1>4
<1> QED
  BY <1>4, <1>5 DEF AttentesSuffisent

LEMMA ShellCompte ==
  ASSUME IInv, Shell
  PROVE  AttentesSuffisent' /\ AucunFilsAInvite'
<1> DEFINE c == Cardinality(Enfants)
           d == Cardinality(Enfants')
<1>0. TypeOK /\ c \in Nat
  BY EnfantsFini DEF IInv
<1>1. ASSUME NEW l \in Lignes, Demander(l)
      PROVE  AttentesSuffisent' /\ AucunFilsAInvite'
  <2>1. Enfants' = {} /\ d = 0
    BY <1>1, ProcessusInchanges, FS_EmptySet DEF Demander, IInv, AucunFilsAInvite
  <2>2. pc' \in {"drapeaux", "termine"} /\ i' = 1 /\ nbRedirection' = 0
    BY <1>1 DEF Demander
  <2>3. Tuyau(i)' \in {0, 1}
    BY DEF Tuyau
  <2> HIDE DEF c, d
  <2>4. d + nbRedirection' <= i' - 1 + Tuyau(i)'
    BY <2>1, <2>2, <2>3
  <2> QED
    BY <2>2, <2>4 DEF AttentesSuffisent, AucunFilsAInvite, d
<1>2. CASE Drapeaux
  BY <1>2, DrapeauxCompte DEF Drapeaux, AucunFilsAInvite
<1>3. ASSUME pc = "execute", Suivant, UNCHANGED processus
      PROVE  AttentesSuffisent' /\ AucunFilsAInvite'
  BY <1>3, ProcessusInchanges, SuivantCompte DEF Suivant, AucunFilsAInvite
<1>4. CASE Separateur
  BY <1>3, <1>4 DEF Separateur
<1>5. CASE Interne
  BY <1>3, <1>5 DEF Interne
<1>6. ASSUME NEW p \in Pids, Lancer(p)
      PROVE  AttentesSuffisent' /\ AucunFilsAInvite'
  <2>1. d = c + 1 /\ Mot # "|" /\ pc = "execute" /\ Suivant
    BY <1>0, <1>6, LancerEnfants, MotDisjoint DEF Lancer, AExecuter
  <2> QED
    BY <2>1, SuivantCompte DEF Suivant, AucunFilsAInvite
<1>7. CASE ForkRate
  BY <1>3, <1>7 DEF ForkRate, AExecuter
<1>8. CASE PipeRate
  BY <1>8 DEF PipeRate, AttentesSuffisent, AucunFilsAInvite
<1>9. CASE FinBoucle
  <2>1. d = c /\ pc' = "retour" /\ attentes' = 0
        /\ nbRedirection' = nbRedirection /\ nbCommandes' = nbCommandes
    BY <1>9, ProcessusInchanges DEF FinBoucle, nbCommandes
  <2>2. /\ i \in Nat /\ nbCommandes \in Nat /\ i = nbCommandes + 1
        /\ nbRedirection \in Nat
    <3>1. Len(tabcmd) \in Nat
      BY <1>0, LignesAssumption DEF TypeOK, TypeShell
    <3> QED
      BY <1>0, <1>9, <3>1 DEF FinBoucle, TypeOK, TypeShell, nbCommandes
  <2>3. Tuyau(i) = 0
    BY <2>2 DEF Tuyau
  <2>4. c + nbRedirection <= nbCommandes
    <3>1. c + nbRedirection <= i - 1 + Tuyau(i)
      BY <1>9 DEF FinBoucle, IInv, AttentesSuffisent
    <3> HIDE DEF c
    <3> QED
      BY <2>2, <2>3, <3>1
  <2>5. /\ d + nbRedirection' + attentes' <= nbCommandes'
        /\ attentes' <= nbCommandes' - nbRedirection'
    <3> HIDE DEF c, d
    <3> QED
      BY <1>0, <2>1, <2>2, <2>4
  <2> QED
    BY <2>1, <2>5 DEF AttentesSuffisent, AucunFilsAInvite
<1>10. CASE Attendre
  <2>1. ~EchecExec(status') /\ pc' = "retour" /\ attentes' = attentes + 1
        /\ nbRedirection' = nbRedirection /\ nbCommandes' = nbCommandes
    BY <1>0, <1>10, WaitTypage
    DEF Attendre, EchecExec, WIFEXITED, FAIL_EXEC, nbCommandes
  <2>2. /\ nbCommandes \in Nat /\ nbRedirection \in Nat /\ attentes \in Nat
        /\ attentes < nbCommandes - nbRedirection
        /\ c + nbRedirection + attentes <= nbCommandes
    <3>1. Len(tabcmd) \in Nat
      BY <1>0, LignesAssumption DEF TypeOK, TypeShell
    <3> QED
      BY <1>0, <1>10, <3>1 DEF Attendre, TypeOK, TypeShell, nbCommandes,
                               IInv, AttentesSuffisent
  <2>3. d = 0 \/ d = c - 1
    BY <1>0, <1>10, WaitDecroit DEF Attendre
  <2>4. /\ d + nbRedirection' + attentes' <= nbCommandes'
        /\ attentes' <= nbCommandes' - nbRedirection'
    <3> HIDE DEF c, d
    <3> QED
      BY <1>0, <2>1, <2>2, <2>3
  <2> QED
    BY <2>1, <2>4 DEF AttentesSuffisent, AucunFilsAInvite
<1>11. CASE Afficher
  <2>1. pc' = "invite" /\ Enfants' = Enfants
    BY <1>11, ProcessusInchanges DEF Afficher
  <2>2. /\ nbCommandes \in Nat /\ nbRedirection \in Nat /\ attentes \in Nat
        /\ attentes >= nbCommandes - nbRedirection
        /\ c + nbRedirection + attentes <= nbCommandes
    <3>1. Len(tabcmd) \in Nat
      BY <1>0, LignesAssumption DEF TypeOK, TypeShell
    <3> QED
      BY <1>0, <1>11, <3>1 DEF Afficher, TypeOK, TypeShell, nbCommandes,
                               IInv, AttentesSuffisent
  <2>3. c = 0
    <3> HIDE DEF c
    <3> QED
      BY <1>0, <2>2
  <2>4. Enfants = {}
    BY <2>3, EnfantsFini, FS_EmptySet
  <2> QED
    BY <2>1, <2>4 DEF AttentesSuffisent, AucunFilsAInvite
<1> QED
  BY <1>1, <1>2, <1>4, <1>5, <1>6, <1>7, <1>8, <1>9, <1>10, <1>11 DEF Shell

LEMMA Invariance == Spec => []IInv
<1>1. Init => AttentesSuffisent /\ AucunFilsAInvite
  BY DEF Init, AttentesSuffisent, AucunFilsAInvite, Enfants
<1>2. TypeOK /\ TypeOK' /\ IInv /\ [Next]_vars => IInv'
  <2> SUFFICES ASSUME TypeOK', IInv, [Next]_vars
               PROVE  AttentesSuffisent' /\ AucunFilsAInvite'
    BY DEF IInv
  <2>1. CASE Shell
    BY <2>1, ShellCompte
  <2>2. ASSUME UNCHANGED shell, Enfants' = Enfants
        PROVE  AttentesSuffisent' /\ AucunFilsAInvite'
    BY <2>2 DEF shell, IInv, AttentesSuffisent, AucunFilsAInvite, Tuyau,
                nbCommandes
  <2>3. ASSUME NEW p \in Pids, Processus(p)
        PROVE  AttentesSuffisent' /\ AucunFilsAInvite'
    <3>1. UNCHANGED shell
      BY <2>3 DEF Processus, FinEntree, LireTube, EcrireTube, Terminer
    <3> QED
      BY <2>2, <2>3, <3>1, ProcessusEnfants DEF IInv
  <2>4. CASE UNCHANGED vars
    BY <2>2, <2>4, ProcessusInchanges DEF vars
  <2> QED
    BY <2>1, <2>3, <2>4 DEF Next, Fini
<1> QED
  BY <1>1, <1>2, Typage, PTL DEF Spec, IInv

(* The prompt is shown only when every process has been reaped.            *)
THEOREM InviteSansFils == Spec => []AucunFilsAInvite
  BY Invariance, PTL DEF IInv

(* The strengthening itself, which the runs also check.                    *)
THEOREM Comptes == Spec => []AttentesSuffisent
  BY Invariance, PTL DEF IInv

-----------------------------------------------------------------------------
(* The shell implements ForegroundShell.  Each step of TinyShell is a step *)
(* of the abstract shell or leaves its two variables alone; the one step   *)
(* that needs the invariant is the return to the prompt.                   *)
LEMMA Raffinement ==
  ASSUME IInv, Next
  PROVE  Promesse!ANext \/ UNCHANGED Promesse!avars
<1> USE DEF Phase, Promesse!avars
<1>0. TypeOK
  BY DEF IInv
<1>1. ASSUME NEW l \in Lignes, Demander(l)
      PROVE  Promesse!ANext
  <2>1. Vivants' = Vivants
    BY <1>1, ProcessusInchanges DEF Demander
  <2>2. Phase = "prompt" /\ Phase' \in {"running", "gone"}
    BY <1>1 DEF Demander
  <2> QED
    BY <2>1, <2>2 DEF Promesse!ANext, Promesse!Enter, Promesse!Quit
<1>2. CASE Drapeaux
  <2>1. Vivants' = Vivants
    BY <1>0, <1>2, WaitVivants, ProcessusInchanges DEF Drapeaux
  <2> QED
    BY <1>2, <2>1 DEF Drapeaux
<1>3. CASE Separateur
  BY <1>3, ProcessusInchanges DEF Separateur, Suivant
<1>4. CASE Interne
  BY <1>4, ProcessusInchanges DEF Interne, Suivant
<1>5. ASSUME NEW p \in Pids, Lancer(p)
      PROVE  Promesse!ANext
  <2>1. p \notin Vivants /\ Vivants' = Vivants \cup {p}
    BY <1>0, <1>5 DEF Lancer, Vivants, TypeOK, TypeProcessus
  <2>2. Phase = "running" /\ Phase' = "running"
    BY <1>5 DEF Lancer, AExecuter, Suivant
  <2> QED
    BY <2>1, <2>2 DEF Promesse!ANext, Promesse!Start
<1>6. CASE ForkRate
  BY <1>6, ProcessusInchanges DEF ForkRate, AExecuter, Suivant
<1>7. CASE PipeRate
  <2>1. Vivants' = Vivants
    BY <1>7, ProcessusInchanges DEF PipeRate
  <2> QED
    BY <1>7, <2>1 DEF PipeRate, AExecuter, Promesse!ANext, Promesse!Abort
<1>8. CASE FinBoucle
  BY <1>8, ProcessusInchanges DEF FinBoucle
<1>9. CASE Attendre
  <2>1. Vivants' = Vivants
    BY <1>0, <1>9, WaitVivants DEF Attendre
  <2>2. pc' = pc
    BY <1>0, <1>9, WaitTypage
    DEF Attendre, EchecExec, WIFEXITED, FAIL_EXEC
  <2> QED
    BY <2>1, <2>2
<1>10. CASE Afficher
  <2>1. Enfants' = Enfants /\ Vivants' = Vivants /\ pc' = "invite"
    BY <1>10, ProcessusInchanges DEF Afficher
  <2>2. AucunFilsAInvite'
    BY <1>10, ShellCompte DEF Shell
  <2>3. Vivants = {}
    BY <2>1, <2>2 DEF AucunFilsAInvite, Enfants, Vivants
  <2> QED
    BY <1>10, <2>1, <2>3 DEF Afficher, Promesse!ANext, Promesse!Done
<1>11. ASSUME NEW p \in Pids, Processus(p)
       PROVE  Promesse!ANext \/ UNCHANGED Promesse!avars
  <2>1. UNCHANGED pc
    BY <1>11 DEF Processus, FinEntree, LireTube, EcrireTube, Terminer, shell
  <2>2. CASE Terminer(p)
    <3>1. p \in Vivants /\ Vivants' = Vivants \ {p}
      BY <1>0, <2>2 DEF Terminer, Vivants, TypeOK, TypeProcessus
    <3> QED
      BY <2>1, <3>1 DEF Promesse!ANext, Promesse!Finish
  <2>3. CASE FinEntree(p) \/ LireTube(p) \/ EcrireTube(p)
    BY <2>1, <2>3 DEF FinEntree, LireTube, EcrireTube, Vivants
  <2> QED
    BY <1>11, <2>2, <2>3 DEF Processus
<1>12. CASE Fini
  <2>1. UNCHANGED <<pc, processus>>
    BY <1>12 DEF Fini, vars, shell
  <2> QED
    BY <2>1, ProcessusInchanges
<1> QED
  BY <1>1, <1>2, <1>3, <1>4, <1>5, <1>6, <1>7, <1>8, <1>9, <1>10, <1>11,
     <1>12 DEF Next, Shell

(* For every instance, TinyShell refines ForegroundShell.                  *)
THEOREM Implemente == Spec => TientPromesse
<1>1. Init => Promesse!AInit
  BY DEF Init, Promesse!AInit, Phase, Vivants
<1>2. IInv /\ [Next]_vars => [Promesse!ANext]_(Promesse!avars)
  <2>1. IInv /\ UNCHANGED vars => UNCHANGED Promesse!avars
    BY ProcessusInchanges DEF vars, shell, Promesse!avars, Phase
  <2> QED
    BY <2>1, Raffinement
<1> QED
  BY <1>1, <1>2, Invariance, PTL DEF Spec, TientPromesse, Promesse!ASpec

-----------------------------------------------------------------------------
(* A pipeline of programs: at most one child, and none when the next one is*)
(* started, because a line with a "|" waits once per word from its first   *)
(* word on, while only the words between the "|" start something.          *)
Seul == \A p, q \in Enfants : p = q

Sequence ==
    PipelinePur =>
        /\ Seul
        /\ pc = "execute" => Enfants = {}
        /\ pc = "drapeaux" /\ i % 2 = 1 => Enfants = {}
        /\ pc = "execute" /\ nbCommandes > 1 => nbRedirection > 0
        /\ pc = "drapeaux" /\ i > 1 /\ nbCommandes > 1 => nbRedirection > 0

(* The last command, once started, is the child that is left, or its status*)
(* is the one that was reaped last.                                        *)
Dernier ==
    nbCommandes \in lances =>
        \/ \E p \in Enfants : io[p].mot = nbCommandes
        \/ Enfants = {} /\ <<nbCommandes, status>> \in issues

Rapporte ==
    PipelinePur =>
        /\ pc \in {"drapeaux", "execute"} => \A k \in lances : k < i
        /\ pc = "drapeaux" /\ i > nbCommandes => Dernier
        /\ pc = "retour" => Dernier

PipeInv == Sequence /\ Rapporte /\ StatutPipeline

-----------------------------------------------------------------------------
LEMMA WaitSeul ==
  ASSUME TypeOK, Seul, Wait
  PROVE  /\ Enfants' = {}
         /\ \/ Enfants = {} /\ status' = status /\ issues' = issues
            \/ \E p \in Pids : /\ Enfants = {p}
                               /\ issues' = issues \cup {<<io[p].mot, status'>>}
<1>1. CASE PasDEnfant
  BY <1>1 DEF PasDEnfant, processus, Enfants
<1>2. ASSUME NEW p \in Pids, Recolte(p)
      PROVE  /\ Enfants' = {} /\ Enfants = {p}
             /\ issues' = issues \cup {<<io[p].mot, status'>>}
  <2>1. p \in Enfants /\ Enfants' = Enfants \ {p}
    BY <1>2 DEF Recolte, Enfants, Zombies, TypeOK, TypeProcessus
  <2>2. Enfants = {p}
    BY <2>1 DEF Seul
  <2> QED
    BY <1>2, <2>1, <2>2 DEF Recolte
<1> QED
  BY <1>1, <1>2 DEF Wait

LEMMA Longueur == TypeOK => nbCommandes \in Nat
  BY LignesAssumption DEF TypeOK, TypeShell, nbCommandes

LEMMA DebutPur ==
  ASSUME IInv, NEW l \in Lignes, Demander(l)
  PROVE  PipeInv'
<1>1. Enfants' = {}
  BY ProcessusInchanges DEF Demander, IInv, AucunFilsAInvite
<1>2. pc' \in {"drapeaux", "termine"} /\ i' = 1 /\ lances' = {}
  BY DEF Demander
<1>3. Sequence'
  BY <1>1, <1>2 DEF Sequence, Seul
<1>4. Rapporte' /\ StatutPipeline'
  BY <1>2 DEF Rapporte, Dernier, StatutPipeline
<1> QED
  BY <1>3, <1>4 DEF PipeInv

LEMMA DrapeauxPur ==
  ASSUME IInv, PipeInv, Drapeaux
  PROVE  PipeInv'
<1> SUFFICES ASSUME PipelinePur'
             PROVE  PipeInv'
  BY DEF PipeInv, Sequence, Rapporte, StatutPipeline
<1>1. /\ PipelinePur /\ nbCommandes' = nbCommandes /\ i' = i /\ pc = "drapeaux"
      /\ pc' = "execute" /\ lances' = lances /\ i <= nbCommandes
  BY DEF Drapeaux, PipelinePur, nbCommandes
<1>2. TypeOK /\ i \in Nat /\ i > 0 /\ nbCommandes \in Nat /\ nbRedirection \in Nat
  BY Longueur DEF IInv, TypeOK, TypeShell
<1>3. Seul /\ (i % 2 = 1 => Enfants = {})
      /\ (i > 1 /\ nbCommandes > 1 => nbRedirection > 0)
  BY <1>1 DEF PipeInv, Sequence
<1>4. /\ nbRedirection' \in Nat /\ nbRedirection' >= nbRedirection
      /\ i = 1 /\ nbCommandes > 1 => nbRedirection' > 0
  <2>1. i = 1 /\ nbCommandes > 1 => PipeSuit
    BY <1>1, <1>2 DEF PipelinePur, PipeSuit
  <2> QED
    BY <1>2, <2>1 DEF Drapeaux, DrapeauxSuivants
<1>5. nbCommandes > 1 => nbRedirection' > 0
  BY <1>2, <1>3, <1>4
<1>6. Enfants' = {}
  <2>1. CASE nbRedirection' # 0
    BY <1>2, <1>3, <2>1, WaitSeul DEF Drapeaux
  <2>2. CASE nbRedirection' = 0
    <3>1. i = 1 /\ Enfants' = Enfants
      BY <1>1, <1>2, <1>5, <2>2, ProcessusInchanges DEF Drapeaux
    <3> QED
      BY <1>3, <3>1
  <2> QED
    BY <2>1, <2>2
<1>7. Sequence'
  BY <1>1, <1>5, <1>6 DEF Sequence, Seul
<1>8. Rapporte' /\ StatutPipeline'
  BY <1>1 DEF PipeInv, Rapporte, StatutPipeline
<1> QED
  BY <1>7, <1>8 DEF PipeInv

\* A "|" is passed, or the command of an odd word is started or is not.
LEMMA SuivantPur ==
  ASSUME IInv, PipeInv, pc = "execute", Suivant, PipelinePur',
         \/ Enfants' = Enfants /\ lances' = lances
         \/ /\ Mot \in Programmes /\ lances' = lances \cup {i}
            /\ \E p \in Pids : Enfants' = Enfants \cup {p} /\ io'[p].mot = i
  PROVE  PipeInv'
<1>1. /\ PipelinePur /\ nbCommandes' = nbCommandes /\ i' = i + 1
      /\ pc' = "drapeaux" /\ nbRedirection' = nbRedirection
  BY DEF Suivant, PipelinePur, nbCommandes
<1>2. i \in Nat /\ i > 0 /\ i <= nbCommandes /\ nbCommandes \in Nat
  BY Longueur DEF IInv, TypeOK, TypeShell
<1>3. Enfants = {} /\ (nbCommandes > 1 => nbRedirection > 0)
      /\ \A k \in lances : k < i
  BY <1>1 DEF PipeInv, Sequence, Rapporte
<1>4. Mot \in Programmes => i % 2 = 1
  BY <1>1, <1>2, MotDisjoint DEF PipelinePur, Mot
<1>5. Seul' /\ ((i + 1) % 2 = 1 => Enfants' = {})
  <2>1. i % 2 = 1 => (i + 1) % 2 # 1
    BY <1>2
  <2> QED
    BY <1>3, <1>4, <2>1 DEF Seul
<1>6. Sequence'
  BY <1>1, <1>3, <1>5 DEF Sequence
<1>7. \A k \in lances' : k < i + 1
  <2>1. lances \subseteq Nat /\ lances' \subseteq lances \cup {i}
    BY DEF IInv, TypeOK, TypeHistoire
  <2>2. \A k \in lances : k < i + 1
    BY <1>2, <1>3, <2>1
  <2> QED
    BY <1>2, <2>1, <2>2
<1>8. i + 1 > nbCommandes => Dernier'
  <2> SUFFICES ASSUME i + 1 > nbCommandes, nbCommandes \in lances'
               PROVE  Dernier'
    BY <1>1 DEF Dernier
  <2>1. i = nbCommandes /\ i \notin lances
    BY <1>2, <1>3
  <2> QED
    BY <1>1, <2>1 DEF Dernier
<1>9. Rapporte' /\ StatutPipeline'
  BY <1>1, <1>7, <1>8 DEF Rapporte, StatutPipeline
<1> QED
  BY <1>6, <1>9 DEF PipeInv

LEMMA AttendrePur ==
  ASSUME IInv, PipeInv, Attendre
  PROVE  PipeInv'
<1> SUFFICES ASSUME PipelinePur'
             PROVE  PipeInv'
  BY DEF PipeInv, Sequence, Rapporte, StatutPipeline
<1>1. PipelinePur /\ nbCommandes' = nbCommandes /\ lances' = lances /\ pc = "retour"
  BY DEF Attendre, PipelinePur, nbCommandes
<1>2. TypeOK /\ Seul /\ Dernier
  BY <1>1 DEF IInv, PipeInv, Sequence, Rapporte
<1>3. pc' = "retour"
  BY <1>2, WaitTypage DEF Attendre, EchecExec, WIFEXITED, FAIL_EXEC
<1>4. Enfants' = {} /\ Dernier'
  BY <1>1, <1>2, WaitSeul DEF Attendre, Dernier
<1> QED
  BY <1>3, <1>4 DEF PipeInv, Sequence, Seul, Rapporte, StatutPipeline

LEMMA AfficherPur ==
  ASSUME IInv, PipeInv, Afficher
  PROVE  PipeInv'
<1>1. /\ nbCommandes' = nbCommandes /\ pc' = "invite" /\ (PipelinePur' => PipelinePur)
      /\ pc = "retour" /\ lances' = lances /\ issues' = issues /\ status' = status
      /\ attentes' = attentes /\ affiche' = Rapport(status)
  BY DEF Afficher, PipelinePur, nbCommandes
<1>2. Enfants' = {} /\ Enfants = {}
  <2>1. AucunFilsAInvite'
    BY ShellCompte DEF Shell
  <2> QED
    BY <1>1, <2>1, ProcessusInchanges DEF Afficher, AucunFilsAInvite
<1>3. Sequence' /\ Rapporte'
  BY <1>1, <1>2 DEF Sequence, Seul, Rapporte
<1>4. PipelinePur /\ nbCommandes \in lances => <<nbCommandes, status>> \in issues
  BY <1>1, <1>2 DEF PipeInv, Rapporte, Dernier
<1>5. \A s : Rapport(s)' = Rapport(s)
  BY <1>1 DEF Rapport
<1>6. StatutPipeline'
  <2> SUFFICES ASSUME PipelinePur', nbCommandes \in lances
               PROVE  \E s \in {x[2] : x \in {y \in issues : y[1] = nbCommandes}} :
                          affiche' = Rapport(s)
    BY <1>1, <1>5 DEF StatutPipeline
  <2>1. <<nbCommandes, status>> \in {y \in issues : y[1] = nbCommandes}
    BY <1>1, <1>4
  <2>2. <<nbCommandes, status>>[2] = status
    OBVIOUS
  <2>3. status \in {x[2] : x \in {y \in issues : y[1] = nbCommandes}}
    BY <2>1, <2>2
  <2> QED
    BY <1>1, <2>3
<1> QED
  BY <1>3, <1>6 DEF PipeInv

LEMMA ShellPur ==
  ASSUME IInv, PipeInv, Shell
  PROVE  PipeInv'
<1>0. TypeOK
  BY DEF IInv
<1>1. ASSUME pc = "execute", Suivant, UNCHANGED <<processus, lances>>
      PROVE  PipeInv'
  <2>1. CASE PipelinePur'
    BY <1>1, <2>1, SuivantPur, ProcessusInchanges
  <2>2. CASE ~PipelinePur'
    BY <2>2 DEF PipeInv, Sequence, Rapporte, StatutPipeline
  <2> QED
    BY <2>1, <2>2
<1>2. ASSUME NEW p \in Pids, Lancer(p)
      PROVE  PipeInv'
  <2>1. CASE PipelinePur'
    <3>1. Enfants' = Enfants \cup {p}
      BY <1>0, <1>2 DEF Lancer, Enfants, TypeOK, TypeProcessus
    <3>2. io'[p].mot = i
      BY <1>0, <1>2 DEF Lancer, Branchement, TypeOK, TypeProcessus
    <3> QED
      BY <1>2, <2>1, <3>1, <3>2, SuivantPur DEF Lancer, AExecuter
  <2>2. CASE ~PipelinePur'
    BY <2>2 DEF PipeInv, Sequence, Rapporte, StatutPipeline
  <2> QED
    BY <2>1, <2>2
<1>3. CASE PipeRate
  <2>1. Enfants' = Enfants /\ pc' = "termine" /\ (PipelinePur' => PipelinePur)
    BY <1>3, ProcessusInchanges DEF PipeRate, PipelinePur, nbCommandes
  <2> QED
    BY <2>1 DEF PipeInv, Sequence, Seul, Rapporte, StatutPipeline
<1>4. CASE FinBoucle
  <2>1. /\ Enfants' = Enfants /\ pc' = "retour" /\ (PipelinePur' => PipelinePur)
        /\ pc = "drapeaux" /\ i > nbCommandes
    BY <1>4, ProcessusInchanges DEF FinBoucle, PipelinePur, nbCommandes
  <2>2. PipelinePur => Dernier /\ Seul
    BY <2>1 DEF PipeInv, Rapporte, Sequence
  <2>3. Dernier => Dernier'
    BY <1>4, <2>1 DEF FinBoucle, Dernier, nbCommandes, processus
  <2> QED
    BY <2>1, <2>2, <2>3 DEF PipeInv, Sequence, Seul, Rapporte, StatutPipeline
<1> QED
  BY <1>1, <1>2, <1>3, <1>4, DebutPur, DrapeauxPur, AttendrePur, AfficherPur
  DEF Shell, Separateur, Interne, ForkRate, AExecuter

LEMMA ProcessusPur ==
  ASSUME IInv, PipeInv, NEW p \in Pids, Processus(p)
  PROVE  PipeInv'
<1>1. UNCHANGED <<shell, lances, issues>> /\ Enfants' = Enfants
  BY ProcessusEnfants
  DEF IInv, Processus, FinEntree, LireTube, EcrireTube, Terminer
<1>2. \A q \in Pids : io'[q].mot = io[q].mot
  <2>1. io \in [Pids -> TypeIo]
    BY DEF IInv, TypeOK, TypeProcessus
  <2>2. CASE FinEntree(p)
    BY <2>1, <2>2 DEF FinEntree, TypeIo
  <2>3. CASE LireTube(p)
    BY <2>1, <2>3 DEF LireTube, TypeIo
  <2>4. CASE EcrireTube(p)
    BY <2>1, <2>4 DEF EcrireTube, TypeIo
  <2>5. CASE Terminer(p)
    BY <2>5 DEF Terminer
  <2> QED
    BY <2>2, <2>3, <2>4, <2>5 DEF Processus
<1>3. /\ nbCommandes' = nbCommandes /\ pc' = pc /\ i' = i /\ PipelinePur' = PipelinePur
      /\ nbRedirection' = nbRedirection /\ status' = status /\ attentes' = attentes
  BY <1>1 DEF shell, nbCommandes, PipelinePur
<1>4. Sequence'
  BY <1>1, <1>3 DEF PipeInv, Sequence, Seul
<1>5. Dernier => Dernier'
  BY <1>1, <1>2, <1>3 DEF Dernier, Enfants
<1>6. Rapporte'
  BY <1>1, <1>3, <1>5 DEF PipeInv, Rapporte
<1>7. StatutPipeline'
  BY <1>1, <1>3 DEF PipeInv, StatutPipeline, shell, Rapport
<1> QED
  BY <1>4, <1>6, <1>7 DEF PipeInv

LEMMA Pipelines == Spec => []PipeInv
<1>1. Init => PipeInv
  BY DEF Init, PipeInv, Sequence, Seul, Rapporte, StatutPipeline, Enfants
<1>2. IInv /\ PipeInv /\ UNCHANGED vars => PipeInv'
  <2> SUFFICES ASSUME PipeInv, UNCHANGED vars
               PROVE  PipeInv'
    OBVIOUS
  <2>1. UNCHANGED <<shell, lances, issues, io>> /\ Enfants' = Enfants
    BY ProcessusInchanges DEF vars, processus
  <2>2. nbCommandes' = nbCommandes /\ PipelinePur' = PipelinePur /\ Dernier' = Dernier
    BY <2>1 DEF shell, nbCommandes, PipelinePur, Dernier
  <2>3. Sequence' /\ Rapporte'
    BY <2>1, <2>2 DEF PipeInv, Sequence, Seul, Rapporte, shell
  <2>4. StatutPipeline'
    BY <2>1, <2>2 DEF PipeInv, StatutPipeline, shell, Rapport
  <2> QED
    BY <2>3, <2>4 DEF PipeInv
<1>3. IInv /\ PipeInv /\ [Next]_vars => PipeInv'
  BY <1>2, ShellPur, ProcessusPur DEF Next, Fini
<1> QED
  BY <1>1, <1>3, Invariance, PTL DEF Spec

(* Whatever the pipeline, the failures and the number of pids, two commands*)
(* of it are never there together (tinyShell.c:73).                        *)
THEOREM UneALaFois == Spec => []PipelineSequentiel
<1>1. PipeInv => PipelineSequentiel
  <2> SUFFICES ASSUME PipeInv, PipelinePur
               PROVE  Cardinality(Enfants) <= 1
    BY DEF PipelineSequentiel
  <2>1. CASE Enfants = {}
    BY <2>1, FS_EmptySet
  <2>2. ASSUME NEW p \in Enfants
        PROVE  Cardinality(Enfants) <= 1
    <3>1. Enfants = {p}
      BY <2>2 DEF PipeInv, Sequence, Seul
    <3>2. Cardinality({p}) = 1
      BY FS_Singleton, Zenon
    <3> QED
      BY <3>1, <3>2
  <2> QED
    BY <2>1, <2>2
<1> QED
  BY <1>1, Pipelines, PTL

(* And what is shown is the status of the last of them (tinyShell.c:41).   *)
THEOREM StatutDuDernier == Spec => []StatutPipeline
  BY Pipelines, PTL DEF PipeInv
-----------------------------------------------------------------------------
(* What a command is connected to.  The flags of the look-ahead say which  *)
(* of the words around the index are "|"; once one was seen, `tube` is the *)
(* pipe the command before it writes to.                                   *)
Vu(n) == \E k \in 1..nbCommandes : k < n /\ tabcmd[k] = "|"
Ecrivent(k) == \A q \in Vivants : io[q].mot = k => io[q].sortie = Len(tubes)

AvantMot ==
    /\ redirection # 0 \/ finDeRedirection => Vu(i + 1)
    /\ redirection # 0 => Len(tubes) > 0
    /\ Tuyau(i) = 1 => redirection # 0 /\ Ecrivent(i - 1)
    /\ i > 1 /\ Tuyau(i - 1) = 1 => redirection # 0 /\ Ecrivent(i - 2)

AuMot ==
    /\ redirection >= 2 => Len(tubes) > 0
    /\ Tuyau(i + 1) = 1 => redirection # 0
    /\ redirection # 0 => Vu(i + 2)
    /\ DepuisTube => Vu(i + 1)
    /\ finDeRedirection => Vu(i + 1)
    /\ Mot # "|" /\ Tuyau(i + 1) = 0 => redirection = 0
    /\ Mot = "|" => redirection # 0 /\ Len(tubes) > 0 /\ Ecrivent(i - 1)
    /\ i > 1 /\ Tuyau(i - 1) = 1 /\ Mot # "|" =>
           DepuisTube /\ redirection # 1 /\ Len(tubes) > 0 /\ Ecrivent(i - 2)

\* What PipelineBranche says of one process.
Branche(p) ==
    /\ io[p].mot > 1 /\ tabcmd[io[p].mot - 1] = "|" =>
           /\ io[p].entree = io[p].herite /\ io[p].entree > 0
           /\ \A q \in Vivants : io[q].mot = io[p].mot - 2 =>
                                      io[q].sortie = io[p].entree
    /\ io[p].entree # Terminal => \E n \in 1..io[p].mot - 1 : tabcmd[n] = "|"

Canal ==
    LigneCanalisee =>
        /\ pc \in {"drapeaux", "execute"} => \A p \in Vivants : io[p].mot < i
        /\ pc = "drapeaux" => AvantMot
        /\ pc = "execute" => AuMot
        /\ \A p \in Vivants : Branche(p)

\* A "|" of such a line has a program before it, and none right before it.
LEMMA Canalisee ==
  ASSUME TypeOK, LigneCanalisee, NEW n \in Nat, Tuyau(n) = 1, n > 0
  PROVE  /\ n > 1 /\ n <= nbCommandes /\ tabcmd[n] = "|"
         /\ tabcmd[n - 1] \in Programmes /\ tabcmd[n - 1] # "|" /\ Tuyau(n - 1) = 0
<1>1. n \in 1..nbCommandes /\ tabcmd[n] = "|"
  BY Longueur DEF Tuyau
<1>2. n > 1 /\ tabcmd[n - 1] \in Programmes
  BY <1>1 DEF LigneCanalisee
<1> QED
  BY <1>1, <1>2, MotDisjoint DEF Tuyau

LEMMA DebutCanal ==
  ASSUME IInv, NEW l \in Lignes, Demander(l)
  PROVE  Canal'
<1> SUFFICES ASSUME LigneCanalisee'
             PROVE  Canal'
  BY DEF Canal
<1>1. Vivants' = {}
  BY ProcessusInchanges DEF Demander, IInv, AucunFilsAInvite, Enfants, Vivants
<1>2. /\ pc' \in {"drapeaux", "termine"} /\ i' = 1 /\ redirection' = 0
      /\ finDeRedirection' = FALSE
  BY DEF Demander
<1>3. Tuyau(i)' = 0
  <2>1. TypeOK' /\ 1 \in Nat /\ i' = 1
    BY <1>2, ShellTypage DEF IInv, Shell
  <2>2. l \in Seq(Mots) /\ Len(l) \in Nat /\ l # <<>> /\ tabcmd' = l
    BY LignesAssumption DEF Demander
  <2>3. 1 \in 1..nbCommandes'
    BY <2>2 DEF nbCommandes
  <2>4. tabcmd'[1] # "|"
    BY <2>3 DEF LigneCanalisee
  <2> QED
    BY <2>1, <2>4 DEF Tuyau
<1> QED
  BY <1>1, <1>2, <1>3 DEF Canal, AvantMot

LEMMA DrapeauxCanal ==
  ASSUME IInv, Canal, Drapeaux
  PROVE  Canal'
<1> SUFFICES ASSUME LigneCanalisee'
             PROVE  Canal'
  BY DEF Canal
<1>1. /\ LigneCanalisee /\ nbCommandes' = nbCommandes /\ tabcmd' = tabcmd /\ i' = i
      /\ pc = "drapeaux" /\ pc' = "execute" /\ tubes' = tubes /\ i <= nbCommandes
  BY DEF Drapeaux, LigneCanalisee, nbCommandes
<1>2. /\ TypeOK /\ i \in Nat /\ i > 0 /\ nbCommandes \in Nat /\ redirection \in Nat
      /\ finDeRedirection \in BOOLEAN /\ Len(tubes) \in Nat
  BY Longueur DEF IInv, TypeOK, TypeShell, TypeTubes
<1>3. Vivants' = Vivants /\ \A p \in Vivants : io'[p] = io[p]
  <2>1. CASE nbRedirection' # 0
    BY <1>2, <2>1, WaitVivants
    DEF Drapeaux, Wait, PasDEnfant, Recolte, processus, Vivants, Zombies, TypeOK,
        TypeProcessus
  <2>2. CASE nbRedirection' = 0
    BY <2>2, ProcessusInchanges DEF Drapeaux, processus
  <2> QED
    BY <2>1, <2>2
<1>4. /\ \A p \in Vivants : io[p].mot < i /\ Branche(p)
      /\ AvantMot
  BY <1>1 DEF Canal
<1>5. \A p \in Vivants' : (io[p].mot < i)' /\ Branche(p)'
  BY <1>1, <1>3, <1>4 DEF Branche
<1>6. /\ \A n \in Nat : Tuyau(n)' = Tuyau(n) /\ Vu(n)' = Vu(n) /\ Ecrivent(n)' = Ecrivent(n)
      /\ Ecrivent(i - 1)' = Ecrivent(i - 1) /\ Ecrivent(i - 2)' = Ecrivent(i - 2)
      /\ Mot' = Mot
  BY <1>1, <1>3 DEF Tuyau, Vu, Ecrivent, Mot
<1>7. /\ PipeSuit <=> Tuyau(i + 1) = 1
      /\ Mot = "|" <=> Tuyau(i) = 1
      /\ Tuyau(i + 1) \in {0, 1}
  BY <1>1, <1>2 DEF PipeSuit, Tuyau, Mot
<1>8. PipeSuit => Vu(i + 2)
  BY <1>2 DEF PipeSuit, Vu
<1>9. Vu(i + 1) => Vu(i + 2)
  BY <1>2 DEF Vu
<1>10. Tuyau(i) = 1 => Tuyau(i - 1) = 0
  BY <1>1, <1>2, Canalisee
<1>11. DrapeauxSuivants
  BY DEF Drapeaux
<1>12. /\ redirection' >= 2 => Len(tubes) > 0
       /\ Tuyau(i + 1) = 1 => redirection' # 0
       /\ redirection' # 0 => Vu(i + 2)
       /\ DepuisTube' => Vu(i + 1)
       /\ finDeRedirection' => Vu(i + 1)
       /\ Mot # "|" /\ Tuyau(i + 1) = 0 => redirection' = 0
       /\ Mot = "|" => redirection' # 0 /\ Len(tubes) > 0 /\ Ecrivent(i - 1)
       /\ i > 1 /\ Tuyau(i - 1) = 1 /\ Mot # "|" =>
              DepuisTube' /\ redirection' # 1 /\ Len(tubes) > 0 /\ Ecrivent(i - 2)
  <2>1. CASE PipeSuit
    BY <1>2, <1>4, <1>7, <1>8, <1>9, <1>11, <2>1 DEF DrapeauxSuivants, AvantMot, DepuisTube
  <2>2. CASE ~PipeSuit /\ Mot # "|"
    <3>1. redirection' = 0 /\ finDeRedirection' = (finDeRedirection \/ redirection # 0)
      BY <1>11, <2>2 DEF DrapeauxSuivants
    <3>2. finDeRedirection' <=> (finDeRedirection \/ redirection # 0)
      BY <3>1, Zenon
    <3>3. Tuyau(i + 1) = 0 /\ Tuyau(i) # 1
      BY <1>7, <2>2
    <3>4. AvantMot
      BY <1>4
    <3>5. DepuisTube' <=> finDeRedirection'
      BY <3>1 DEF DepuisTube
    <3>6. finDeRedirection' => Vu(i + 1)
      BY <3>2, <3>4 DEF AvantMot
    <3>7. i > 1 /\ Tuyau(i - 1) = 1 =>
              finDeRedirection' /\ Len(tubes) > 0 /\ Ecrivent(i - 2)
      BY <3>2, <3>4 DEF AvantMot
    <3> QED
      BY <2>2, <3>1, <3>3, <3>5, <3>6, <3>7
  <2>3. CASE ~PipeSuit /\ Mot = "|"
    BY <1>2, <1>4, <1>7, <1>9, <1>11, <2>3 DEF DrapeauxSuivants, AvantMot, DepuisTube
  <2> QED
    BY <2>1, <2>2, <2>3
<1>13. AuMot'
  BY <1>1, <1>2, <1>6, <1>12 DEF AuMot
<1> QED
  BY <1>1, <1>5, <1>13 DEF Canal

\* After "&&", "||" or "|".
LEMMA SeparateurCanal ==
  ASSUME IInv, Canal, Separateur
  PROVE  Canal'
<1> SUFFICES ASSUME LigneCanalisee'
             PROVE  Canal'
  BY DEF Canal
<1>1. /\ LigneCanalisee /\ nbCommandes' = nbCommandes /\ tabcmd' = tabcmd /\ i' = i + 1
      /\ pc = "execute" /\ pc' = "drapeaux" /\ tubes' = tubes /\ Mot \in Separateurs
      /\ redirection' = redirection /\ finDeRedirection' = finDeRedirection
      /\ Vivants' = Vivants /\ io' = io
  BY ProcessusInchanges DEF Separateur, Suivant, LigneCanalisee, nbCommandes, processus
<1>2. TypeOK /\ i \in Nat /\ i > 0 /\ i <= nbCommandes /\ nbCommandes \in Nat
      /\ redirection \in Nat
  BY <1>1, Longueur DEF IInv, TypeOK, TypeShell
<1>3. \A p \in Vivants : io[p].mot < i /\ Branche(p) /\ io[p].mot \in Nat
  BY <1>1, <1>2 DEF Canal, TypeOK, TypeProcessus, TypeIo, Vivants
<1>4. \A p \in Vivants' : (io[p].mot < i)' /\ Branche(p)'
  BY <1>1, <1>2, <1>3 DEF Branche
<1>5. /\ Tuyau(i)' = Tuyau(i + 1) /\ Tuyau(i - 1)' = Tuyau(i)
      /\ (Vu(i + 2) => Vu(i + 1)') /\ (Ecrivent(i - 1) => Ecrivent(i - 2)')
  BY <1>1, <1>2 DEF Tuyau, Vu, Ecrivent
<1>6. Tuyau(i + 1) = 0
  <2>1. Tuyau(i + 1) = 1 => tabcmd[i + 1 - 1] \in Programmes
    BY <1>1, <1>2, Canalisee
  <2>2. tabcmd[i + 1 - 1] = Mot
    BY <1>2 DEF Mot
  <2> QED
    BY <1>1, <2>1, <2>2, MotDisjoint DEF Tuyau
<1>7. Tuyau(i) = 1 => Mot = "|"
  BY DEF Tuyau, Mot
<1>8. AuMot /\ (Vu(i + 1) => Vu(i + 2))
  BY <1>1, <1>2 DEF Canal, Vu
<1>9. /\ redirection # 0 \/ finDeRedirection => Vu(i + 2)
      /\ redirection # 0 => Len(tubes) > 0
      /\ Tuyau(i) = 1 => redirection # 0 /\ Ecrivent(i - 1)
  BY <1>6, <1>7, <1>8 DEF AuMot
<1>10. AvantMot'
  BY <1>1, <1>5, <1>6, <1>9 DEF AvantMot
<1> QED
  BY <1>1, <1>4, <1>10 DEF Canal

\* The pipe there is when word i is started, and the flags at the next.
LEMMA ProgrammeCanal ==
  ASSUME IInv, Canal, LigneCanalisee, pc = "execute", Mot \in Programmes, Suivant,
         tubes' = TubesApresPipe
  PROVE  /\ tubes' \in Seq(Seq({"ligne", "vide"})) /\ Len(tubes') \in Nat
         /\ redirection # 0 => Len(tubes') > 0
         /\ redirection # 1 => tubes' = tubes
         /\ Ecrivent(i - 1)' => AvantMot'
<1>1. /\ nbCommandes' = nbCommandes /\ tabcmd' = tabcmd /\ i' = i + 1
      /\ redirection' = redirection /\ finDeRedirection' = finDeRedirection
  BY DEF Suivant, nbCommandes
<1>2. TypeOK /\ i \in Nat /\ i > 0 /\ redirection \in Nat /\ AuMot
  BY DEF IInv, TypeOK, TypeShell, Canal
<1>3. tubes' \in Seq(Seq({"ligne", "vide"})) /\ Len(tubes') \in Nat
  BY <1>2, TubesTypage DEF TypeOK
<1>4. (redirection # 0 => Len(tubes') > 0) /\ (redirection # 1 => tubes' = tubes)
  BY <1>2 DEF TubesApresPipe, AuMot, TypeOK, TypeTubes
<1>5. Tuyau(i) = 0
  BY MotDisjoint DEF Tuyau, Mot
<1>6. /\ Tuyau(i)' = Tuyau(i + 1) /\ Tuyau(i - 1)' = Tuyau(i)
      /\ Vu(i + 2) => Vu(i + 1)'
  BY <1>1, <1>2 DEF Tuyau, Vu
<1>7. Vu(i + 1) => Vu(i + 2)
  BY <1>2 DEF Vu
<1>8. /\ redirection # 0 \/ finDeRedirection => Vu(i + 2)
      /\ Tuyau(i + 1) = 1 => redirection # 0
  BY <1>2, <1>7 DEF AuMot
<1>9. Ecrivent(i - 1)' => AvantMot'
  BY <1>1, <1>4, <1>5, <1>6, <1>8 DEF AvantMot
<1> QED
  BY <1>3, <1>4, <1>9

LEMMA ForkRateCanal ==
  ASSUME IInv, Canal, ForkRate
  PROVE  Canal'
<1> SUFFICES ASSUME LigneCanalisee'
             PROVE  Canal'
  BY DEF Canal
<1>1. /\ LigneCanalisee /\ tabcmd' = tabcmd /\ i' = i + 1 /\ pc = "execute"
      /\ pc' = "drapeaux" /\ Vivants' = Vivants /\ io' = io
  BY ProcessusInchanges
  DEF ForkRate, AExecuter, Suivant, LigneCanalisee, nbCommandes, processus
<1>2. i \in Nat /\ \A p \in Vivants : io[p].mot < i /\ Branche(p) /\ io[p].mot \in Nat
  BY <1>1 DEF Canal, IInv, TypeOK, TypeShell, TypeProcessus, TypeIo, Vivants
<1>3. \A p \in Vivants' : (io[p].mot < i)' /\ Branche(p)'
  BY <1>1, <1>2 DEF Branche
<1>4. Ecrivent(i - 1)'
  <2> SUFFICES ASSUME NEW q \in Vivants', io'[q].mot = i' - 1
               PROVE  FALSE
    BY DEF Ecrivent
  <2> QED
    BY <1>1, <1>2
<1>5. AvantMot'
  BY <1>1, <1>4, ProgrammeCanal DEF ForkRate, AExecuter
<1> QED
  BY <1>1, <1>3, <1>5 DEF Canal

LEMMA LancerCanal ==
  ASSUME IInv, Canal, NEW p \in Pids, Lancer(p)
  PROVE  Canal'
<1> SUFFICES ASSUME LigneCanalisee'
             PROVE  Canal'
  BY DEF Canal
<1> DEFINE n == Len(TubesApresPipe)
<1>1. /\ LigneCanalisee /\ tabcmd' = tabcmd /\ nbCommandes' = nbCommandes /\ i' = i + 1
      /\ pc = "execute" /\ pc' = "drapeaux" /\ Mot \in Programmes
      /\ tubes' = TubesApresPipe
  BY DEF Lancer, AExecuter, Suivant, LigneCanalisee, nbCommandes
<1>2. /\ i \in Nat /\ i > 0 /\ i <= nbCommandes /\ nbCommandes \in Nat
      /\ redirection \in Nat /\ TypeOK /\ AuMot
      /\ \A q \in Vivants : io[q].mot < i /\ Branche(q) /\ io[q].mot \in Nat
  <2>1. TypeOK /\ AuMot /\ \A q \in Vivants : io[q].mot < i /\ Branche(q)
    BY <1>1 DEF Canal, IInv
  <2>2. \A q \in Vivants : io[q].mot \in Nat
    BY <2>1 DEF TypeOK, TypeProcessus, TypeIo, Vivants
  <2> QED
    BY <1>1, <2>1, <2>2, Longueur DEF TypeOK, TypeShell
<1>3. /\ n \in Nat /\ (redirection # 0 => n > 0) /\ (redirection # 1 => tubes' = tubes)
      /\ Ecrivent(i - 1)' => AvantMot'
  <2>1. Suivant
    BY DEF Lancer
  <2> QED
    BY <1>1, <2>1, ProgrammeCanal
<1>4. p \notin Vivants /\ Vivants' = Vivants \cup {p} /\ \A q \in Vivants : io'[q] = io[q]
  BY <1>2 DEF Lancer, Vivants, TypeOK, TypeProcessus
<1>5. io'[p] = Branchement(n)
  BY <1>2 DEF Lancer, TypeOK, TypeProcessus
<1> HIDE DEF n
<1>6. /\ io'[p].mot = i /\ io'[p].herite = n
      /\ io'[p].entree = IF DepuisTube THEN IF n = 0 THEN Ferme ELSE n ELSE Terminal
      /\ io'[p].sortie = IF VersTube THEN IF n = 0 THEN Ferme ELSE n ELSE Terminal
  BY <1>5 DEF Branchement
<1>7. Len(tubes') = n
  BY <1>1 DEF n
<1>8. \A q \in Vivants' : (io[q].mot < i)'
  BY <1>1, <1>2, <1>4, <1>6
<1>9. (redirection # 0 => Ecrivent(i - 1)') /\ (redirection = 0 => AvantMot')
  <2>1. redirection # 0 => VersTube
    BY <1>2 DEF VersTube
  <2>2. ASSUME redirection # 0, NEW q \in Vivants', io'[q].mot = i' - 1
        PROVE  io'[q].sortie = Len(tubes')
    <3>1. q = p
      BY <1>1, <1>2, <1>4, <2>2
    <3> QED
      BY <1>3, <1>6, <1>7, <2>1, <2>2, <3>1
  <2>3. redirection # 0 => Ecrivent(i - 1)'
    BY <2>2 DEF Ecrivent
  <2>4. ASSUME redirection = 0
        PROVE  AvantMot'
    <3>1. /\ Tuyau(i)' = Tuyau(i + 1) /\ Tuyau(i - 1)' = Tuyau(i)
          /\ Vu(i + 1) => Vu(i + 1)'
      BY <1>1, <1>2 DEF Tuyau, Vu
    <3>2. Tuyau(i) = 0 /\ Tuyau(i + 1) # 1
      BY <1>1, <1>2, <2>4, MotDisjoint DEF AuMot, Tuyau, Mot
    <3>3. redirection' = 0 /\ finDeRedirection' = finDeRedirection
      BY <2>4 DEF Lancer, Suivant
    <3> QED
      BY <1>2, <3>1, <3>2, <3>3 DEF AuMot, AvantMot
  <2> QED
    BY <2>3, <2>4
<1>10. Branche(p)'
  <2>1. ASSUME i > 1, tabcmd[i - 1] = "|"
        PROVE  /\ io'[p].entree = n /\ n > 0
               /\ \A q \in Vivants' : io'[q].mot = i - 2 => io'[q].sortie = n
    <3>1. Tuyau(i - 1) = 1 /\ Mot # "|"
      BY <1>1, <1>2, <2>1, MotDisjoint DEF Tuyau
    <3>2. DepuisTube /\ redirection # 1 /\ Len(tubes) > 0 /\ Ecrivent(i - 2)
      BY <1>2, <2>1, <3>1 DEF AuMot
    <3>3. Len(tubes) = n
      BY <1>3, <1>7, <3>2
    <3>4. \A q \in Vivants : io[q].mot = i - 2 => io[q].sortie = n
      BY <3>2, <3>3 DEF Ecrivent
    <3> QED
      BY <1>2, <1>4, <1>6, <3>2, <3>3, <3>4
  <2>2. io'[p].entree # Terminal => \E k \in 1..i - 1 : tabcmd[k] = "|"
    <3> SUFFICES ASSUME io'[p].entree # Terminal
                 PROVE  \E k \in 1..i - 1 : tabcmd[k] = "|"
      OBVIOUS
    <3>1. Vu(i + 1)
      BY <1>2, <1>6 DEF AuMot
    <3>2. tabcmd[i] # "|"
      BY <1>1, MotDisjoint DEF Mot
    <3> QED
      BY <1>2, <3>1, <3>2 DEF Vu
  <2> QED
    BY <1>1, <1>6, <2>1, <2>2 DEF Branche
<1>11. ASSUME NEW q \in Vivants
       PROVE  Branche(q)'
  <2>1. io'[q] = io[q] /\ Branche(q) /\ io[q].mot < i /\ io[q].mot \in Nat
    BY <1>2, <1>4
  <2>2. \A r \in Vivants' : io'[r].mot = io[q].mot - 2 => r \in Vivants
    BY <1>2, <1>4, <1>6, <2>1
  <2> QED
    BY <1>1, <1>4, <2>1, <2>2 DEF Branche
<1> QED
  BY <1>1, <1>3, <1>4, <1>8, <1>9, <1>10, <1>11 DEF Canal

\* Steps after which no word of this line is looked at any more.
LEMMA FinCanal ==
  ASSUME Canal, tabcmd' = tabcmd, pc' \notin {"drapeaux", "execute"},
         Vivants' = Vivants, \A p \in Vivants : io'[p] = io[p]
  PROVE  Canal'
<1>1. LigneCanalisee' => LigneCanalisee
  BY DEF LigneCanalisee, nbCommandes
<1>2. \A p \in Vivants : Branche(p) => Branche(p)'
  BY DEF Branche
<1> QED
  BY <1>1, <1>2 DEF Canal

LEMMA ShellCanal ==
  ASSUME IInv, Canal, Shell
  PROVE  Canal'
<1>0. TypeOK
  BY DEF IInv
<1>1. CASE Interne
  <2>1. nbCommandes' = nbCommandes /\ tabcmd' = tabcmd
    BY <1>1 DEF Interne, Suivant, nbCommandes
  <2>2. ~LigneCanalisee'
    BY <1>0, <1>1, <2>1, Longueur DEF Interne, Mot, LigneCanalisee, TypeOK, TypeShell
  <2> QED
    BY <2>2 DEF Canal
<1>2. CASE PipeRate \/ FinBoucle \/ Afficher
  BY <1>2, FinCanal, ProcessusInchanges DEF PipeRate, FinBoucle, Afficher, processus
<1>3. CASE Attendre
  <2>1. pc' = "retour" /\ tabcmd' = tabcmd
    BY <1>0, <1>3, WaitTypage DEF Attendre, EchecExec, WIFEXITED, FAIL_EXEC
  <2>2. Vivants' = Vivants /\ \A p \in Vivants : io'[p] = io[p]
    BY <1>0, <1>3, WaitVivants
    DEF Attendre, Wait, PasDEnfant, Recolte, processus, Vivants, Zombies, TypeOK,
        TypeProcessus
  <2> QED
    BY <2>1, <2>2, FinCanal
<1> QED
  BY <1>1, <1>2, <1>3, DebutCanal, DrapeauxCanal, SeparateurCanal, ForkRateCanal,
     LancerCanal
  DEF Shell

\* A process reads, writes and ends; it stays connected as it was.
LEMMA ProcessusCanal ==
  ASSUME IInv, Canal, NEW p \in Pids, Processus(p)
  PROVE  Canal'
<1>0. TypeOK /\ io \in [Pids -> TypeIo] /\ tubes \in Seq(Seq({"ligne", "vide"}))
  BY DEF IInv, TypeOK, TypeProcessus, TypeTubes
<1>1. /\ UNCHANGED shell
      /\ Vivants' \subseteq Vivants
      /\ Len(tubes') = Len(tubes)
      /\ \A q \in Pids : /\ io'[q].mot = io[q].mot /\ io'[q].entree = io[q].entree
                         /\ io'[q].sortie = io[q].sortie /\ io'[q].herite = io[q].herite
  <2>1. CASE FinEntree(p)
    BY <1>0, <2>1 DEF FinEntree, TypeIo, Vivants
  <2>5. DOMAIN tubes' = DOMAIN tubes => Len(tubes') = Len(tubes)
    <3>1. tubes' \in Seq(Seq({"ligne", "vide"}))
      BY <1>0, ProcessusTypage DEF TypeOK, TypeTubes
    <3> QED
      BY <1>0, <3>1
  <2>2. CASE LireTube(p)
    <3>1. DOMAIN tubes' = DOMAIN tubes /\ UNCHANGED <<shell, etat>>
      BY <2>2 DEF LireTube
    <3>2. \A q \in Pids : /\ io'[q].mot = io[q].mot /\ io'[q].entree = io[q].entree
                          /\ io'[q].sortie = io[q].sortie /\ io'[q].herite = io[q].herite
      BY <1>0, <2>2 DEF LireTube, TypeIo
    <3> QED
      BY <2>5, <3>1, <3>2 DEF Vivants
  <2>3. CASE EcrireTube(p)
    <3>1. DOMAIN tubes' = DOMAIN tubes /\ UNCHANGED <<shell, etat>>
      BY <2>3 DEF EcrireTube
    <3>2. \A q \in Pids : /\ io'[q].mot = io[q].mot /\ io'[q].entree = io[q].entree
                          /\ io'[q].sortie = io[q].sortie /\ io'[q].herite = io[q].herite
      BY <1>0, <2>3 DEF EcrireTube, TypeIo
    <3> QED
      BY <2>5, <3>1, <3>2 DEF Vivants
  <2>4. CASE Terminer(p)
    BY <1>0, <2>4 DEF Terminer, Vivants, TypeOK, TypeProcessus
  <2> QED
    BY <2>1, <2>2, <2>3, <2>4 DEF Processus
<1>2. /\ pc' = pc /\ i' = i /\ tabcmd' = tabcmd /\ nbCommandes' = nbCommandes
      /\ redirection' = redirection /\ finDeRedirection' = finDeRedirection
  BY <1>1 DEF shell, nbCommandes
<1>3. Vivants \subseteq Pids
  BY DEF Vivants
<1>4. \A k : Ecrivent(k) => Ecrivent(k)'
  BY <1>1, <1>3 DEF Ecrivent
<1>5. AvantMot => AvantMot'
  <2>1. /\ Tuyau(i)' = Tuyau(i) /\ Tuyau(i - 1)' = Tuyau(i - 1) /\ Vu(i + 1)' = Vu(i + 1)
        /\ (Ecrivent(i - 1) => Ecrivent(i - 1)') /\ (Ecrivent(i - 2) => Ecrivent(i - 2)')
    BY <1>1, <1>2, <1>3 DEF Tuyau, Vu, Ecrivent
  <2> QED
    BY <1>1, <1>2, <2>1 DEF AvantMot
<1>6. AuMot => AuMot'
  <2>1. /\ Tuyau(i + 1)' = Tuyau(i + 1) /\ Tuyau(i - 1)' = Tuyau(i - 1)
        /\ Vu(i + 1)' = Vu(i + 1) /\ Vu(i + 2)' = Vu(i + 2)
        /\ (Ecrivent(i - 1) => Ecrivent(i - 1)') /\ (Ecrivent(i - 2) => Ecrivent(i - 2)')
    BY <1>1, <1>2, <1>3 DEF Tuyau, Vu, Ecrivent
  <2>2. Mot' = Mot /\ DepuisTube' = DepuisTube
    BY <1>2 DEF Mot, DepuisTube
  <2> QED
    BY <1>1, <1>2, <2>1, <2>2 DEF AuMot
<1>7. \A q \in Vivants' : Branche(q) => Branche(q)'
  BY <1>1, <1>2, <1>3 DEF Branche
<1>8. LigneCanalisee' => LigneCanalisee
  BY <1>2 DEF LigneCanalisee
<1>9. \A q \in Vivants' : io[q].mot < i => (io[q].mot < i)'
  BY <1>1, <1>2, <1>3
<1> QED
  BY <1>1, <1>2, <1>5, <1>6, <1>7, <1>8, <1>9 DEF Canal

(* In any line without built-in commands whose "|" follow programs, each   *)
(* command after a "|" reads the pipe of the command before it, and no     *)
(* other command but those after a pipeline reads one (tinyShell.c:69).    *)
THEOREM Branchements == Spec => []PipelineBranche
<1>1. Init => Canal
  BY DEF Init, Canal, Vivants
<1>2. IInv /\ Canal /\ UNCHANGED vars => Canal'
  <2> SUFFICES ASSUME Canal, UNCHANGED vars
               PROVE  Canal'
    OBVIOUS
  <2>1. /\ UNCHANGED <<pc, tabcmd, i, redirection, finDeRedirection, tubes, io>>
        /\ Vivants' = Vivants
    BY DEF vars, shell, processus, Vivants
  <2> QED
    BY <2>1 DEF Canal, LigneCanalisee, nbCommandes, AvantMot, AuMot, Branche, Ecrivent,
                Vu, Tuyau, Mot, DepuisTube
<1>3. IInv /\ Canal /\ [Next]_vars => Canal'
  BY <1>2, ShellCanal, ProcessusCanal DEF Next, Fini
<1>4. Canal => PipelineBranche
  BY DEF Canal, PipelineBranche, Branche
<1> QED
  BY <1>1, <1>3, <1>4, Invariance, PTL DEF Spec
=============================================================================
