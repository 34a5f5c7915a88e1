------------------------------ MODULE TinyShell ------------------------------
(***************************************************************************)
(* The interactive shell: main, executerCommande, executerProgrammeExterne *)
(* and afficherRetour of tinyShell.c, with the descriptor plumbing of      *)
(* tubeCommunication.c, interleaved with the processes the shell forks.    *)
(*                                                                         *)
(* The shell is sequential; it meets its children only in wait(), fork()   *)
(* and pipe(), so a step runs from one of these calls to the next.  A line *)
(* is the sequence of words gererChaine leaves in `commandes`; ";" leaves  *)
(* no word.  A program is abstracted to what it reads, what it writes and  *)
(* the raw wait statuses it may end with; a program that cannot be         *)
(* executed writes nothing and ends with exit(EXEC_FAIL), status 2 * 256.  *)
(***************************************************************************)
EXTENDS Integers, Sequences, FiniteSets

CONSTANTS
    Pids,        \* process identifiers
    Programmes,  \* words that reach executerProgrammeExterne
    Lignes,      \* lines the user may type
    Ecrit,       \* Ecrit[g]: what program g writes, lines "ligne" and "vide"
    Lit,         \* Lit[g]: "rien", "fin" (until end of file) or "vide"
    Retours,     \* Retours[g]: raw statuses program g may end with
    PipeCap,     \* lines a pipe holds before write() blocks
    MaxTubes,    \* pipes the shell's descriptor table has room for
    ForkEchoue   \* whether fork() may fail although a pid is free

Separateurs == {"|", "&&", "||"}
Internes == {"set", "unset", "see", "cd"}
Indefinie == "$indefinie"        \* a word with a variable that is not set
Mots == Programmes \cup Separateurs \cup Internes \cup {Indefinie, "exit"}

ASSUME LignesAssumption == Lignes \subseteq Seq(Mots) /\ <<>> \notin Lignes
ASSUME PidsAssumption == IsFiniteSet(Pids)
ASSUME ProgrammesAssumption ==
    /\ Programmes \cap (Separateurs \cup Internes \cup {Indefinie}) = {}
    /\ "exit" \in Programmes   \* "exit" is a command only as the first word
    /\ Ecrit \in [Programmes -> Seq({"ligne", "vide"})]
    /\ Lit \in [Programmes -> {"rien", "fin", "vide"}]
    /\ Retours \in [Programmes -> SUBSET Nat]
ASSUME BornesAssumption ==
    PipeCap \in Nat /\ MaxTubes \in Nat /\ ForkEchoue \in BOOLEAN

FAIL_EXEC == 127
WIFEXITED(s) == s % 128 = 0
WEXITSTATUS(s) == (s \div 256) % 256

VARIABLES
    pc,             \* where the shell is
    tabcmd,         \* the words of the line
    i,              \* the loop index of executerCommande
    redirection, finDeRedirection, nbRedirection,
    status,         \* the status of main, then of afficherRetour
    attentes,       \* waits done by the loop of afficherRetour
    tubes,          \* contents of every pipe created; the last is `tube`
    etat, ret, io,  \* the processes: state, raw status, plumbing
    affiche,        \* what afficherRetour printed last
    lances, issues  \* history: words started, <<word, status>> reaped

shell == <<pc, tabcmd, i, redirection, finDeRedirection, nbRedirection,
           status, attentes, affiche>>
processus == <<etat, ret, io>>
vars == <<shell, tubes, processus, lances, issues>>

nbCommandes == Len(tabcmd)
Mot == tabcmd[i]
Enfants == {p \in Pids : etat[p] # "libre"}
Vivants == {p \in Pids : etat[p] = "vivant"}
Zombies == {p \in Pids : etat[p] = "zombie"}

Terminal == 0        \* descriptors inherited from the shell
Ferme == -1          \* a descriptor that dup() of a closed one left unusable
IoLibre == [prog |-> "", mot |-> 0, entree |-> Terminal, sortie |-> Terminal,
            herite |-> 0, lus |-> 0, lu |-> TRUE, ecrits |-> 0]

Init == /\ pc = "invite" /\ tabcmd = <<>> /\ i = 1
        /\ redirection = 0 /\ finDeRedirection = FALSE /\ nbRedirection = 0
        /\ status = 0 /\ attentes = 0 /\ tubes = <<>>
        /\ etat = [p \in Pids |-> "libre"]
        /\ ret = [p \in Pids |-> 0]
        /\ io = [p \in Pids |-> IoLibre]
        /\ affiche = <<"rien", 0>>
        /\ lances = {} /\ issues = {}

-----------------------------------------------------------------------------
(* wait(&status): reaps any one child that has ended, blocks while there   *)
(* are children and none has, and fails (status unchanged) without any.    *)
Recolte(p) == /\ p \in Zombies
              /\ status' = ret[p]
              /\ etat' = [etat EXCEPT ![p] = "libre"]
              /\ ret' = [ret EXCEPT ![p] = 0]
              /\ io' = [io EXCEPT ![p] = IoLibre]
              /\ issues' = issues \cup {<<io[p].mot, ret[p]>>}

\* Mutant: a wait() that fails clears the status.
PasDEnfantMutant == Enfants = {} /\ status' = 0 /\ UNCHANGED <<processus, issues>>

PasDEnfant == Enfants = {} /\ UNCHANGED <<status, processus, issues>>

Wait == PasDEnfant \/ \E p \in Pids : Recolte(p)

-----------------------------------------------------------------------------
(* main: one line.  A line whose first word is exactly "exit" ends the     *)
(* shell; otherwise executerCommande starts by replacing the variables,    *)
(* and a variable that is not set makes it write through a null pointer.   *)
Demander(l) ==
    /\ pc = "invite"
    /\ pc' = IF l[1] = "exit" \/ \E n \in 1..Len(l) : l[n] = Indefinie
             THEN "termine" ELSE "drapeaux"
    /\ tabcmd' = l /\ i' = 1 /\ status' = 0
    /\ redirection' = 0 /\ finDeRedirection' = FALSE /\ nbRedirection' = 0
    /\ lances' = {} /\ issues' = {}
    /\ affiche' = <<"rien", 0>>
    /\ UNCHANGED <<attentes, tubes, processus>>

(* The head of the loop of executerCommande: the flags of word i, then a   *)
(* wait as soon as one pipe has been seen in the line.                     *)
PipeSuit == i + 1 <= nbCommandes /\ tabcmd[i + 1] = "|"

DrapeauxSuivants ==
    \/ /\ PipeSuit
       /\ redirection' = redirection + 1
       /\ nbRedirection' = nbRedirection + 1
       /\ UNCHANGED finDeRedirection
    \/ /\ ~PipeSuit /\ Mot # "|"
       /\ redirection' = 0
       /\ finDeRedirection' = (finDeRedirection \/ redirection # 0)
       /\ UNCHANGED nbRedirection
    \/ /\ ~PipeSuit /\ Mot = "|"
       /\ UNCHANGED <<redirection, finDeRedirection, nbRedirection>>

\* Mutant: the loop does not wait, a pipeline runs concurrently.
DrapeauxMutant ==
    /\ pc = "drapeaux" /\ i <= nbCommandes
    /\ DrapeauxSuivants
    /\ pc' = "execute"
    /\ UNCHANGED <<tabcmd, i, status, attentes, affiche, tubes, processus,
                   lances, issues>>

Drapeaux ==
    /\ pc = "drapeaux" /\ i <= nbCommandes
    /\ DrapeauxSuivants
    /\ IF nbRedirection' # 0 THEN Wait
                             ELSE UNCHANGED <<status, processus, issues>>
    /\ pc' = "execute"
    /\ UNCHANGED <<tabcmd, i, attentes, affiche, tubes, lances>>

\* Mutant: the index moves twice.
SuivantMutant ==
    /\ pc' = "drapeaux" /\ i' = i + 2
    /\ UNCHANGED <<tabcmd, redirection, finDeRedirection, nbRedirection,
                   attentes, affiche>>

\* After word i, whatever it was.
Suivant == /\ pc' = "drapeaux" /\ i' = i + 1
           /\ UNCHANGED <<tabcmd, redirection, finDeRedirection,
                          nbRedirection, attentes, affiche>>

(* Line 75: "|", but also "&&" and "||", are skipped.                      *)
Separateur == /\ pc = "execute" /\ Mot \in Separateurs
              /\ Suivant
              /\ UNCHANGED <<status, tubes, processus, lances, issues>>

(* The built-in commands run in the shell.  setenv and unsetenv refuse a   *)
(* malformed name; the result of chdir is dropped.                         *)
RetoursInterne(m) == IF m \in {"set", "unset"} THEN {0, -1} ELSE {0}

Interne == /\ pc = "execute" /\ Mot \in Internes
           /\ IF Mot = "cd" THEN UNCHANGED status
                            ELSE status' \in RetoursInterne(Mot)
           /\ Suivant
           /\ UNCHANGED <<tubes, processus, lances, issues>>

-----------------------------------------------------------------------------
(* executerProgrammeExterne.  Only the first command of a pipeline creates *)
(* a pipe; later ones find it in the global `tube`, which keeps the pipe   *)
(* of an earlier line (or nothing) when a built-in came first.             *)
TubesApresPipe == IF redirection = 1 THEN Append(tubes, <<>>) ELSE tubes

\* Mutant: the last command of a pipeline is not connected.
DepuisTubeMutant == redirection >= 2

DepuisTube == redirection >= 2 \/ (redirection = 0 /\ finDeRedirection)
VersTube == redirection >= 1

\* The plumbing of the child, up to its exec.
Branchement(n) ==
    LET tube == IF n = 0 THEN Ferme ELSE n
        litEntree == \/ Lit[Mot] = "fin"
                     \/ Lit[Mot] = "vide" /\ DepuisTube
    IN [prog |-> Mot, mot |-> i, herite |-> n, lus |-> 0, ecrits |-> 0,
        entree |-> IF DepuisTube THEN tube ELSE Terminal,
        sortie |-> IF VersTube THEN tube ELSE Terminal,
        lu |-> ~litEntree]

AExecuter == pc = "execute" /\ Mot \in Programmes
PipePossible == redirection = 1 => Len(tubes) < MaxTubes

Lancer(p) ==
    /\ AExecuter /\ PipePossible
    /\ etat[p] = "libre"
    /\ tubes' = TubesApresPipe
    /\ etat' = [etat EXCEPT ![p] = "vivant"]
    /\ io' = [io EXCEPT ![p] = Branchement(Len(TubesApresPipe))]
    /\ lances' = lances \cup {i}
    /\ Suivant
    /\ UNCHANGED <<ret, status, issues>>

(* fork() = -1 is taken for the parent's return: nothing runs, nothing is  *)
(* reported, and the pipe stays.                                           *)
ForkRate ==
    /\ AExecuter /\ PipePossible
    /\ ForkEchoue \/ Enfants = Pids
    /\ tubes' = TubesApresPipe
    /\ Suivant
    /\ UNCHANGED <<processus, status, lances, issues>>

\* fatalsyserror(CREATION_PIPE_FAILED): the shell exits, its children stay.
PipeRate ==
    /\ AExecuter /\ ~PipePossible
    /\ pc' = "termine"
    /\ UNCHANGED <<tabcmd, i, redirection, finDeRedirection, nbRedirection,
                   status, attentes, affiche, tubes, processus, lances, issues>>

-----------------------------------------------------------------------------
\* Mutant: the waits are counted from 1.
FinBoucleMutant == /\ pc = "drapeaux" /\ i > nbCommandes
                   /\ pc' = "retour" /\ attentes' = 1
                   /\ UNCHANGED <<tabcmd, i, redirection, finDeRedirection,
                                  nbRedirection, status, affiche, tubes,
                                  processus, lances, issues>>

FinBoucle == /\ pc = "drapeaux" /\ i > nbCommandes
             /\ pc' = "retour" /\ attentes' = 0
             /\ UNCHANGED <<tabcmd, i, redirection, finDeRedirection,
                            nbRedirection, status, affiche, tubes, processus,
                            lances, issues>>

(* afficherRetour: nbCommandes - nbRedirection waits, cut short by line 29 *)
(* if a raw status were both an exit and equal to FAIL_EXEC.               *)
\* Mutant: what line 29 seems to mean, the exit code and not the raw status.
EchecExecMutant(s) == WIFEXITED(s) /\ WEXITSTATUS(s) = FAIL_EXEC

EchecExec(s) == WIFEXITED(s) /\ s = FAIL_EXEC

Attendre ==
    /\ pc = "retour" /\ attentes < nbCommandes - nbRedirection
    /\ Wait
    /\ attentes' = attentes + 1
    /\ IF EchecExec(status')
       THEN pc' = "invite" /\ affiche' = <<"anormal", status'>>
       ELSE UNCHANGED <<pc, affiche>>
    /\ UNCHANGED <<tabcmd, i, redirection, finDeRedirection, nbRedirection,
                   tubes, lances>>

\* `retour` is the exit status of the last wait, 0 if the loop did not run.
Rapport(s) ==
    LET retour == IF attentes = 0 THEN 0 ELSE WEXITSTATUS(s)
    IN IF ~WIFEXITED(s) THEN <<"anormal", s>>
       ELSE IF retour # FAIL_EXEC THEN <<"normal", s>> ELSE <<"rien", 0>>

\* Mutant: one wait less.
AfficherMutant ==
    /\ pc = "retour" /\ attentes >= nbCommandes - nbRedirection - 1
    /\ affiche' = Rapport(status)
    /\ pc' = "invite"
    /\ UNCHANGED <<tabcmd, i, redirection, finDeRedirection, nbRedirection,
                   status, attentes, tubes, processus, lances, issues>>

Afficher ==
    /\ pc = "retour" /\ attentes >= nbCommandes - nbRedirection
    /\ affiche' = Rapport(status)
    /\ pc' = "invite"
    /\ UNCHANGED <<tabcmd, i, redirection, finDeRedirection, nbRedirection,
                   status, attentes, tubes, processus, lances, issues>>

-----------------------------------------------------------------------------
(* The processes.  Each reads its input to its end, then writes, then ends.*)

(* Nobody closes the write end of a pipe: the shell keeps it, and so does  *)
(* every process forked after the pipe, its own reader included.           *)
EcrivainOuvert(t) == \/ pc # "termine"
                     \/ \E q \in Vivants : io[q].herite >= t

\* read() returns 0 (end of file, also typed at the terminal) or -1.
FinEntree(p) ==
    /\ etat[p] = "vivant" /\ ~io[p].lu
    /\ io[p].entree > 0 => tubes[io[p].entree] = <<>>
                           /\ ~EcrivainOuvert(io[p].entree)
    /\ io' = [io EXCEPT ![p].lu = TRUE]
    /\ UNCHANGED <<shell, tubes, etat, ret, lances, issues>>

\* Mutant: the reader does not stop at the blank line.
LireTubeMutant(p) ==
    LET t == io[p].entree IN
    /\ etat[p] = "vivant" /\ ~io[p].lu /\ t > 0
    /\ tubes[t] # <<>>
    /\ tubes' = [tubes EXCEPT ![t] = Tail(@)]
    /\ UNCHANGED <<shell, io, etat, ret, lances, issues>>

\* lectureArgumentsDepuisFd stops at a blank line, unless it is the first.
LireTube(p) ==
    LET t == io[p].entree IN
    /\ etat[p] = "vivant" /\ ~io[p].lu /\ t > 0
    /\ tubes[t] # <<>>
    /\ tubes' = [tubes EXCEPT ![t] = Tail(@)]
    /\ io' = [io EXCEPT ![p].lus = 1,
                        ![p].lu = /\ Lit[io[p].prog] = "vide"
                                  /\ Head(tubes[t]) = "vide"
                                  /\ io[p].lus > 0]
    /\ UNCHANGED <<shell, etat, ret, lances, issues>>

Reste(p) == io[p].ecrits < Len(Ecrit[io[p].prog])

EcrireTube(p) ==
    LET t == io[p].sortie IN
    /\ etat[p] = "vivant" /\ io[p].lu /\ t > 0 /\ Reste(p)
    /\ Len(tubes[t]) < PipeCap
    /\ tubes' = [tubes EXCEPT ![t] =
                    Append(@, Ecrit[io[p].prog][io[p].ecrits + 1])]
    /\ io' = [io EXCEPT ![p].ecrits = @ + 1]
    /\ UNCHANGED <<shell, etat, ret, lances, issues>>

(* A program has written all; what goes to the terminal goes nowhere the   *)
(* shell can see.  A myps that has read a pipe may instead be killed by its*)
(* last free(), its end unwritten (see Redirections).                      *)
SIGABRT == 134
Terminer(p) ==
    /\ etat[p] = "vivant" /\ io[p].lu
    /\ etat' = [etat EXCEPT ![p] = "zombie"]
    /\ \/ /\ io[p].sortie > 0 => ~Reste(p)
          /\ \E s \in Retours[io[p].prog] : ret' = [ret EXCEPT ![p] = s]
       \/ /\ Lit[io[p].prog] = "vide" /\ io[p].lus > 0 /\ Reste(p)
          /\ ret' = [ret EXCEPT ![p] = SIGABRT]
    /\ UNCHANGED <<shell, tubes, io, lances, issues>>

-----------------------------------------------------------------------------
Shell == \/ \E l \in Lignes : Demander(l)
         \/ Drapeaux \/ Separateur \/ Interne
         \/ \E p \in Pids : Lancer(p)
         \/ ForkRate \/ PipeRate \/ FinBoucle \/ Attendre \/ Afficher

Processus(p) == FinEntree(p) \/ LireTube(p) \/ EcrireTube(p) \/ Terminer(p)

\* The shell is gone and nothing it started can move.
Fini == pc = "termine" /\ UNCHANGED vars

Next == Shell \/ (\E p \in Pids : Processus(p)) \/ Fini

Spec == Init /\ [][Next]_vars

(* The scheduler runs the shell between two prompts and every process; the *)
(* user need not type.                                                     *)
Fairness == /\ WF_vars(Shell /\ pc # "invite")
            /\ \A p \in Pids : WF_vars(Processus(p))

FairSpec == Spec /\ Fairness

-----------------------------------------------------------------------------
(* Properties.                                                             *)

TypeShell ==
    /\ pc \in {"invite", "drapeaux", "execute", "retour", "termine"}
    /\ tabcmd \in Lignes \cup {<<>>}
    /\ i \in Nat \ {0} /\ i <= nbCommandes + 1
    /\ pc = "execute" => i <= nbCommandes
    /\ redirection \in Nat /\ nbRedirection \in Nat /\ attentes \in Nat
    /\ finDeRedirection \in BOOLEAN
    /\ status \in Int
    /\ affiche \in {"rien", "normal", "anormal"} \X Int

TypeTubes == tubes \in Seq(Seq({"ligne", "vide"}))

TypeIo == [prog : Programmes \cup {""}, mot : Nat, entree : Int, sortie : Int,
           herite : Nat, lus : {0, 1}, lu : BOOLEAN, ecrits : Nat]

TypeProcessus ==
    /\ etat \in [Pids -> {"libre", "vivant", "zombie"}]
    /\ ret \in [Pids -> Nat]
    /\ io \in [Pids -> TypeIo]
    /\ \A p \in Vivants : io[p].prog \in Programmes

TypeHistoire == lances \subseteq Nat /\ issues \subseteq Nat \X Nat

(* Type invariant of the shell, its pipes and its processes: the loop index*)
(* stays within the line or one past it, and a process runs a program.     *)
TypeOK == TypeShell /\ TypeTubes /\ TypeProcessus /\ TypeHistoire

(* "Votre shell attendra la fin de l'execution de la commande avant de     *)
(* reafficher son invite" (enonce.pdf p. 1): when the prompt is shown every*)
(* process the shell ever forked has been reaped, whatever the line.       *)
AucunFilsAInvite == pc = "invite" => Enfants = {}

(* Why it holds: the loop of afficherRetour waits for nbCommandes -        *)
(* nbRedirection children, and the children not yet reaped plus the pipes  *)
(* seen by the look-ahead of line 65 never exceed the words consumed.      *)
Tuyau(n) == IF n <= nbCommandes /\ tabcmd[n] = "|" THEN 1 ELSE 0

AttentesSuffisent ==
    LET enfants == Cardinality(Enfants) IN
    /\ pc = "drapeaux" => enfants + nbRedirection <= i - 1 + Tuyau(i)
    /\ pc = "execute" =>
           enfants + nbRedirection <= i - 1 + Tuyau(i) + Tuyau(i + 1)
    /\ pc = "retour" => /\ enfants + nbRedirection + attentes <= nbCommandes
                        /\ attentes <= nbCommandes - nbRedirection

(* A line of programs joined by pipes only.                                *)
PipelinePur == \A n \in 1..nbCommandes :
                  IF n % 2 = 1 THEN tabcmd[n] \in Programmes
                               ELSE tabcmd[n] = "|"

(* The wait of line 73 makes a pipeline sequential: a command starts only  *)
(* once the one before it has ended, so two of them never run together.    *)
PipelineSequentiel == PipelinePur => Cardinality(Enfants) <= 1

(* What is reported for a pipeline is the status of its last command,      *)
(* although afficherRetour takes its children in whatever order they end   *)
(* and more waits are done than there are children left.                   *)
StatutPipeline ==
    pc = "invite" /\ PipelinePur /\ nbCommandes \in lances =>
        \E s \in {x[2] : x \in {y \in issues : y[1] = nbCommandes}} :
            affiche = Rapport(s)

(* In a line without built-in commands, each "|" of which follows a        *)
(* program: a command after "|" reads the newest pipe there was when it    *)
(* was started, in the middle of a pipeline (redirection >= 2) as at its   *)
(* end (finDeRedirection), and that is the one the command before the "|"  *)
(* writes to, if it still runs; a command that no "|" precedes in its line *)
(* reads the terminal.  Those after the end of a pipeline read its pipe    *)
(* too, since finDeRedirection stays set.                                  *)
LigneCanalisee == \A n \in 1..nbCommandes :
    /\ tabcmd[n] \notin Internes
    /\ tabcmd[n] = "|" => n > 1 /\ tabcmd[n - 1] \in Programmes

PipelineBranche ==
    LigneCanalisee =>
        \A p \in Vivants :
            /\ io[p].mot > 1 /\ tabcmd[io[p].mot - 1] = "|" =>
                   /\ io[p].entree = io[p].herite /\ io[p].entree > 0
                   /\ \A q \in Vivants : io[q].mot = io[p].mot - 2 =>
                                              io[q].sortie = io[p].entree
            /\ io[p].entree # Terminal => \E n \in 1..io[p].mot - 1 : tabcmd[n] = "|"

(* A line none of whose processes can block: no fork has failed so far,    *)
(* what goes to its pipes fits into one, and who reads after a "|" reads up*)
(* to the blank line of the command before it, which reads no pipe, since  *)
(* its last free() could kill it before it writes that line.               *)
ApresPipe(n) == \E m \in 1 .. n - 1 : tabcmd[m] = "|"
Nourrit(n) == /\ tabcmd[n] \in Programmes /\ tabcmd[n + 1] = "|"
              /\ \E k \in DOMAIN Ecrit[tabcmd[n]] : k > 1 /\ Ecrit[tabcmd[n]][k] = "vide"
              /\ Lit[tabcmd[n]] = "rien" \/ ~ApresPipe(n)
VersPipes == UNION {{n} \X DOMAIN Ecrit[tabcmd[n]] :
                       n \in {m \in 1 .. nbCommandes - 1 : tabcmd[m] \in Programmes
                                                          /\ tabcmd[m + 1] = "|"}}
LigneSaine ==
    /\ \A n \in 1 .. i - 1 : tabcmd[n] \in Programmes => n \in lances
    /\ Cardinality(VersPipes) <= PipeCap
    /\ \A n \in 1 .. nbCommandes : tabcmd[n] \in Programmes =>
           \/ Lit[tabcmd[n]] = "rien" \/ ~ApresPipe(n)
           \/ Lit[tabcmd[n]] = "vide" /\ n > 2 /\ Nourrit(n - 2)

(* Such a line is finished with, however its processes are scheduled: the  *)
(* prompt comes back or the shell ends.                                    *)
LigneSaineFinit == []<>(pc \in {"invite", "termine"} \/ ~LigneSaine)

(* The subject has no exception: the shell waits for the command to end,   *)
(* then shows its prompt again.                                            *)
LigneSeTermine == []<>(pc \in {"invite", "termine"})

(* The promise of ForegroundShell, kept by this shell.                     *)
Phase == IF pc = "invite" THEN "prompt"
         ELSE IF pc = "termine" THEN "gone" ELSE "running"
Promesse == INSTANCE ForegroundShell WITH phase <- Phase, live <- Vivants
TientPromesse == Promesse!ASpec
=============================================================================
