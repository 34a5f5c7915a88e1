---------------------------- MODULE Redirections -----------------------------
(***************************************************************************)
(* Files that myps reads and writes: the redirection of redirections.c at  *)
(* its start, its input, its output.  Several of them may run at once, for *)
(* the shell does not wait for the command before a ";".                   *)
(*                                                                         *)
(* A file is a sequence of blocks <<process, n>>, what one write() of the  *)
(* buffered output leaves; the last one ends with the blank line, and      *)
(* block 0 is an error message.                                            *)
(***************************************************************************)
EXTENDS Integers, Sequences, FiniteSets, SequencesExt, FiniteSetsExt

CONSTANTS
    Noms,         \* names in the directory, in the order of readdir
    Commandes,    \* sequences of commands that may be run at the same time
    Blocs,        \* blocks of an output
    Restes        \* what type and flags may hold that nobody wrote

ASSUME FichiersAssumption ==
    Noms \subseteq Nat \ {0} /\ IsFiniteSet(Noms) /\ Noms # {} /\ Blocs \in Nat \ {0}

Absent == 0
Avant == 0               \* who wrote the files that are there at the start
Ferme == "ferme"
Fichier == "fichier"
Efface == {" > ", " 2> ", " >& "}
Ajoute == {" >> ", " 2>> ", " >>& "}
Lecture == " < "
Operateurs == Efface \cup Ajoute \cup {Lecture}
Sorties(op) == CASE op \in {" > ", " >> "} -> {1}
                 [] op \in {" 2> ", " 2>> "} -> {2}
                 [] op \in {" >& ", " >>& "} -> {1, 2}
                 [] OTHER -> {}

\* The shell closes 1 for want of a pipe only where it has closed 0 for it.
ASSUME CommandesAssumption ==
    \A c \in Commandes : \A p \in DOMAIN c :
        /\ c[p] \in [op : Operateurs \cup {""}, nom : Noms, blanc : BOOLEAN,
                    entree : {"terminal", "tube", Ferme},
                    sortie : {"terminal", "tube", Ferme}]
        /\ c[p].sortie = Ferme => c[p].entree = Ferme
        /\ p # Avant

(* type and flags as lines 90 to 106 use them: the case of the switch, what*)
(* the descriptor allows, O_CREAT, O_APPEND, O_TRUNC, and flags that open()*)
(* refuses, whatever the file.                                             *)
Options == [cas : {"rien", "un", "deux", "entree"}, droits : SUBSET {"lit", "ecrit"},
            creat : BOOLEAN, append : BOOLEAN, tronque : BOOLEAN, refus : BOOLEAN]

ASSUME RestesAssumption == Restes \subseteq Options

Choix(op) == [cas |-> CASE op = Lecture -> "entree" [] Sorties(op) = {1, 2} -> "deux"
                        [] OTHER -> "un",
              droits |-> IF op = Lecture THEN {"lit"} ELSE {"ecrit"},
              creat |-> op \in Efface, append |-> op \in Ajoute,
              tronque |-> FALSE, refus |-> FALSE]
Rien == [cas |-> "rien", droits |-> {}, creat |-> FALSE, append |-> FALSE,
         tronque |-> FALSE, refus |-> FALSE]
Second == [Rien EXCEPT !.droits = {"ecrit"}, !.creat = TRUE]

VARIABLES
    dossier, contenu,   \* the file of each name, the blocks of each file
    cmd,                \* argv[0], and what 0 and 1 are at the start
    pc,                 \* where each process is
    type, opt,          \* the operator that was recognised or "", type and flags
    fds, id,            \* descriptors, the one that open() gave
    ouvert,             \* the file open on it, the place in it, O_APPEND, the rights
    l,                  \* whether the last argument is "l"
    deplace,            \* realloc moved `arguments`
    ecrits              \* blocks printed

processus == <<pc, type, opt, fds, id, ouvert, l, deplace, ecrits>>
varsRedir == <<dossier, contenu, cmd, processus>>

(* A command is [op, nom, blanc, entree, sortie]: the operator or "", the  *)
(* name after it, and whether a blank follows.  A process that reads a     *)
(* pipe gets "l".  The files there at the start have the number of their   *)
(* name.                                                                   *)
Procs == DOMAIN cmd
AncienContenu == [k \in 1 .. Blocs + 1 |-> <<Avant, k>>]

RedirInit ==
    /\ dossier \in {d \in [Noms -> Noms \cup {Absent}] : \A n \in Noms : d[n] \in {n, Absent}}
    /\ contenu = [f \in {n \in Noms : dossier[n] = n} |-> AncienContenu]
    /\ cmd \in Commandes
    /\ pc = [p \in Procs |-> "debut"]
    /\ type = [p \in Procs |-> ""]
    /\ opt = [p \in Procs |-> Rien]
    /\ fds = [p \in Procs |-> [d \in 0 .. 4 |->
                 CASE d = 0 -> cmd[p].entree [] d = 1 -> cmd[p].sortie
                   [] d = 2 -> "terminal" [] OTHER -> Ferme]]
    /\ id = [p \in Procs |-> 0]
    /\ ouvert = [p \in Procs |-> [f |-> Absent, pos |-> 0, append |-> FALSE,
                               droits |-> {}]]
    /\ l = [p \in Procs |-> cmd[p].entree # "terminal"]
    /\ deplace = [p \in Procs |-> FALSE]
    /\ ecrits = [p \in Procs |-> 0]

-----------------------------------------------------------------------------
(* Descriptors.                                                            *)
Libre(t) == Min({d \in DOMAIN t : t[d] = Ferme})
Close(t, d) == [t EXCEPT ![d] = Ferme]
Dup(t, d) == [t EXCEPT ![Libre(t)] = t[d]]
Dup2(t, d, e) == [t EXCEPT ![e] = t[d]]

(* gererRedirection.  redirection is five bytes of the stack and no zero is*)
(* ever written after the operator: strcmp finds it or not as the next byte*)
(* has it.  When it does not, type and flags are what they were.  A blank  *)
(* at the end of argv[0] shifts the search: the operator is not found and  *)
(* the name is empty, which no open() accepts.                             *)
Reconnaitre(p) ==
    /\ pc[p] = "debut"
    /\ LET c == cmd[p] IN
       \/ /\ c.op = ""
          /\ pc' = [pc EXCEPT ![p] = "lit"]
          /\ UNCHANGED <<type, opt>>
       \/ /\ c.op # "" /\ ~c.blanc
          /\ pc' = [pc EXCEPT ![p] = "ouvre"]
          /\ type' = [type EXCEPT ![p] = c.op]
          /\ opt' = [opt EXCEPT ![p] = Choix(c.op)]
       \/ \E r \in Restes :
              /\ c.op # ""
              /\ opt' = [opt EXCEPT ![p] = r]
              /\ pc' = [pc EXCEPT ![p] = IF r.cas = "rien" THEN "lit"
                                         ELSE IF c.blanc THEN "echec" ELSE "ouvre"]
              /\ UNCHANGED type
    /\ UNCHANGED <<dossier, contenu, cmd, fds, id, ouvert, l, deplace, ecrits>>

(* open: the lowest free descriptor.  O_CREAT makes the file when it is not*)
(* there; of the recognised operators none says O_TRUNC.                   *)
Nouveau == Max(Noms) + 1 + Cardinality(DOMAIN contenu)

Open(p, o) ==
    LET nom == cmd[p].nom
        f == IF dossier[nom] = Absent THEN Nouveau ELSE dossier[nom]
    IN  /\ ~o.refus
        /\ dossier[nom] # Absent \/ o.creat
        /\ dossier' = [dossier EXCEPT ![nom] = f]
        /\ contenu' = [g \in DOMAIN contenu \cup {f} |->
                          IF g \in DOMAIN contenu /\ (o.tronque => g # f)
                          THEN contenu[g] ELSE <<>>]
        /\ id' = [id EXCEPT ![p] = Libre(fds[p])]
        /\ fds' = [fds EXCEPT ![p][Libre(fds[p])] = Fichier]
        /\ ouvert' = [ouvert EXCEPT ![p] = [f |-> f, pos |-> 0, append |-> o.append,
                                            droits |-> o.droits]]
        /\ pc' = [pc EXCEPT ![p] = "branche"]

\* Only the two first cases of the switch try again.
OpenEchoue(p, o) ==
    /\ o.refus \/ (dossier[cmd[p].nom] = Absent /\ ~o.creat)
    /\ pc' = [pc EXCEPT ![p] = IF o.cas = "entree" THEN "echec" ELSE "cree"]
    /\ UNCHANGED <<dossier, contenu, fds, id, ouvert>>

\* Mutant: O_APPEND is forgotten.
OuvrirMutant(p) ==
    /\ pc[p] = "ouvre"
    /\ Open(p, [opt[p] EXCEPT !.append = FALSE]) \/ OpenEchoue(p, opt[p])
    /\ UNCHANGED <<cmd, type, opt, l, deplace, ecrits>>

Ouvrir(p) ==
    /\ pc[p] = "ouvre"
    /\ Open(p, opt[p]) \/ OpenEchoue(p, opt[p])
    /\ UNCHANGED <<cmd, type, opt, l, deplace, ecrits>>

\* The second try, without O_APPEND: somebody may have made the file since.
Creer(p) ==
    /\ pc[p] = "cree"
    /\ Open(p, Second)
    /\ UNCHANGED <<cmd, type, opt, l, deplace, ecrits>>

\* Mutant: dup comes before close.
RemplacerMutant(t, sortie, d) == Close(Dup(t, d), sortie)

Remplacer(t, sortie, d) == Dup(Close(t, sortie), d)

(* gererSortieVersFichier, gererSortieStandardSortiErreurFichier,          *)
(* gererFichierEnEntree, with the file open.  sortie is 0 unless the       *)
(* operator was recognised.  The process fails where the descriptor to     *)
(* close is not open, or is the one to duplicate.                          *)
SortieDe(p) == IF type[p] = "" THEN {0} ELSE Sorties(type[p])

VersUn(p) ==
    \E sortie \in SortieDe(p) :
        /\ opt[p].cas = "un"
        /\ IF fds[p][sortie] = Ferme \/ id[p] = sortie
           THEN pc' = [pc EXCEPT ![p] = "echec"] /\ UNCHANGED fds
           ELSE /\ fds' = [fds EXCEPT ![p] = Remplacer(@, sortie, id[p])]
                /\ pc' = [pc EXCEPT ![p] = "lit"]

VersDeux(p) ==
    /\ opt[p].cas = "deux"
    /\ fds' = [fds EXCEPT ![p] = Dup2(Dup2(@, id[p], 1), id[p], 2)]
    /\ pc' = [pc EXCEPT ![p] = "lit"]

DepuisFichier(p) ==
    /\ opt[p].cas = "entree"
    /\ fds' = [fds EXCEPT ![p] = Dup2(@, id[p], 0)]
    /\ pc' = [pc EXCEPT ![p] = "lit"]

Brancher(p) ==
    /\ pc[p] = "branche"
    /\ VersUn(p) \/ VersDeux(p) \/ DepuisFichier(p)
    /\ l' = [l EXCEPT ![p] = @ \/ opt[p].cas = "entree"]
    /\ UNCHANGED <<dossier, contenu, cmd, type, opt, id, ouvert, deplace, ecrits>>

-----------------------------------------------------------------------------
(* lectureArgumentsDepuisFd, when there is an "l".                         *)
Entree(p) == fds[p][0]
EntreeFichier(p) == Entree(p) = Fichier /\ "lit" \in ouvert[p].droits
Texte(p) == contenu[ouvert[p].f]
DernierLu(p) == Texte(p)[ouvert[p].pos]

\* A blank line ends the input, unless it is the first.
Encore(p) == /\ EntreeFichier(p)
             /\ ouvert[p].pos < Len(Texte(p))
             /\ ouvert[p].pos > 0 => DernierLu(p)[2] # Blocs

LireBloc(p) ==
    /\ pc[p] = "lit" /\ l[p] /\ Encore(p)
    /\ ouvert' = [ouvert EXCEPT ![p].pos = @ + 1]
    /\ UNCHANGED <<dossier, contenu, cmd, pc, type, opt, fds, id, l, deplace, ecrits>>

(* The text is appended to `arguments`, a copy of main's pointer: a text of*)
(* some twenty characters makes realloc move the block.  Nothing is read   *)
(* from a closed descriptor or from a file open for writing only.          *)
ARempli(p) == CASE EntreeFichier(p) -> ouvert[p].pos > 0
                [] Entree(p) \in {Ferme, Fichier} -> FALSE
                [] OTHER -> TRUE

\* Mutant: an error of read is not the end, it is tried again.
FinLectureMutant(p) ==
    /\ pc[p] = "lit"
    /\ l[p] => ~Encore(p)
    /\ IF l[p] /\ ~EntreeFichier(p) /\ Entree(p) \in {Ferme, Fichier}
       THEN UNCHANGED pc ELSE pc' = [pc EXCEPT ![p] = "marche"]
    /\ UNCHANGED <<dossier, contenu, cmd, type, opt, fds, id, ouvert, l, deplace, ecrits>>

FinLecture(p) ==
    /\ pc[p] = "lit"
    /\ l[p] => ~Encore(p)
    /\ pc' = [pc EXCEPT ![p] = "marche"]
    /\ \E b \in {FALSE, l[p] /\ ARempli(p)} : deplace' = [deplace EXCEPT ![p] = b]
    /\ UNCHANGED <<dossier, contenu, cmd, type, opt, fds, id, ouvert, l, ecrits>>

-----------------------------------------------------------------------------
(* The output.                                                             *)
\* Mutant: at the end of the file whoever opened it.
PlaceMutant(p) == Len(Texte(p)) + 1

Place(p) == IF ouvert[p].append THEN Len(Texte(p)) + 1 ELSE ouvert[p].pos + 1

\* Where somebody cut the file shorter, a write leaves a hole before it.
Trou == <<Avant, 0>>

Write(p, d, bloc) ==
    IF fds[p][d] # Fichier \/ "ecrit" \notin ouvert[p].droits THEN UNCHANGED <<contenu, ouvert>>
    ELSE /\ contenu' = [contenu EXCEPT ![ouvert[p].f] =
                [k \in 1 .. Max({Len(@), Place(p)}) |->
                    IF k = Place(p) THEN bloc ELSE IF k \in DOMAIN @ THEN @[k] ELSE Trou]]
         /\ ouvert' = [ouvert EXCEPT ![p].pos = Place(p)]

\* A process that myps looks at goes away (see Myps): it stops with a message.
Echouer(p) ==
    /\ pc[p] = "marche" /\ ecrits[p] = 0
    /\ Write(p, 2, <<p, 0>>)
    /\ pc' = [pc EXCEPT ![p] = "echec"]
    /\ UNCHANGED <<dossier, cmd, type, opt, fds, id, l, deplace, ecrits>>

Ecrire(p) ==
    /\ pc[p] = "marche" /\ ecrits[p] < Blocs - 1
    /\ Write(p, 1, <<p, ecrits[p] + 1>>)
    /\ ecrits' = [ecrits EXCEPT ![p] = @ + 1]
    /\ UNCHANGED <<dossier, cmd, pc, type, opt, fds, id, l, deplace>>

(* main frees `arguments`: where the block was moved that is the end of the*)
(* process, and what its buffer still holds is lost; else exit prints it.  *)
Terminer(p) ==
    /\ pc[p] = "marche" /\ ecrits[p] = Blocs - 1
    /\ IF deplace[p]
       THEN /\ pc' = [pc EXCEPT ![p] = "avorte"]
            /\ UNCHANGED <<contenu, ouvert, ecrits>>
       ELSE /\ Write(p, 1, <<p, Blocs>>)
            /\ ecrits' = [ecrits EXCEPT ![p] = Blocs]
            /\ pc' = [pc EXCEPT ![p] = "fini"]
    /\ UNCHANGED <<dossier, cmd, type, opt, fds, id, l, deplace>>

Processus(p) ==
    \/ Reconnaitre(p) \/ Ouvrir(p) \/ Creer(p) \/ Brancher(p)
    \/ LireBloc(p) \/ FinLecture(p) \/ Echouer(p) \/ Ecrire(p) \/ Terminer(p)

Arrete(p) == pc[p] \in {"fini", "echec", "avorte"}

-----------------------------------------------------------------------------
Bloc == (Procs \cup {Avant}) \X (0 .. Blocs + 1)

\* Nobody may have cut the file.
Intact(f) == \A p \in Procs : ouvert[p].f = f => type[p] # ""

(* Types; the place in a file that nobody cut is within it.                *)
TypeRedir ==
    /\ dossier \in [Noms -> {Absent} \cup DOMAIN contenu]
    /\ \A f \in DOMAIN contenu : contenu[f] \in Seq(Bloc)
    /\ \A p \in Procs :
           /\ pc[p] \in {"debut", "ouvre", "cree", "branche", "lit", "marche",
                         "fini", "echec", "avorte"}
           /\ type[p] \in Operateurs \cup {""} /\ opt[p] \in Options
           /\ id[p] \in 0 .. 4
           /\ ouvert[p].f \in {Absent} \cup DOMAIN contenu
           /\ ouvert[p].pos \in Nat
           /\ ouvert[p].f # Absent /\ Intact(ouvert[p].f) => ouvert[p].pos <= Len(Texte(p))
           /\ ecrits[p] \in 0 .. Blocs

(* The descriptors of a process that the file replaces, and of the others: *)
(* 1 and 2 are as at the start; so is 0, unless it was closed, where open()*)
(* put the file.                                                           *)
BrancheSur(p, vers) ==
    /\ \A d \in {1, 2} : fds[p][d] = IF d \in vers THEN Fichier
                                     ELSE IF d = 1 THEN cmd[p].sortie ELSE "terminal"
    /\ 0 \in vers => Entree(p) = Fichier
    /\ 0 \notin vers /\ cmd[p].entree # Ferme => Entree(p) = cmd[p].entree

Demande(p) == IF cmd[p].op = Lecture THEN {0} ELSE Sorties(cmd[p].op)
Connecte(p) == pc[p] \in {"lit", "marche", "fini", "avorte"} /\ cmd[p].sortie # Ferme

(* Past the redirection, what the command asked for goes to the file and   *)
(* the rest where it went, even when 0 is closed, which is where open()    *)
(* then puts the file: only the descriptor closed last is free below it.   *)
(* An operator that was not recognised moved nothing, or 0, or both 1 and  *)
(* 2, whatever it was: never 1 alone, never 2 alone.  (When 0 and 1 are    *)
(* closed, in the middle of a pipeline that has no pipe, 2> takes 1.)      *)
BienBranche ==
    \A p \in Procs : Connecte(p) =>
        \/ BrancheSur(p, Demande(p))
        \/ /\ type[p] = "" /\ cmd[p].op # ""
           /\ \E vers \in {{}, {0}, {1, 2}} : BrancheSur(p, vers)

Imprime(p) == [k \in 1 .. ecrits[p] |-> <<p, k>>]
De(p, f) == {k \in 1 .. Len(contenu[f]) : contenu[f][k][1] = p /\ contenu[f][k][2] > 0}
Ecrivains(f) == {p \in Procs : ouvert[p].f = f /\ type[p] # Lecture}

(* Processes that all append to a file that was there lose nothing to each *)
(* other: the old content, and each output whole and in its order.         *)
EnOrdre(p, f) ==
    \A j, k \in De(p, f) : j < k => contenu[f][j][2] < contenu[f][k][2]
SansPerte(f) ==
    (\A p \in Ecrivains(f) : type[p] \in Ajoute) =>
        \A p \in Ecrivains(f) :
            pc[p] \in {"marche", "fini", "avorte"} /\ 1 \in Sorties(type[p]) =>
                /\ {contenu[f][k][2] : k \in De(p, f)} = 1 .. ecrits[p]
                /\ EnOrdre(p, f)
AjoutSansPerte ==
    \A f \in Noms \cap DOMAIN contenu :
        /\ SansPerte(f)
        /\ (\A p \in Ecrivains(f) : type[p] \in Ajoute) => IsPrefix(AncienContenu, contenu[f])

(* A process that is alone to write its file, and does not append, has its *)
(* whole output, in its order, at the head of it.                          *)
SeulEcrit ==
    \A p \in Procs : \A f \in {ouvert[p].f} \ {Absent} :
        Ecrivains(f) = {p} /\ pc[p] \in {"marche", "fini", "avorte"}
        /\ 1 \in Sorties(type[p]) /\ ~(type[p] \in Ajoute /\ f \in Noms) =>
            /\ IsPrefix(Imprime(p), contenu[f])
            /\ pc[p] = "fini" => ecrits[p] = Blocs

(* And, as the subject has it, an operator that erases leaves nothing else.*)
EffaceAncien ==
    \A p \in Procs : \A f \in {ouvert[p].f} \ {Absent} :
        Ecrivains(f) = {p} /\ pc[p] = "fini" /\ 1 \in Sorties(type[p])
        /\ type[p] \in Efface => contenu[f] = Imprime(p)
=============================================================================
