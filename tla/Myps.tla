-------------------------------- MODULE Myps ---------------------------------
(***************************************************************************)
(* myps: one walk of /proc, main and getDetailsProcessus of myps.c, while  *)
(* the processes it lists are born, end and leave their pid to others.     *)
(*                                                                         *)
(* A value in the table is abstracted to where it comes from: n > 0 is the *)
(* nth process that had the pid, Vide an empty string or 0, Perime what an *)
(* uninitialised variable held.  A file of /proc is opened for the process *)
(* that has the pid then; each search of it starts with a fresh copy of    *)
(* its text, and fails once that process is gone.                          *)
(***************************************************************************)
EXTENDS Integers, Sequences, FiniteSets

CONSTANTS
    MaxPid,   \* pids are 1 .. MaxPid
    MaxInc,   \* processes that have the same pid in turn, at most
    Genres    \* kinds of processes

(* "noyau" has no memory of its own, "blanc" a name with a blank in it,    *)
(* "inconnu" an owner without an entry in the password file.               *)
ASSUME MypsAssumption ==
    /\ MaxPid \in Nat /\ MaxInc \in Nat \ {0}
    /\ "simple" \in Genres
    /\ Genres \subseteq {"simple", "noyau", "blanc", "inconnu"}

Pids == 1 .. MaxPid
Autre == 0               \* an entry of /proc whose name is not a number
Vide == 0
Perime == -1
Champs == <<"Uid:", "Name:", "State:", "VmSize:", "VmRSS:">>
Colonnes == {"Uid:", "Name:", "State:", "VmSize:", "VmRSS:", "stat"}

VARIABLES
    etat, inc, genre,       \* the processes: state, how many so far, kind
    pc,                     \* where myps is
    pos, lot,               \* opendir's stream: position, names not read yet
    nom,                    \* directory->d_name
    fdStatus, fdStat,       \* for which process of the pid; 0 when closed
    champ,                  \* the next of Champs to look for
    ligne,                  \* the values found so far
    listProcData,           \* the table
    stables, vues, disparu  \* history, see below

processus == <<etat, inc, genre, stables, vues, disparu>>
flux == <<pos, lot>>
details == <<nom, fdStatus, fdStat, champ, ligne>>
vars == <<processus, pc, flux, details, listProcData>>

Presents == {p \in Pids : etat[p] # "absent"}
Lisible(n) == etat[nom] # "absent" /\ inc[nom] = n

Init == /\ etat \in [Pids -> {"absent", "vivant"}]
        /\ inc = [p \in Pids |-> IF etat[p] = "vivant" THEN 1 ELSE 0]
        /\ genre \in [Pids -> Genres]
        /\ \A p \in Pids : etat[p] = "absent" => genre[p] = "simple"
        /\ pc = "debut" /\ pos = Autre /\ lot = <<>>
        /\ nom = 1 /\ fdStatus = 0 /\ fdStat = 0 /\ champ = 1
        /\ ligne = [c \in Colonnes |-> Vide]
        /\ listProcData = <<>>
        /\ stables = {} /\ vues = {} /\ disparu = FALSE

-----------------------------------------------------------------------------
(* The processes.  History: `stables` are those there since opendir, `vues`*)
(* those that were there at some time since, `disparu` whether one is gone.*)
Ouvert == pc # "debut"

Naitre(p) ==
    /\ etat[p] = "absent" /\ inc[p] < MaxInc
    /\ etat' = [etat EXCEPT ![p] = "vivant"]
    /\ inc' = [inc EXCEPT ![p] = @ + 1]
    /\ \E g \in Genres : genre' = [genre EXCEPT ![p] = g]
    /\ vues' = IF Ouvert THEN vues \cup {<<p, inc[p] + 1>>} ELSE vues
    /\ UNCHANGED <<stables, disparu, pc, flux, details, listProcData>>

Mourir(p) ==
    /\ etat[p] = "vivant"
    /\ etat' = [etat EXCEPT ![p] = "zombie"]
    /\ UNCHANGED <<inc, genre, stables, vues, disparu, pc, flux, details,
                   listProcData>>

Disparaitre(p) ==
    /\ etat[p] = "zombie"
    /\ etat' = [etat EXCEPT ![p] = "absent"]
    /\ stables' = stables \ {<<p, inc[p]>>}
    /\ genre' = [genre EXCEPT ![p] = "simple"]
    /\ disparu' = Ouvert
    /\ UNCHANGED <<inc, vues, pc, flux, details, listProcData>>

-----------------------------------------------------------------------------
(* main                                                                    *)
Opendir ==
    /\ pc = "debut"
    /\ pc' = "getdents"
    /\ stables' = {<<p, inc[p]>> : p \in Presents}
    /\ vues' = stables'
    /\ UNCHANGED <<etat, inc, genre, disparu, flux, details, listProcData>>

(* readdir serves from a buffer that the kernel fills when it is empty: the*)
(* other entries, then each process present, in the order of the pids.     *)
Suivants == {p \in Presents \cup {Autre} : p >= pos}

Remplir(p) ==
    /\ pc = "getdents"
    /\ p \in Suivants /\ \A q \in Suivants : p <= q
    /\ lot' = Append(lot, p) /\ pos' = p + 1
    /\ UNCHANGED <<processus, pc, details, listProcData>>

Rendre ==
    /\ pc = "getdents" /\ lot # <<>>
    /\ pc' = "readdir"
    /\ UNCHANGED <<processus, flux, details, listProcData>>

FinDir ==
    /\ pc = "getdents" /\ lot = <<>> /\ Suivants = {}
    /\ pc' = "affiche"
    /\ UNCHANGED <<processus, flux, details, listProcData>>

\* Mutant: every entry is taken for a process.
EstNombreMutant(entree) == TRUE

EstNombre(entree) == entree # Autre

Readdir ==
    /\ pc = "readdir"
    /\ \/ lot = <<>> /\ pc' = "getdents" /\ UNCHANGED <<nom, lot>>
       \/ /\ lot # <<>> /\ lot' = Tail(lot)
          /\ IF EstNombre(Head(lot))
             THEN pc' = "ouvreStatus" /\ nom' = Head(lot)
             ELSE UNCHANGED <<pc, nom>>
    /\ UNCHANGED <<processus, pos, fdStatus, fdStat, champ, ligne, listProcData>>

Afficher ==
    /\ pc = "affiche"
    /\ pc' = "fini"
    /\ UNCHANGED <<processus, flux, details, listProcData>>

-----------------------------------------------------------------------------
(* getDetailsProcessus.  An open that fails ends myps with FILE_FAILED_OPEN*)
(* before it has printed anything.                                         *)
OuvrirStatus ==
    /\ pc = "ouvreStatus"
    /\ IF nom \in Presents
       THEN pc' = "ouvreStat" /\ fdStatus' = inc[nom]
       ELSE pc' = "echec" /\ UNCHANGED fdStatus
    /\ champ' = 1
    /\ ligne' = [c \in Colonnes |-> Vide]
    /\ UNCHANGED <<processus, flux, nom, fdStat, listProcData>>

OuvrirStat ==
    /\ pc = "ouvreStat"
    /\ IF nom \in Presents
       THEN pc' = "cherche" /\ fdStat' = inc[nom]
       ELSE pc' = "echec" /\ UNCHANGED fdStat
    /\ UNCHANGED <<processus, flux, nom, fdStatus, champ, ligne, listProcData>>

(* searchInFile: the value, or an empty string when no line has the prefix *)
(* or nothing can be read.  A zombie has no memory left.                   *)
ContientLigne(c) == c \in {"VmSize:", "VmRSS:"} =>
                        etat[nom] = "vivant" /\ genre[nom] # "noyau"

\* Mutant: the file is not rewound after a search; Uid comes after these two.
SearchInFileMutant(c) ==
    IF Lisible(fdStatus) /\ ContientLigne(c) /\ c \notin {"Name:", "State:"}
    THEN fdStatus ELSE Vide

SearchInFile(c) ==
    IF Lisible(fdStatus) /\ ContientLigne(c) THEN fdStatus ELSE Vide

\* getUID leaves its variable alone when the line is empty; getUserName
\* follows the null pointer that an unknown owner gives.
ChercherUid ==
    /\ pc = "cherche" /\ champ = 1
    /\ \/ /\ SearchInFile("Uid:") # Vide
          /\ IF genre[nom] = "inconnu"
             THEN pc' = "plante" /\ UNCHANGED <<champ, ligne>>
             ELSE /\ ligne' = [ligne EXCEPT !["Uid:"] = fdStatus]
                  /\ champ' = 2
                  /\ UNCHANGED pc
       \/ /\ SearchInFile("Uid:") = Vide
          /\ \/ pc' = "plante" /\ UNCHANGED <<champ, ligne>>
             \/ /\ ligne' = [ligne EXCEPT !["Uid:"] = Perime]
                /\ champ' = 2
                /\ UNCHANGED pc
    /\ UNCHANGED <<processus, flux, nom, fdStatus, fdStat, listProcData>>

\* Mutant: the search goes on at the end of the file.
ChercherMutant ==
    /\ pc = "cherche" /\ champ \in 2 .. Len(Champs)
    /\ IF SearchInFile(Champs[champ]) # Vide
       THEN /\ ligne' = [ligne EXCEPT ![Champs[champ]] = fdStatus]
            /\ champ' = champ + 1
       ELSE UNCHANGED <<ligne, champ>>
    /\ UNCHANGED <<processus, pc, flux, nom, fdStatus, fdStat, listProcData>>

Chercher ==
    /\ pc = "cherche" /\ champ \in 2 .. Len(Champs)
    /\ ligne' = [ligne EXCEPT ![Champs[champ]] = SearchInFile(Champs[champ])]
    /\ champ' = champ + 1
    /\ UNCHANGED <<processus, pc, flux, nom, fdStatus, fdStat, listProcData>>

(* getStatDesc, on a line that sscanf cannot follow when the name holds a  *)
(* blank; then the files are closed and the row is stored.                 *)
\* Mutant: the file is opened when it is read.
StatDescMutant ==
    IF nom \in Presents /\ genre[nom] # "blanc" THEN inc[nom] ELSE Perime

StatDesc == IF Lisible(fdStat) /\ genre[nom] # "blanc" THEN fdStat ELSE Perime

(* setProcDatas copies what was found into the row.                        *)
ProcDatas == [pid |-> nom, val |-> [ligne EXCEPT !["stat"] = StatDesc]]

\* Mutant: the second file stays open.
RangerMutant ==
    /\ pc = "cherche" /\ champ > Len(Champs)
    /\ listProcData' = Append(listProcData, ProcDatas)
    /\ fdStatus' = 0
    /\ pc' = "readdir"
    /\ UNCHANGED <<processus, flux, nom, fdStat, champ, ligne>>

\* Mutant: nbProcData is not incremented.
RangerSansCompter ==
    /\ pc = "cherche" /\ champ > Len(Champs)
    /\ listProcData' = <<ProcDatas>>
    /\ fdStatus' = 0 /\ fdStat' = 0
    /\ pc' = "readdir"
    /\ UNCHANGED <<processus, flux, nom, champ, ligne>>

Ranger ==
    /\ pc = "cherche" /\ champ > Len(Champs)
    /\ listProcData' = Append(listProcData, ProcDatas)
    /\ fdStatus' = 0 /\ fdStat' = 0
    /\ pc' = "readdir"
    /\ UNCHANGED <<processus, flux, nom, champ, ligne>>

Fin == pc \in {"fini", "echec", "plante"}

Ps == \/ Opendir \/ Rendre \/ FinDir \/ Readdir \/ Afficher
      \/ \E p \in Pids \cup {Autre} : Remplir(p)
      \/ OuvrirStatus \/ OuvrirStat \/ ChercherUid \/ Chercher \/ Ranger
Monde == \E p \in Pids : Naitre(p) \/ Mourir(p) \/ Disparaitre(p)

Next == \/ Ps
        \/ ~Fin /\ Monde
        \/ Fin /\ UNCHANGED vars

Spec == Init /\ [][Next]_vars

\* The scheduler runs myps.
FairSpec == Spec /\ WF_vars(Ps)

-----------------------------------------------------------------------------
Sources == {Vide, Perime} \cup 1 .. MaxInc
TypeLigne == [Colonnes -> Sources]

(* Types; the files of a process are open only while it is looked at.      *)
TypeOK ==
    /\ etat \in [Pids -> {"absent", "vivant", "zombie"}]
    /\ inc \in [Pids -> 0 .. MaxInc] /\ genre \in [Pids -> Genres]
    /\ pc \in {"debut", "getdents", "readdir", "ouvreStatus", "ouvreStat",
              "cherche", "affiche", "fini", "echec", "plante"}
    /\ pos \in 0 .. MaxPid + 1 /\ lot \in Seq(Pids \cup {Autre})
    /\ nom \in Nat /\ champ \in 1 .. Len(Champs) + 1
    /\ fdStatus \in 0 .. MaxInc /\ fdStat \in 0 .. MaxInc
    /\ pc \in {"debut", "getdents", "readdir", "affiche"} =>
           fdStatus = 0 /\ fdStat = 0
    /\ ligne \in TypeLigne
    /\ listProcData \in Seq([pid : Pids, val : TypeLigne])
    /\ stables \subseteq Pids \X (0 .. MaxInc)
    /\ vues \subseteq Pids \X (0 .. MaxInc)
    /\ disparu \in BOOLEAN

Lignes == 1 .. Len(listProcData)
PidsListes == {listProcData[i].pid : i \in Lignes}

(* The walk is not a snapshot, but almost: a process that was there from   *)
(* opendir to the end is listed, one that was never there is not, and no   *)
(* pid is listed twice, whatever ends or begins in between.                *)
ListeComplete ==
    pc \in {"affiche", "fini"} =>
        /\ {x[1] : x \in stables} \subseteq PidsListes
        /\ PidsListes \subseteq {x[1] : x \in vues}
        /\ \A i, j \in Lignes : i < j => listProcData[i].pid < listProcData[j].pid

(* No row mixes two processes that had the same pid: both files are open   *)
(* before the first is read, so that when the second belongs to a later    *)
(* process nothing can be read from the first any more.                    *)
Pure(v) == \A c, d \in Colonnes : v[c] > 0 /\ v[d] > 0 => v[c] = v[d]
UnSeulProcessus == \A i \in Lignes : Pure(listProcData[i].val)

(* The row of a process that has been alive all along is its own, but for  *)
(* the values of stat when its name holds a blank: they are another's.     *)
Attendu(p) == [c \in Colonnes |->
                 IF c \in {"VmSize:", "VmRSS:"} /\ genre[p] = "noyau" THEN Vide
                 ELSE IF c = "stat" /\ genre[p] = "blanc" THEN Perime ELSE inc[p]]
LigneFidele ==
    \A i \in Lignes :
        LET p == listProcData[i].pid IN
        <<p, inc[p]>> \in stables /\ etat[p] = "vivant" =>
            listProcData[i].val = Attendu(p)

(* myps gives up only because a process went away under it, and follows a  *)
(* null pointer only then or for an owner that has no name.                *)
EchecJustifie ==
    /\ pc = "echec" => disparu
    /\ pc = "plante" /\ ~disparu =>
           \E p \in Presents : genre[p] = "inconnu"

(* The walk ends, although processes come and go under it.                 *)
Termine == <>Fin
=============================================================================
