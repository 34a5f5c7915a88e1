-------------------------------- MODULE Myls ---------------------------------
(***************************************************************************)
(* myls: one walk of the directory in which other commands of the same line*)
(* make, write and remove files.                                           *)
(***************************************************************************)
EXTENDS Redirections

CONSTANTS
    Caches,       \* names that begin with a dot
    Retirables,   \* names that somebody else may remove
    MaxInt        \* the largest int

ASSUME MylsAssumption ==
    Caches \subseteq Noms /\ Retirables \subseteq Noms /\ MaxInt \in Nat

VARIABLES
    ou,           \* where myls is; "absent" when it is not run
    lot, place,   \* names the kernel gave and readdir did not, the last of them
    nom,          \* dir->d_name
    perm,         \* the file whose permissions were printed, or Absent
    rangs,        \* the rows: name, file of the permissions, file and size
    totalSize,
    stables, vus  \* history: <<name, file>> there since opendir, names seen since

ls == <<ou, lot, place, nom, perm, rangs, totalSize>>
varsLs == <<varsRedir, ls, stables, vus>>

Presents == {n \in Noms : dossier[n] # Absent}
Fichiers == {<<n, dossier[n]>> : n \in Presents}

Init == /\ RedirInit
        /\ ou \in {"debut", "absent"} /\ lot = {} /\ place = 0 /\ nom = 0 /\ perm = Absent
        /\ rangs = <<>> /\ totalSize = 0
        /\ stables = {} /\ vus = {}

Temoin == /\ stables' = stables \cap {<<n, dossier'[n]>> : n \in Noms}
          /\ vus' = IF ou \in {"debut", "absent"} THEN vus
                    ELSE vus \cup {n \in Noms : dossier'[n] # Absent}

Opendir ==
    /\ ou = "debut"
    /\ ou' = "readdir"
    /\ stables' = Fichiers /\ vus' = Presents
    /\ UNCHANGED <<varsRedir, lot, place, nom, perm, rangs, totalSize>>

\* The kernel gives some of the names that come next.
Suivants == {n \in Presents : n > place}

Getdents ==
    /\ ou = "readdir" /\ lot = {}
    /\ \E q \in Suivants :
           lot' = {n \in Suivants : n <= q} /\ place' = q
    /\ UNCHANGED <<varsRedir, ou, nom, perm, rangs, totalSize, stables, vus>>

Readdir ==
    /\ ou = "readdir" /\ lot # {}
    /\ nom' = Min(lot)
    /\ lot' = lot \ {nom'}
    /\ ou' = IF nom' \in Caches THEN "readdir" ELSE "permissions"
    /\ UNCHANGED <<varsRedir, place, perm, rangs, totalSize, stables, vus>>

\* Mutant: the text of the name before is kept.
PermissionsMutant ==
    /\ ou = "permissions"
    /\ perm' = IF perm = Absent THEN dossier[nom] ELSE perm
    /\ ou' = "stat"
    /\ UNCHANGED <<varsRedir, lot, place, nom, rangs, totalSize, stables, vus>>

\* permissions(), or the message of the error.
Permissions ==
    /\ ou = "permissions"
    /\ perm' = dossier[nom]
    /\ ou' = "stat"
    /\ UNCHANGED <<varsRedir, lot, place, nom, rangs, totalSize, stables, vus>>

\* totalSize is an int: the sum is cut to its width.
Entier(n) == ((n + MaxInt + 1) % (2 * (MaxInt + 1))) - (MaxInt + 1)

Rang(taille) == [nom |-> nom, perm |-> perm, f |-> dossier[nom], taille |-> taille]
Taille(f) == Len(contenu[f])

\* Mutant: st is added even if stat failed, and is that of the name before.
StatMutant ==
    /\ ou = "stat"
    /\ LET t == IF dossier[nom] # Absent THEN Taille(dossier[nom])
                ELSE IF rangs # <<>> THEN Last(rangs).taille ELSE 0
       IN  /\ rangs' = Append(rangs, Rang(IF dossier[nom] = Absent THEN 0 ELSE t))
           /\ totalSize' = Entier(totalSize + t)
    /\ ou' = "readdir"
    /\ UNCHANGED <<varsRedir, lot, place, nom, perm, stables, vus>>

Stat ==
    /\ ou = "stat"
    /\ IF dossier[nom] = Absent
       THEN rangs' = Append(rangs, Rang(0)) /\ UNCHANGED totalSize
       ELSE /\ rangs' = Append(rangs, Rang(Taille(dossier[nom])))
            /\ totalSize' = Entier(totalSize + Taille(dossier[nom]))
    /\ ou' = "readdir"
    /\ UNCHANGED <<varsRedir, lot, place, nom, perm, stables, vus>>

Closedir ==
    /\ ou = "readdir" /\ lot = {} /\ Suivants = {}
    /\ ou' = "fini"
    /\ UNCHANGED <<varsRedir, lot, place, nom, perm, rangs, totalSize, stables, vus>>

Ls == Opendir \/ Getdents \/ Readdir \/ Permissions \/ Stat \/ Closedir

-----------------------------------------------------------------------------
\* Somebody removes a file; a process that has it open keeps it.
Retirer(n) ==
    /\ dossier[n] # Absent
    /\ dossier' = [dossier EXCEPT ![n] = Absent]
    /\ Temoin
    /\ UNCHANGED <<contenu, cmd, processus, ls>>

Arret == ou \in {"fini", "absent"} /\ \A p \in Procs : Arrete(p)

Commande(p) == p \in Procs /\ Processus(p) /\ Temoin /\ UNCHANGED ls

Next == \/ \E p \in Procs : Commande(p)
        \/ Ls
        \/ ~Arret /\ \E n \in Retirables : Retirer(n)
        \/ Arret /\ UNCHANGED varsLs

Spec == Init /\ [][Next]_varsLs

\* The scheduler runs each process.
Equite == /\ WF_varsLs(Ls)
          /\ \A p \in UNION {DOMAIN c : c \in Commandes} : WF_varsLs(Commande(p))
FairSpec == Spec /\ Equite

-----------------------------------------------------------------------------
Rangs == 1 .. Len(rangs)
Listes == {rangs[k].nom : k \in Rangs}

\* The sum of the sizes in the rows.
Somme(r) == LET cumul[k \in 0 .. Len(r)] == IF k = 0 THEN 0 ELSE cumul[k - 1] + r[k].taille
            IN  cumul[Len(r)]

(* Types; myls prints one row at a time, and the total is the sum of their *)
(* sizes, if it fits an int.                                               *)
TypeOK ==
    /\ TypeRedir
    /\ ou \in {"absent", "debut", "readdir", "permissions", "stat", "fini"}
    /\ lot \subseteq Noms /\ place \in Noms \cup {0} /\ nom \in Noms \cup {0}
    /\ perm \in {Absent} \cup DOMAIN contenu
    /\ \A k \in Rangs : rangs[k].nom \in Noms /\ rangs[k].taille \in Nat
    /\ totalSize = Entier(Somme(rangs))

(* Whatever is made or removed meanwhile: a name that stays is listed, once*)
(* only, a hidden one never, nor one that was not there; and the row of a  *)
(* file that stays under its name is that of this file, in all its columns,*)
(* although they come from two calls.                                      *)
NomsListes ==
    /\ Listes \subseteq vus \ Caches
    /\ \A j, k \in Rangs : j < k => rangs[j].nom # rangs[k].nom
    /\ ou = "fini" => {x[1] : x \in stables} \ Caches \subseteq Listes
Colonnes ==
    \A k \in Rangs : \A x \in stables :
        rangs[k].nom = x[1] => rangs[k].perm = x[2] /\ rangs[k].f = x[2]
ListeFidele == NomsListes /\ Colonnes

(* Every process ends, and the listing too.                                *)
ToutFinit == <>Arret
=============================================================================
