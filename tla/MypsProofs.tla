----------------------------- MODULE MypsProofs ------------------------------
(***************************************************************************)
(* Theorems about myps for every number of pids, of processes that have    *)
(* the same pid in turn and every set of kinds of processes.               *)
(***************************************************************************)
EXTENDS Myps, SequenceTheorems, TLAPS

Dedans == pc \in {"ouvreStatus", "ouvreStat", "cherche"}

(* What TypeOK needs to be inductive: the pid looked at is a pid.          *)
Typage == TypeOK /\ (Dedans => nom \in Pids)

(* The part of the state that only the processes change.                   *)
TypeMonde ==
    /\ etat \in [Pids -> {"absent", "vivant", "zombie"}]
    /\ inc \in [Pids -> 0 .. MaxInc] /\ genre \in [Pids -> Genres]
    /\ stables \subseteq Pids \X (0 .. MaxInc)
    /\ vues \subseteq Pids \X (0 .. MaxInc)
    /\ disparu \in BOOLEAN

LEMMA Constantes ==
  /\ MaxPid \in Nat /\ MaxInc \in Nat /\ 1 <= MaxInc /\ "simple" \in Genres
  /\ Len(Champs) = 5
  /\ \A c \in 1 .. 5 : Champs[c] \in Colonnes
  BY MypsAssumption DEF Champs, Colonnes

LEMMA InitTypage == Init => Typage
<1> SUFFICES ASSUME Init PROVE Typage
  OBVIOUS
<1>1. TypeMonde
  <2>1. etat \in [Pids -> {"absent", "vivant", "zombie"}] /\ genre \in [Pids -> Genres]
    BY DEF Init
  <2>2. inc \in [Pids -> 0 .. MaxInc]
    BY Constantes DEF Init
  <2> QED
    BY <2>1, <2>2 DEF Init, TypeMonde
<1>2. lot \in Seq(Pids \cup {Autre}) /\ listProcData \in Seq([pid : Pids, val : TypeLigne])
  BY DEF Init
<1>3. ligne \in TypeLigne
  BY DEF Init, TypeLigne, Sources
<1> QED
  BY <1>1, <1>2, <1>3, Constantes
  DEF Init, Typage, TypeOK, TypeMonde, Dedans, Autre

(* The values that can go into a row.                                      *)
LEMMA Valeurs ==
  ASSUME TypeOK
  PROVE  /\ Vide \in Sources /\ Perime \in Sources
         /\ fdStatus \in Sources
         /\ \A c \in Colonnes : SearchInFile(c) \in Sources
         /\ StatDesc \in Sources
  BY Constantes DEF TypeOK, Sources, Vide, Perime, SearchInFile, StatDesc

LEMMA RangeType ==
  ASSUME Typage, Ranger
  PROVE  ProcDatas \in [pid : Pids, val : TypeLigne]
  BY Valeurs DEF Ranger, ProcDatas, Typage, TypeOK, Dedans, TypeLigne

LEMMA MondeTypage ==
  ASSUME Typage, Monde
  PROVE  Typage'
<1> PICK p \in Pids : Naitre(p) \/ Mourir(p) \/ Disparaitre(p)
  BY DEF Monde
<1>1. TypeMonde /\ inc[p] \in 0 .. MaxInc
  BY DEF Typage, TypeOK, TypeMonde
<1>2. TypeMonde'
  <2>1. CASE Naitre(p)
    BY <1>1, <2>1, Constantes DEF Naitre, TypeMonde
  <2>2. CASE Mourir(p)
    BY <1>1, <2>2 DEF Mourir, TypeMonde
  <2>3. CASE Disparaitre(p)
    BY <1>1, <2>3, Constantes DEF Disparaitre, TypeMonde, Ouvert
  <2> QED
    BY <2>1, <2>2, <2>3
<1>3. UNCHANGED <<pc, flux, details, listProcData>>
  BY DEF Naitre, Mourir, Disparaitre
<1> QED
  BY <1>2, <1>3 DEF Typage, TypeOK, TypeMonde, Dedans, flux, details

LEMMA PsTypage ==
  ASSUME Typage, Ps
  PROVE  Typage'
<1> USE Constantes DEF Typage, Dedans
<1>1. CASE Opendir
  <2>1. stables' \subseteq Pids \X (0 .. MaxInc)
    BY <1>1 DEF Opendir, TypeOK, Presents
  <2> QED
    BY <1>1, <2>1 DEF Opendir, TypeOK, flux, details
<1>2. ASSUME NEW p \in Pids \cup {Autre}, Remplir(p)
      PROVE  Typage'
  <2>1. lot' \in Seq(Pids \cup {Autre})
    BY <1>2, AppendProperties DEF Remplir, TypeOK
  <2>2. pos' \in 0 .. MaxPid + 1
    BY <1>2 DEF Remplir, Pids, Autre
  <2> QED
    BY <1>2, <2>1, <2>2 DEF Remplir, TypeOK, processus, details
<1>3. CASE Rendre
  BY <1>3 DEF Rendre, TypeOK, processus, flux, details
<1>4. CASE FinDir
  BY <1>4 DEF FinDir, TypeOK, processus, flux, details
<1>5. CASE Readdir
  <2>1. CASE lot = <<>>
    BY <1>5, <2>1 DEF Readdir, TypeOK, processus
  <2>2. CASE lot # <<>>
    <3>1. Tail(lot) \in Seq(Pids \cup {Autre}) /\ Head(lot) \in Pids \cup {Autre}
      BY <2>2, HeadTailProperties DEF TypeOK
    <3>2. EstNombre(Head(lot)) => Head(lot) \in Pids /\ Head(lot) \in Nat
      BY <3>1 DEF EstNombre, Pids
    <3> QED
      BY <1>5, <2>2, <3>1, <3>2 DEF Readdir, TypeOK, processus
  <2> QED
    BY <2>1, <2>2
<1>6. CASE Afficher
  BY <1>6 DEF Afficher, TypeOK, processus, flux, details
<1>7. CASE OuvrirStatus
  <2>1. ligne' \in TypeLigne
    BY <1>7, Valeurs DEF OuvrirStatus, TypeLigne
  <2>2. fdStatus' \in 0 .. MaxInc
    BY <1>7 DEF OuvrirStatus, TypeOK
  <2> QED
    BY <1>7, <2>1, <2>2 DEF OuvrirStatus, TypeOK, processus, flux
<1>8. CASE OuvrirStat
  <2>1. fdStat' \in 0 .. MaxInc
    BY <1>8 DEF OuvrirStat, TypeOK
  <2> QED
    BY <1>8, <2>1 DEF OuvrirStat, TypeOK, processus, flux
<1>9. CASE ChercherUid
  <2>1. ligne' \in TypeLigne
    BY <1>9, Valeurs DEF ChercherUid, TypeLigne, TypeOK
  <2> QED
    BY <1>9, <2>1 DEF ChercherUid, TypeOK, processus, flux
<1>10. CASE Chercher
  <2>1. ligne' \in TypeLigne
    BY <1>10, Valeurs DEF Chercher, TypeLigne, TypeOK
  <2> QED
    BY <1>10, <2>1 DEF Chercher, TypeOK, processus, flux
<1>11. CASE Ranger
  <2>1. ProcDatas \in [pid : Pids, val : TypeLigne]
    BY <1>11, RangeType
  <2>2. listProcData' \in Seq([pid : Pids, val : TypeLigne])
    BY <1>11, <2>1, AppendProperties DEF Ranger, TypeOK
  <2> QED
    BY <1>11, <2>2 DEF Ranger, TypeOK, processus, flux
<1> QED
  BY <1>1, <1>2, <1>3, <1>4, <1>5, <1>6, <1>7, <1>8, <1>9, <1>10, <1>11 DEF Ps

LEMMA PasTypage == Typage /\ [Next]_vars => Typage'
<1> SUFFICES ASSUME Typage, [Next]_vars PROVE Typage'
  OBVIOUS
<1>1. CASE UNCHANGED vars
  BY <1>1 DEF vars, processus, flux, details, Typage, TypeOK, Dedans
<1> QED
  BY <1>1, MondeTypage, PsTypage DEF Next

(* myps keeps its types and has no file open between two processes, for    *)
(* any processes that come and go.                                         *)
THEOREM Types == Spec => []TypeOK
<1>1. Typage => TypeOK
  BY DEF Typage
<1> QED
  BY <1>1, InitTypage, PasTypage, PTL DEF Spec

-----------------------------------------------------------------------------
(* Why no row mixes two processes.  The pid passes on in one direction     *)
(* only; status is open before stat, so that it belongs to the same        *)
(* process or to an earlier one.  If something is read from status while   *)
(* both are open, its process still has the pid: stat is its own too.      *)
Lectures ==
    /\ pc = "ouvreStat" =>
           fdStatus <= inc[nom] /\ \A c \in Colonnes : ligne[c] = Vide
    /\ pc = "cherche" =>
           /\ fdStatus <= fdStat /\ fdStat <= inc[nom]
           /\ \A c \in Colonnes : ligne[c] \in {Vide, Perime, fdStatus}
           /\ \A c \in Colonnes : ligne[c] > 0 => fdStat = fdStatus

IInv == Typage /\ Lectures /\ UnSeulProcessus

LEMMA InitIInv == Init => IInv
<1> SUFFICES ASSUME Init PROVE Lectures /\ UnSeulProcessus
  BY InitTypage DEF IInv
<1> QED
  BY DEF Init, Lectures, UnSeulProcessus, Lignes

LEMMA MondeLectures ==
  ASSUME Typage, Lectures, Monde
  PROVE  Lectures'
<1> PICK p \in Pids : Naitre(p) \/ Mourir(p) \/ Disparaitre(p)
  BY DEF Monde
<1>1. UNCHANGED <<pc, nom, fdStatus, fdStat, ligne>>
  BY DEF Naitre, Mourir, Disparaitre, details
<1>2. \A q \in Pids : inc[q] <= inc'[q] /\ inc[q] \in Int /\ inc'[q] \in Int
  <2>1. \A q \in Pids : inc[q] \in 0 .. MaxInc
    BY DEF Typage, TypeOK
  <2> QED
    BY <2>1, Constantes DEF Naitre, Mourir, Disparaitre, Typage, TypeOK
<1>3. fdStatus \in Int /\ fdStat \in Int
  BY DEF Typage, TypeOK
<1> QED
  BY <1>1, <1>2, <1>3 DEF Lectures, Typage, Dedans

(* A value read from status while both files are open.                     *)
LEMMA Lecture ==
  ASSUME Typage, Lectures, pc = "cherche", NEW c \in Colonnes
  PROVE  /\ SearchInFile(c) \in {Vide, fdStatus}
         /\ SearchInFile(c) > 0 => fdStat = fdStatus
<1>1. fdStatus <= fdStat /\ fdStat <= inc[nom] /\ nom \in Pids
  BY DEF Typage, Lectures, Dedans
<1>2. fdStatus \in Int /\ fdStat \in Int /\ inc[nom] \in Int
  BY <1>1 DEF Typage, TypeOK
<1> QED
  BY <1>1, <1>2 DEF SearchInFile, Lisible, Vide

LEMMA PsLectures ==
  ASSUME Typage, Lectures, Ps
  PROVE  Lectures'
<1>1. CASE OuvrirStatus
  <2>1. \A p \in Pids : inc[p] \in Int
    BY DEF Typage, TypeOK
  <2>2. ligne' = [c \in Colonnes |-> Vide] /\ inc' = inc /\ nom' = nom
    BY <1>1 DEF OuvrirStatus, processus
  <2>3. \/ pc' = "ouvreStat" /\ fdStatus' = inc[nom] /\ nom \in Pids
        \/ pc' = "echec"
    BY <1>1 DEF OuvrirStatus, Presents
  <2> QED
    BY <2>1, <2>2, <2>3 DEF Lectures
<1>2. CASE OuvrirStat
  <2>1. inc[nom] \in Int
    BY <1>2 DEF Typage, TypeOK, Dedans, OuvrirStat
  <2>2. fdStatus <= inc[nom] /\ \A c \in Colonnes : ligne[c] = Vide
    BY <1>2 DEF Lectures, OuvrirStat
  <2>3. (pc' = "cherche" /\ fdStat' = inc[nom]) \/ pc' = "echec"
    BY <1>2 DEF OuvrirStat
  <2>4. inc' = inc /\ nom' = nom /\ fdStatus' = fdStatus /\ ligne' = ligne
    BY <1>2 DEF OuvrirStat, processus
  <2> QED
    BY <2>1, <2>2, <2>3, <2>4 DEF Lectures, Vide
<1>3. CASE ChercherUid \/ Chercher
  <2>1. UNCHANGED <<inc, nom, fdStatus, fdStat>> /\ pc = "cherche"
    BY <1>3 DEF ChercherUid, Chercher, processus
  <2>2. pc' \in {"cherche", "plante"}
    BY <1>3 DEF ChercherUid, Chercher
  <2>3. \A c \in Colonnes :
            ligne'[c] = ligne[c] \/ ligne'[c] = Perime \/ ligne'[c] = SearchInFile(c)
    <3>1. ligne \in TypeLigne
      BY DEF Typage, TypeOK
    <3>2. CASE ChercherUid
      BY <3>1, <3>2 DEF ChercherUid, SearchInFile, TypeLigne
    <3>3. CASE Chercher
      BY <3>1, <3>3 DEF Chercher, TypeLigne
    <3> QED
      BY <1>3, <3>2, <3>3
  <2> QED
    BY <2>1, <2>2, <2>3, Lecture DEF Lectures, Perime, Vide
<1>4. CASE ~(OuvrirStatus \/ OuvrirStat \/ ChercherUid \/ Chercher)
  <2>1. pc' \notin {"ouvreStat", "cherche"}
    BY <1>4 DEF Ps, Opendir, Remplir, Rendre, FinDir, Readdir, Afficher, Ranger
  <2> QED
    BY <2>1 DEF Lectures
<1> QED
  BY <1>1, <1>2, <1>3, <1>4

(* The row that is added is of one process.                                *)
LEMMA RangePur ==
  ASSUME Typage, Lectures, Ranger
  PROVE  Pure(ProcDatas.val)
<1>1. pc = "cherche" /\ ligne \in TypeLigne
  BY DEF Ranger, Typage, TypeOK
<1>2. StatDesc \in {Perime, fdStat}
  BY DEF StatDesc
<1>3. \A c \in Colonnes : ProcDatas.val[c] = ligne[c] \/ ProcDatas.val[c] = StatDesc
  BY <1>1 DEF ProcDatas, TypeLigne
<1> QED
  BY <1>1, <1>2, <1>3 DEF Pure, Lectures, Vide, Perime

LEMMA PasIInv == IInv /\ [Next]_vars => IInv'
<1> SUFFICES ASSUME IInv, [Next]_vars PROVE IInv'
  OBVIOUS
<1>1. Typage'
  BY PasTypage DEF IInv
<1>2. Lectures'
  <2>1. CASE UNCHANGED vars
    BY <2>1 DEF vars, processus, details, IInv, Lectures
  <2> QED
    BY <2>1, MondeLectures, PsLectures DEF Next, IInv
<1>3. UnSeulProcessus'
  <2>1. CASE Ranger
    <3>1. listProcData \in Seq([pid : Pids, val : TypeLigne])
      BY DEF IInv, Typage, TypeOK
    <3>2. Pure(ProcDatas.val)
      BY <2>1, RangePur DEF IInv
    <3>3. listProcData' = Append(listProcData, ProcDatas)
      BY <2>1 DEF Ranger
    <3>4. ProcDatas \in [pid : Pids, val : TypeLigne]
      BY <2>1, RangeType DEF IInv
    <3>5. \A k \in Lignes' : \/ listProcData'[k] = ProcDatas
                             \/ k \in Lignes /\ listProcData'[k] = listProcData[k]
      BY <3>1, <3>3, <3>4, AppendProperties DEF Lignes
    <3> QED
      BY <3>2, <3>5 DEF IInv, UnSeulProcessus, Pure
  <2>2. CASE ~Ranger
    <3>1. UNCHANGED listProcData
      BY <2>2 DEF Next, Ps, Monde, vars, Naitre, Mourir, Disparaitre, Opendir, Remplir,
                  Rendre, FinDir, Readdir, Afficher, OuvrirStatus, OuvrirStat,
                  ChercherUid, Chercher
    <3> QED
      BY <3>1 DEF IInv, UnSeulProcessus, Lignes, Pure
  <2> QED
    BY <2>1, <2>2
<1> QED
  BY <1>1, <1>2, <1>3 DEF IInv

(* No row of the table mixes two processes that had the same pid.          *)
THEOREM LignesPures == Spec => []UnSeulProcessus
<1>1. IInv => UnSeulProcessus
  BY DEF IInv
<1> QED
  BY <1>1, InitIInv, PasIInv, PTL DEF Spec

-----------------------------------------------------------------------------
(* Why the list is complete, sorted and without strangers: what has been   *)
(* listed, the process looked at, the names not read yet and what the      *)
(* stream has still to give are, in this order, increasing pids.           *)
EnLot == {lot[k] : k \in 1 .. Len(lot)}
PidsVus == {x[1] : x \in vues}

Croissant(s) == \A j, k \in 1 .. Len(s) : j < k => s[j] < s[k]
Tries == \A j, k \in Lignes : j < k => listProcData[j].pid < listProcData[k].pid

Depart == pc = "debut" => pos = Autre /\ lot = <<>> /\ listProcData = <<>>

Ordre ==
    /\ Croissant(lot) /\ Tries
    /\ \A q \in EnLot : q < pos
    /\ \A q \in PidsListes : q < pos /\ \A r \in EnLot : q < r
    /\ Dedans => /\ nom < pos
                 /\ \A r \in EnLot : nom < r
                 /\ \A q \in PidsListes : q < nom

Connus ==
    /\ Ouvert => Presents \subseteq PidsVus
    /\ EnLot \subseteq PidsVus \cup {Autre} /\ PidsListes \subseteq PidsVus
    /\ Dedans => nom \in PidsVus

AVenir(p) == p >= pos \/ p \in EnLot \/ (Dedans /\ nom = p)

Stables ==
    \A x \in stables :
        /\ x[1] \in Presents /\ x[2] = inc[x[1]]
        /\ pc \notin {"echec", "plante"} =>
               \/ x[1] \in PidsListes
               \/ pc \notin {"affiche", "fini"} /\ AVenir(x[1])

Marche == Typage /\ Depart /\ Ordre /\ Connus /\ Stables

LEMMA LotAugmente ==
  ASSUME NEW s \in Seq(Int), NEW e \in Int
  PROVE  LET t == Append(s, e) IN
         /\ {t[k] : k \in 1 .. Len(t)} = {s[k] : k \in 1 .. Len(s)} \cup {e}
         /\ Croissant(s) /\ (\A k \in 1 .. Len(s) : s[k] < e) => Croissant(t)
<1> DEFINE t == Append(s, e)
<1>1. /\ Len(t) = Len(s) + 1 /\ Len(s) \in Nat
      /\ \A k \in 1 .. Len(s) : t[k] = s[k]
      /\ t[Len(s) + 1] = e
  BY AppendProperties, LenProperties
<1> HIDE DEF t
<1> QED
  BY <1>1 DEF Croissant, t

LEMMA LotDiminue ==
  ASSUME NEW s \in Seq(Int), s # <<>>
  PROVE  LET t == Tail(s) IN
         /\ {s[k] : k \in 1 .. Len(s)} = {t[k] : k \in 1 .. Len(t)} \cup {Head(s)}
         /\ Croissant(s) => Croissant(t) /\ \A k \in 1 .. Len(t) : Head(s) < t[k]
<1> DEFINE t == Tail(s)
<1>1. /\ Len(s) \in Nat /\ Len(s) >= 1 /\ Len(t) = Len(s) - 1
      /\ \A k \in 1 .. Len(t) : t[k] = s[k + 1]
      /\ Head(s) = s[1]
  BY HeadTailProperties, LenProperties, EmptySeq
<1>2. \A k \in 2 .. Len(s) : k - 1 \in 1 .. Len(t) /\ s[k] = t[k - 1]
  BY <1>1
<1>3. \A k \in 1 .. Len(t) : k + 1 \in 1 .. Len(s)
  BY <1>1
<1> HIDE DEF t
<1>4. {s[k] : k \in 1 .. Len(s)} = {t[k] : k \in 1 .. Len(t)} \cup {Head(s)}
  <2>1. \A k \in 1 .. Len(s) : k = 1 \/ k \in 2 .. Len(s)
    BY <1>1
  <2>2. 1 \in 1 .. Len(s) /\ s[1] = Head(s)
    BY <1>1
  <2>3. \A k \in 1 .. Len(s) :
            s[k] = Head(s) \/ \E j \in 1 .. Len(t) : s[k] = t[j]
    BY <1>2, <2>1, <2>2
  <2>4. \A k \in 1 .. Len(t) : \E j \in 1 .. Len(s) : t[k] = s[j]
    BY <1>1, <1>3
  <2>5. ASSUME NEW x PROVE x \in {s[k] : k \in 1 .. Len(s)} <=>
                           x \in {t[k] : k \in 1 .. Len(t)} \cup {Head(s)}
    <3>1. x \in {s[k] : k \in 1 .. Len(s)} <=> \E k \in 1 .. Len(s) : x = s[k]
      OBVIOUS
    <3>2. x \in {t[k] : k \in 1 .. Len(t)} <=> \E k \in 1 .. Len(t) : x = t[k]
      OBVIOUS
    <3> QED
      BY <2>2, <2>3, <2>4, <3>1, <3>2
  <2> QED
    BY <2>5, Zenon
<1>5. ASSUME Croissant(s)
      PROVE  Croissant(t) /\ \A k \in 1 .. Len(t) : Head(s) < t[k]
  <2>1. ASSUME NEW j \in 1 .. Len(t), NEW k \in 1 .. Len(t), j < k
        PROVE  t[j] < t[k]
    <3>1. j + 1 \in 1 .. Len(s) /\ k + 1 \in 1 .. Len(s) /\ j + 1 < k + 1
      BY <1>3, <2>1
    <3>2. t[j] = s[j + 1] /\ t[k] = s[k + 1]
      BY <1>1, <2>1
    <3> QED
      BY <1>5, <3>1, <3>2 DEF Croissant
  <2>2. ASSUME NEW k \in 1 .. Len(t)
        PROVE  Head(s) < t[k]
    <3>1. 1 \in 1 .. Len(s) /\ k + 1 \in 1 .. Len(s) /\ 1 < k + 1
      BY <1>1, <1>3
    <3> QED
      BY <1>1, <1>5, <3>1 DEF Croissant
  <2> QED
    BY <2>1, <2>2 DEF Croissant
<1> QED
  BY <1>4, <1>5 DEF t

LEMMA ListeAugmente ==
  ASSUME Typage, Tries, Ranger, \A q \in PidsListes : q < nom
  PROVE  PidsListes' = PidsListes \cup {nom} /\ Tries'
<1>1. /\ listProcData \in Seq([pid : Pids, val : TypeLigne])
      /\ ProcDatas \in [pid : Pids, val : TypeLigne]
      /\ listProcData' = Append(listProcData, ProcDatas)
      /\ ProcDatas.pid = nom
  BY RangeType DEF Typage, TypeOK, Ranger, ProcDatas
<1>2. /\ Len(listProcData') = Len(listProcData) + 1 /\ Len(listProcData) \in Nat
      /\ \A k \in Lignes : listProcData'[k] = listProcData[k]
      /\ listProcData'[Len(listProcData) + 1] = ProcDatas
  BY <1>1, AppendProperties, LenProperties DEF Lignes
<1>3. PidsListes' = PidsListes \cup {nom}
  BY <1>1, <1>2 DEF PidsListes, Lignes
<1>4. Tries'
  <2> SUFFICES ASSUME NEW j \in Lignes', NEW k \in Lignes', j < k
               PROVE  listProcData'[j].pid < listProcData'[k].pid
    BY DEF Tries
  <2>1. j \in Lignes
    BY <1>2 DEF Lignes
  <2>2. CASE k \in Lignes
    BY <1>2, <2>1, <2>2 DEF Tries
  <2>3. CASE k \notin Lignes
    BY <1>1, <1>2, <2>1, <2>3 DEF Lignes, PidsListes
  <2> QED
    BY <2>2, <2>3
<1> QED
  BY <1>3, <1>4

LEMMA InitMarche == Init => Marche
<1> SUFFICES ASSUME Init PROVE Depart /\ Ordre /\ Connus /\ Stables
  BY InitTypage DEF Marche
<1>1. lot = <<>> /\ listProcData = <<>> /\ stables = {} /\ pc = "debut" /\ pos = Autre
  BY DEF Init
<1>2. EnLot = {} /\ PidsListes = {} /\ Croissant(lot) /\ Tries
  BY <1>1 DEF EnLot, PidsListes, Lignes, Croissant, Tries
<1> QED
  BY <1>1, <1>2 DEF Depart, Ordre, Connus, Stables, Dedans, Ouvert

LEMMA MondeMarche ==
  ASSUME Marche, Monde
  PROVE  Marche'
<1> PICK p \in Pids : Naitre(p) \/ Mourir(p) \/ Disparaitre(p)
  BY DEF Monde
<1>1. UNCHANGED <<pc, pos, lot, nom, listProcData>>
  BY DEF Naitre, Mourir, Disparaitre, flux, details
<1>2. /\ EnLot' = EnLot /\ PidsListes' = PidsListes /\ Dedans' = Dedans
      /\ Ouvert' = Ouvert /\ Depart' /\ Ordre'
      /\ \A q \in Pids : AVenir(q)' = AVenir(q)
  BY <1>1 DEF Marche, Depart, Ordre, EnLot, PidsListes, Lignes, Dedans, Ouvert,
              Croissant, Tries, AVenir
<1>3. Typage'
  BY MondeTypage DEF Marche
<1>4. Connus'
  <2>1. etat \in [Pids -> {"absent", "vivant", "zombie"}]
    BY DEF Marche, Typage, TypeOK
  <2>2. CASE Naitre(p)
    <3>1. Presents' \subseteq Presents \cup {p}
      BY <2>1, <2>2 DEF Naitre, Presents
    <3>2. vues \subseteq vues' /\ (Ouvert => <<p, inc[p] + 1>> \in vues')
      BY <2>2 DEF Naitre
    <3>3. PidsVus \subseteq PidsVus' /\ (Ouvert => p \in PidsVus')
      BY <3>2 DEF PidsVus
    <3> QED
      BY <1>1, <1>2, <3>1, <3>3 DEF Marche, Connus
  <2>3. CASE ~Naitre(p)
    <3>1. vues' = vues /\ Presents' \subseteq Presents
      BY <2>1, <2>3 DEF Mourir, Disparaitre, Presents
    <3> QED
      BY <1>1, <1>2, <3>1 DEF Marche, Connus, PidsVus
  <2> QED
    BY <2>2, <2>3
<1>5. Stables'
  <2> SUFFICES ASSUME NEW x \in stables'
               PROVE  x \in stables /\ x[1] \in Presents' /\ x[2] = inc'[x[1]]
    BY <1>1, <1>2 DEF Marche, Stables, Presents
  <2>1. x \in stables
    BY DEF Naitre, Mourir, Disparaitre
  <2>2. x[1] \in Presents /\ x[2] = inc[x[1]] /\ x = <<x[1], x[2]>>
    BY <2>1 DEF Marche, Stables, Typage, TypeOK
  <2>3. /\ etat \in [Pids -> {"absent", "vivant", "zombie"}]
        /\ inc \in [Pids -> 0 .. MaxInc]
    BY DEF Marche, Typage, TypeOK
  <2>4. x[1] = p => ~Naitre(p) /\ ~Disparaitre(p)
    BY <2>2 DEF Naitre, Disparaitre, Presents
  <2> QED
    BY <2>1, <2>2, <2>3, <2>4 DEF Naitre, Mourir, Disparaitre, Presents
<1> QED
  BY <1>2, <1>3, <1>4, <1>5 DEF Marche

(* Nothing that the order is about changes.                                *)
LEMMA OrdreInchange ==
  ASSUME Marche, UNCHANGED <<pos, lot, nom, listProcData>>, Dedans' => Dedans,
         pc' # "debut"
  PROVE  /\ EnLot' = EnLot /\ PidsListes' = PidsListes
         /\ Depart' /\ Ordre'
  BY DEF Marche, Depart, Ordre, EnLot, PidsListes, Lignes, Dedans, Croissant, Tries

(* A step of myps that reads the details of a process.                     *)
LEMMA DetailsMarche ==
  ASSUME Marche, OuvrirStatus \/ OuvrirStat \/ ChercherUid \/ Chercher
  PROVE  Marche'
<1>1. UNCHANGED <<pos, lot, nom, listProcData, processus>> /\ Dedans
      /\ pc' # "debut" /\ pc \notin {"affiche", "fini"} /\ pc' \notin {"affiche", "fini"}
  BY DEF OuvrirStatus, OuvrirStat, ChercherUid, Chercher, flux, Dedans
<1>2. EnLot' = EnLot /\ PidsListes' = PidsListes /\ Depart' /\ Ordre'
  BY <1>1, OrdreInchange
<1>3. Typage'
  BY PsTypage DEF Marche, Ps
<1>4. Ouvert /\ Presents' = Presents /\ PidsVus' = PidsVus
  BY <1>1 DEF Dedans, Ouvert, Presents, processus, PidsVus
<1>5. Connus'
  BY <1>1, <1>2, <1>4 DEF Marche, Connus
<1>6. pc' \notin {"echec", "plante"} => Dedans'
  BY DEF OuvrirStatus, OuvrirStat, ChercherUid, Chercher, Dedans
<1>7. stables' = stables /\ inc' = inc
  BY <1>1 DEF processus
<1>8. Stables'
  BY <1>1, <1>2, <1>4, <1>6, <1>7 DEF Marche, Stables, AVenir, Dedans
<1> QED
  BY <1>2, <1>3, <1>5, <1>8 DEF Marche

LEMMA RangerMarche ==
  ASSUME Marche, Ranger
  PROVE  Marche'
<1>1. UNCHANGED <<pos, lot, nom, processus>> /\ Dedans /\ ~Dedans' /\ pc' = "readdir"
  BY DEF Ranger, flux, Dedans
<1>2. PidsListes' = PidsListes \cup {nom} /\ Tries' /\ EnLot' = EnLot
  BY <1>1, ListeAugmente DEF Marche, Ordre, EnLot
<1>3. Typage'
  BY PsTypage DEF Marche, Ps
<1>4. Ordre' /\ Depart'
  BY <1>1, <1>2 DEF Marche, Ordre, Croissant, Depart
<1>5. Presents' = Presents /\ PidsVus' = PidsVus /\ stables' = stables /\ inc' = inc
      /\ Ouvert
  BY <1>1 DEF Dedans, Ouvert, Presents, processus, PidsVus
<1>6. Connus'
  BY <1>1, <1>2, <1>5 DEF Marche, Connus
<1>7. Stables'
  BY <1>1, <1>2, <1>5 DEF Marche, Stables, AVenir, Dedans
<1> QED
  BY <1>3, <1>4, <1>6, <1>7 DEF Marche

LEMMA ReaddirMarche ==
  ASSUME Marche, Readdir
  PROVE  Marche'
<1>1. UNCHANGED <<pos, listProcData, processus>> /\ pc = "readdir" /\ ~Dedans
      /\ pc' \in {"readdir", "getdents", "ouvreStatus"}
  BY DEF Readdir, Dedans
<1>2. Typage'
  BY PsTypage DEF Marche, Ps
<1>3. Presents' = Presents /\ PidsVus' = PidsVus /\ stables' = stables /\ inc' = inc
      /\ PidsListes' = PidsListes /\ Ouvert /\ (Tries => Tries')
  BY <1>1 DEF Dedans, Ouvert, Presents, processus, PidsVus, PidsListes, Lignes, Tries
<1>4. CASE lot = <<>>
  <2>1. UNCHANGED <<lot, nom>> /\ ~Dedans'
    BY <1>4 DEF Readdir, Dedans
  <2>2. EnLot' = EnLot /\ Depart' /\ Ordre'
    BY <1>1, <2>1, OrdreInchange
  <2> QED
    BY <1>1, <1>2, <1>3, <2>1, <2>2 DEF Marche, Connus, Stables, AVenir
<1>5. CASE lot # <<>>
  <2>1. lot' = Tail(lot) /\ lot \in Seq(Int) /\ lot \in Seq(Pids \cup {Autre})
    BY <1>5 DEF Readdir, Marche, Typage, TypeOK, Pids, Autre
  <2>2. /\ EnLot = EnLot' \cup {Head(lot)}
        /\ Croissant(lot) => Croissant(lot') /\ \A r \in EnLot' : Head(lot) < r
    BY <1>5, <2>1, LotDiminue DEF EnLot
  <2>3. /\ Dedans' <=> Head(lot) # Autre
        /\ Dedans' => nom' = Head(lot)
    BY <1>1, <1>5 DEF Readdir, EstNombre, Dedans
  <2>4. Ordre' /\ Depart'
    BY <1>1, <1>3, <2>2, <2>3 DEF Marche, Ordre, Depart
  <2>5. Connus'
    BY <1>1, <1>3, <2>2, <2>3 DEF Marche, Connus
  <2>6. Stables'
    <3>1. \A q \in Presents : q # Autre
      BY DEF Presents, Pids, Autre
    <3>2. \A q \in Presents : AVenir(q) => AVenir(q)'
      BY <1>1, <2>2, <2>3, <3>1 DEF AVenir
    <3> QED
      BY <1>1, <1>3, <3>2 DEF Marche, Stables
  <2> QED
    BY <1>2, <2>4, <2>5, <2>6 DEF Marche
<1> QED
  BY <1>4, <1>5

LEMMA RemplirMarche ==
  ASSUME Marche, NEW p \in Pids \cup {Autre}, Remplir(p)
  PROVE  Marche'
<1>1. UNCHANGED <<pc, nom, listProcData, processus>> /\ pc = "getdents" /\ ~Dedans
      /\ ~Dedans' /\ Ouvert /\ pos' = p + 1 /\ pos <= p /\ p \in Int /\ pos \in Int
  BY Constantes DEF Remplir, Dedans, details, Suivants, Ouvert, Pids, Autre, Marche, Typage, TypeOK
<1>2. Typage'
  BY PsTypage DEF Marche, Ps
<1>3. Presents' = Presents /\ PidsVus' = PidsVus /\ stables' = stables /\ inc' = inc
      /\ PidsListes' = PidsListes /\ (Tries => Tries')
  BY <1>1 DEF Presents, processus, PidsVus, PidsListes, Lignes, Tries
<1>4. lot' = Append(lot, p) /\ lot \in Seq(Int)
  BY DEF Remplir, Marche, Typage, TypeOK, Pids, Autre
<1>5. \A q \in EnLot : q < p
  <2>1. \A k \in 1 .. Len(lot) : lot[k] \in Int
    BY <1>4, ElementOfSeq
  <2> QED
    BY <1>1, <2>1 DEF Marche, Ordre, EnLot
<1>6. EnLot' = EnLot \cup {p} /\ (Croissant(lot) => Croissant(lot'))
  BY <1>1, <1>4, <1>5, LotAugmente DEF EnLot
<1>7. \A q \in PidsListes : q \in Int /\ q < p
  <2>1. \A k \in Lignes : listProcData[k].pid \in Int
    <3>1. listProcData \in Seq([pid : Pids, val : TypeLigne])
      BY DEF Marche, Typage, TypeOK
    <3>2. \A k \in Lignes : listProcData[k] \in [pid : Pids, val : TypeLigne]
      BY <3>1, ElementOfSeq DEF Lignes
    <3> QED
      BY <3>2 DEF Pids
  <2>2. \A q \in PidsListes : q \in Int
    BY <2>1 DEF PidsListes
  <2> QED
    BY <1>1, <2>2 DEF Marche, Ordre
<1>8. \A q \in EnLot : q \in Int
  BY <1>4, ElementOfSeq DEF EnLot
<1>9. Ordre' /\ Depart'
  BY <1>1, <1>3, <1>5, <1>6, <1>7, <1>8 DEF Marche, Ordre, Depart
<1>10. Connus'
  <2>1. p \in Presents \cup {Autre}
    BY DEF Remplir, Suivants
  <2> QED
    BY <1>1, <1>3, <1>6, <2>1 DEF Marche, Connus
<1>11. Stables'
  <2>1. ASSUME NEW q \in Presents, AVenir(q)
        PROVE  AVenir(q)'
    <3>1. q \in Int /\ (q >= pos => p <= q)
      BY DEF Remplir, Suivants, Presents, Pids
    <3> QED
      BY <1>1, <1>6, <2>1, <3>1 DEF AVenir
  <2> QED
    BY <1>1, <1>3, <2>1 DEF Marche, Stables
<1> QED
  BY <1>2, <1>9, <1>10, <1>11 DEF Marche

LEMMA OpendirMarche ==
  ASSUME Marche, Opendir
  PROVE  Marche'
<1>1. UNCHANGED <<pos, lot, nom, listProcData, etat, inc>> /\ pc' = "getdents"
      /\ pos = Autre /\ lot = <<>> /\ listProcData = <<>> /\ ~Dedans'
  BY DEF Opendir, flux, details, Dedans, Marche, Depart
<1>2. EnLot' = EnLot /\ PidsListes' = PidsListes /\ Depart' /\ Ordre'
  BY <1>1, OrdreInchange
<1>3. EnLot = {} /\ PidsListes = {} /\ Presents' = Presents
  BY <1>1 DEF EnLot, PidsListes, Lignes, Presents
<1>4. Typage'
  BY PsTypage DEF Marche, Ps
<1>5. stables' = {<<p, inc[p]>> : p \in Presents} /\ vues' = stables'
  BY DEF Opendir
<1>6. Connus'
  <2>1. \A q \in Presents : <<q, inc[q]>> \in vues' /\ <<q, inc[q]>>[1] = q
    BY <1>5
  <2>2. Presents \subseteq PidsVus'
    BY <2>1, Zenon DEF PidsVus
  <2> QED
    BY <1>1, <1>2, <1>3, <2>2 DEF Connus
<1>7. Stables'
  <2>1. \A q \in Presents : q >= 0
    BY DEF Presents, Pids
  <2> QED
    BY <1>1, <1>3, <1>5, <2>1 DEF Stables, AVenir, Autre
<1> QED
  BY <1>2, <1>4, <1>6, <1>7 DEF Marche

(* The ends of the two calls of the kernel, and of main.                   *)
LEMMA SuiteMarche ==
  ASSUME Marche, Rendre \/ FinDir \/ Afficher
  PROVE  Marche'
<1>1. UNCHANGED <<pos, lot, nom, listProcData, processus>> /\ ~Dedans /\ ~Dedans'
      /\ Ouvert /\ pc' \in {"readdir", "affiche", "fini"}
  BY DEF Rendre, FinDir, Afficher, flux, details, Dedans, Ouvert
<1>2. EnLot' = EnLot /\ PidsListes' = PidsListes /\ Depart' /\ Ordre'
  BY <1>1, OrdreInchange
<1>3. Presents' = Presents /\ PidsVus' = PidsVus /\ stables' = stables /\ inc' = inc
  BY <1>1 DEF Presents, processus, PidsVus
<1>4. Typage'
  BY PsTypage DEF Marche, Ps
<1>5. Connus'
  BY <1>1, <1>2, <1>3 DEF Marche, Connus
<1>6. Stables'
  <2>1. CASE Rendre
    BY <1>1, <1>2, <1>3, <2>1 DEF Marche, Stables, AVenir, Rendre
  <2>2. CASE FinDir
    <3>1. EnLot = {} /\ \A q \in Presents : ~(q >= pos)
      BY <2>2 DEF FinDir, EnLot, Suivants
    <3>2. pc = "getdents"
      BY <2>2 DEF FinDir
    <3> QED
      BY <1>1, <1>2, <1>3, <3>1, <3>2 DEF Marche, Stables, AVenir
  <2>3. CASE Afficher
    BY <1>1, <1>2, <1>3, <2>3 DEF Marche, Stables, Afficher
  <2> QED
    BY <2>1, <2>2, <2>3
<1> QED
  BY <1>2, <1>4, <1>5, <1>6 DEF Marche

LEMMA PasMarche == Marche /\ [Next]_vars => Marche'
<1> SUFFICES ASSUME Marche, [Next]_vars PROVE Marche'
  OBVIOUS
<1>1. CASE UNCHANGED vars
  <2>1. Typage'
    BY <1>1, PasTypage DEF Marche
  <2>2. UNCHANGED <<pc, pos, lot, nom, listProcData, etat, inc, stables, vues>>
    BY <1>1 DEF vars, processus, flux, details
  <2>3. /\ EnLot' = EnLot /\ PidsListes' = PidsListes /\ Dedans' = Dedans
        /\ PidsVus' = PidsVus /\ Presents' = Presents /\ Ouvert' = Ouvert
    BY <2>2 DEF EnLot, PidsListes, PidsVus, Lignes, Presents, Ouvert, Dedans
  <2>4. Depart' /\ Connus'
    BY <2>2, <2>3 DEF Marche, Depart, Connus
  <2>5. Tries => Tries'
    BY <2>2 DEF Tries, Lignes
  <2>6. Ordre'
    BY <2>2, <2>3, <2>5 DEF Marche, Ordre, Croissant
  <2>7. Stables'
    BY <2>2, <2>3 DEF Marche, Stables, AVenir
  <2> QED
    BY <2>1, <2>4, <2>6, <2>7 DEF Marche
<1> QED
  BY <1>1, MondeMarche, OpendirMarche, RemplirMarche, SuiteMarche, ReaddirMarche,
     DetailsMarche, RangerMarche DEF Next, Ps

(* The list printed has every process that was there all along, no pid     *)
(* that nobody had meanwhile, and no pid twice.                            *)
THEOREM Complete == Spec => []ListeComplete
<1>1. Marche => ListeComplete
  BY DEF Marche, ListeComplete, Stables, Connus, Ordre, Tries, PidsVus
<1> QED
  BY <1>1, InitMarche, PasMarche, PTL DEF Spec
-----------------------------------------------------------------------------
(* Why myps gives up only when a process went away: until then each name   *)
(* it has read is of a process that is still there, and so are its files.  *)
Nes == \A p \in Presents : inc[p] >= 1

Trouvables ==
    ~disparu /\ Ouvert =>
        /\ EnLot \subseteq Presents \cup {Autre}
        /\ Dedans => nom \in Presents
        /\ pc \in {"ouvreStat", "cherche"} => fdStatus = inc[nom]

Echecs == Marche /\ Nes /\ Trouvables /\ EchecJustifie

LEMMA InitEchecs == Init => Echecs
<1> SUFFICES ASSUME Init PROVE Nes /\ Trouvables /\ EchecJustifie
  BY InitMarche DEF Echecs
<1> QED
  BY DEF Init, Nes, Trouvables, EchecJustifie, Ouvert, Presents

\* A process that comes or goes; those that are not gone keep their number.
LEMMA MondeEchecs ==
  ASSUME Echecs, ~Fin, Monde
  PROVE  Echecs'
<1> PICK p \in Pids : Naitre(p) \/ Mourir(p) \/ Disparaitre(p)
  BY DEF Monde
<1>1. UNCHANGED <<pc, lot, nom, fdStatus>> /\ Marche'
  BY MondeMarche DEF Naitre, Mourir, Disparaitre, flux, details, Echecs
<1>2. TypeMonde /\ \A q \in Pids : inc[q] \in Nat
  BY Constantes DEF Echecs, Marche, Typage, TypeOK, TypeMonde
<1>3. Nes'
  BY <1>2 DEF Naitre, Mourir, Disparaitre, Echecs, Nes, Presents, TypeMonde
<1>4. pc \notin {"echec", "plante"} /\ EchecJustifie'
  BY <1>1 DEF Fin, EchecJustifie
<1>5. CASE Naitre(p) \/ Mourir(p)
  <2>1. /\ \A q \in Presents : q \in Presents' /\ inc'[q] = inc[q]
        /\ disparu' = disparu
    BY <1>2, <1>5 DEF Naitre, Mourir, Presents, TypeMonde
  <2>2. Trouvables'
    BY <1>1, <2>1 DEF Echecs, Trouvables, EnLot, Ouvert, Dedans
  <2> QED
    BY <1>1, <1>3, <1>4, <2>2 DEF Echecs
<1>6. CASE Disparaitre(p)
  <2>1. disparu' = Ouvert /\ Ouvert' = Ouvert
    BY <1>1, <1>6 DEF Disparaitre, Ouvert
  <2> QED
    BY <1>1, <1>3, <1>4, <2>1 DEF Echecs, Trouvables
<1> QED
  BY <1>5, <1>6

LEMMA PsEchecs ==
  ASSUME Echecs, Ps
  PROVE  Echecs'
<1>1. Marche' /\ TypeOK /\ (Dedans => nom \in Pids)
  BY PasMarche DEF Echecs, Marche, Typage, Next
<1>2. UNCHANGED <<etat, inc, genre, disparu>> /\ Presents' = Presents
  BY DEF Ps, Opendir, Remplir, Rendre, FinDir, Readdir, Afficher, OuvrirStatus,
     OuvrirStat, ChercherUid, Chercher, Ranger, processus, Presents
<1>3. Nes'
  BY <1>2 DEF Echecs, Nes
<1> DEFINE Reste == Trouvables' /\ EchecJustifie'
<1>4. CASE Opendir
  <2>1. lot = <<>> /\ lot' = lot /\ pc' = "getdents"
    BY <1>4 DEF Opendir, flux, Echecs, Marche, Depart
  <2> QED
    BY <1>1, <1>3, <2>1 DEF Echecs, Trouvables, EchecJustifie, EnLot, Dedans
<1>5. ASSUME NEW p \in Pids \cup {Autre}, Remplir(p) PROVE Echecs'
  <2>1. lot \in Seq(Int) /\ p \in Int /\ p \in Presents \cup {Autre}
        /\ lot' = Append(lot, p) /\ pc = "getdents" /\ pc' = pc
    BY <1>1, <1>5 DEF Remplir, Suivants, TypeOK, Pids, Autre
  <2>2. EnLot' = EnLot \cup {p}
    BY <2>1, LotAugmente DEF EnLot
  <2> QED
    BY <1>1, <1>2, <1>3, <2>1, <2>2 DEF Echecs, Trouvables, EchecJustifie,
       Dedans, Ouvert
<1>6. CASE Rendre \/ FinDir \/ Afficher \/ Ranger
  <2>1. lot' = lot /\ pc' \in {"readdir", "affiche", "fini"} /\ Ouvert
    BY <1>6 DEF Rendre, FinDir, Afficher, Ranger, flux, Ouvert
  <2> QED
    BY <1>1, <1>2, <1>3, <2>1 DEF Echecs, Trouvables, EchecJustifie, EnLot,
       Dedans, Ouvert
<1>7. CASE Readdir
  <2>1. pc = "readdir" /\ pc' \in {"readdir", "getdents", "ouvreStatus"}
    BY <1>7 DEF Readdir
  <2>2. CASE lot = <<>>
    <3>1. lot' = lot /\ pc' = "getdents"
      BY <1>7, <2>2 DEF Readdir
    <3> QED
      BY <1>1, <1>2, <1>3, <2>1, <3>1 DEF Echecs, Trouvables, EchecJustifie,
         EnLot, Dedans, Ouvert
  <2>3. CASE lot # <<>>
    <3>1. lot' = Tail(lot) /\ lot \in Seq(Int)
      BY <1>1, <1>7, <2>3 DEF Readdir, TypeOK, Pids, Autre
    <3>2. EnLot = EnLot' \cup {Head(lot)}
      BY <2>3, <3>1, LotDiminue DEF EnLot
    <3>3. Dedans' => nom' = Head(lot) /\ Head(lot) # Autre
      BY <1>7, <2>1, <2>3 DEF Readdir, EstNombre, Dedans
    <3> QED
      BY <1>1, <1>2, <1>3, <2>1, <3>2, <3>3 DEF Echecs, Trouvables,
         EchecJustifie, Ouvert
  <2> QED
    BY <2>2, <2>3
<1>8. CASE OuvrirStatus \/ OuvrirStat
  <2>1. /\ lot' = lot /\ nom' = nom /\ Dedans /\ Ouvert
        /\ pc' \in {"ouvreStat", "cherche", "echec"}
    BY <1>8 DEF OuvrirStatus, OuvrirStat, flux, Dedans, Ouvert
  <2>2. pc' = "echec" => nom \notin Presents
    BY <1>8 DEF OuvrirStatus, OuvrirStat
  <2>3. pc' # "echec" => fdStatus' = inc[nom]
                         \/ (fdStatus' = fdStatus /\ pc = "ouvreStat")
    BY <1>8 DEF OuvrirStatus, OuvrirStat
  <2> QED
    BY <1>1, <1>2, <1>3, <2>1, <2>2, <2>3 DEF Echecs, Trouvables,
       EchecJustifie, EnLot, Dedans, Ouvert
<1>9. CASE ChercherUid \/ Chercher
  <2>1. /\ UNCHANGED <<lot, nom, fdStatus>> /\ pc = "cherche"
        /\ pc' \in {"cherche", "plante"}
    BY <1>9 DEF ChercherUid, Chercher, flux
  <2>2. ASSUME pc' = "plante", ~disparu
        PROVE  nom \in Presents /\ genre[nom] = "inconnu"
    <3>1. nom \in Presents /\ fdStatus = inc[nom] /\ inc[nom] >= 1
      BY <2>1, <2>2 DEF Echecs, Trouvables, Nes, Ouvert, Dedans
    <3>2. inc[nom] # Vide /\ SearchInFile("Uid:") = inc[nom]
      BY <3>1 DEF SearchInFile, Lisible, ContientLigne, Presents, Vide
    <3> QED
      BY <1>9, <2>1, <2>2, <3>1, <3>2 DEF ChercherUid, Chercher
  <2> QED
    BY <1>1, <1>2, <1>3, <2>1, <2>2 DEF Echecs, Trouvables, EchecJustifie,
       EnLot, Dedans, Ouvert
<1> QED
  BY <1>4, <1>5, <1>6, <1>7, <1>8, <1>9 DEF Ps

LEMMA EchecsSuite ==
  ASSUME Echecs, [Next]_vars
  PROVE  Echecs'
<1>1. CASE UNCHANGED vars
  <2>1. Marche'
    BY <1>1, PasMarche DEF Echecs
  <2> QED
    BY <1>1, <2>1 DEF vars, processus, flux, details, Echecs, Nes, Trouvables,
       EchecJustifie, EnLot, Presents, Dedans, Ouvert
<1> QED
  BY <1>1, MondeEchecs, PsEchecs DEF Next

(* myps ends without a list only when a process went away under it, and    *)
(* dies on a null pointer only then or for an owner without a name.        *)
THEOREM Echoue == Spec => []EchecJustifie
<1>1. Echecs => EchecJustifie
  BY DEF Echecs
<1>2. Echecs /\ [Next]_vars => Echecs'
  BY EchecsSuite
<1> QED
  BY <1>1, <1>2, InitEchecs, PTL DEF Spec

-----------------------------------------------------------------------------
(* Why the row of a process that stays alive is its own.                   *)
Suivi(p) == <<p, inc[p]>> \in stables /\ etat[p] = "vivant"

Construite ==
    pc \in {"ouvreStat", "cherche"} /\ Suivi(nom) =>
        /\ fdStatus = inc[nom]
        /\ pc = "ouvreStat" => champ = 1
        /\ pc = "cherche" =>
               /\ fdStat = inc[nom]
               /\ \A k \in 1 .. champ - 1 :
                      ligne[Champs[k]] = Attendu(nom)[Champs[k]]

Fideles == Marche /\ Nes /\ Construite /\ LigneFidele

(* The process followed now was followed before, with the same kind.       *)
LEMMA MondeSuivi ==
  ASSUME Marche, Monde, NEW p \in Pids, Suivi(p)'
  PROVE  Suivi(p) /\ inc'[p] = inc[p] /\ genre'[p] = genre[p]
<1> PICK q \in Pids : Naitre(q) \/ Mourir(q) \/ Disparaitre(q)
  BY DEF Monde
<1>1. TypeMonde /\ \A r \in Pids : inc[r] \in Nat
  BY Constantes DEF Marche, Typage, TypeOK, TypeMonde
<1>2. CASE p # q
  <2>1. inc'[p] = inc[p] /\ etat'[p] = etat[p] /\ genre'[p] = genre[p]
        /\ stables' \subseteq stables
    BY <1>1, <1>2 DEF Naitre, Mourir, Disparaitre, TypeMonde
  <2> QED
    BY <2>1 DEF Suivi
<1>3. CASE p = q
  <2>1. ~Mourir(q) /\ ~Disparaitre(q)
    BY <1>1, <1>3 DEF Mourir, Disparaitre, Suivi, TypeMonde
  <2>2. etat[p] = "absent" /\ stables' = stables
    BY <1>3, <2>1 DEF Naitre
  <2>3. <<p, inc'[p]>> \in stables => p \in Presents
    BY DEF Marche, Stables
  <2> QED
    BY <2>2, <2>3 DEF Suivi, Presents
<1> QED
  BY <1>2, <1>3

LEMMA MemeAttendu ==
  ASSUME NEW p, inc'[p] = inc[p], genre'[p] = genre[p]
  PROVE  Attendu(p)' = Attendu(p)
  BY DEF Attendu

LEMMA ListeTypee ==
  ASSUME Typage, NEW i \in Lignes
  PROVE  listProcData[i].pid \in Pids
<1>1. listProcData \in Seq([pid : Pids, val : TypeLigne])
  BY DEF Typage, TypeOK
<1>2. listProcData[i] \in [pid : Pids, val : TypeLigne]
  BY <1>1, ElementOfSeq DEF Lignes
<1> QED
  BY <1>2

LEMMA MondeFideles ==
  ASSUME Fideles, Monde
  PROVE  Construite' /\ LigneFidele'
<1>1. UNCHANGED <<pc, details, listProcData>> /\ Lignes' = Lignes
  BY DEF Monde, Naitre, Mourir, Disparaitre, Lignes
<1>2. Construite'
  <2> SUFFICES ASSUME pc \in {"ouvreStat", "cherche"}, Suivi(nom)'
               PROVE  Construite'
    BY <1>1 DEF Construite, Suivi, details
  <2>1. nom \in Pids /\ UNCHANGED nom
    BY <1>1 DEF Fideles, Marche, Typage, Dedans, details
  <2>2. Suivi(nom) /\ inc'[nom] = inc[nom] /\ genre'[nom] = genre[nom]
    BY <2>1, MondeSuivi DEF Fideles, Suivi
  <2>3. Attendu(nom)' = Attendu(nom)
    BY <2>1, <2>2, MemeAttendu DEF Attendu
  <2> QED
    BY <1>1, <2>1, <2>2, <2>3 DEF Fideles, Construite, details
<1>3. LigneFidele'
  <2> SUFFICES ASSUME NEW i \in Lignes, NEW p \in Pids, p = listProcData[i].pid,
                      Suivi(p)'
               PROVE  listProcData[i].val = Attendu(p)'
    BY <1>1, ListeTypee DEF Fideles, Marche, LigneFidele, Suivi
  <2>1. Suivi(p) /\ Attendu(p)' = Attendu(p)
    BY MondeSuivi, MemeAttendu DEF Fideles
  <2> QED
    BY <2>1 DEF Fideles, LigneFidele, Suivi
<1> QED
  BY <1>2, <1>3

\* Five names are searched for, in this order, and stat comes last.
LEMMA LesChamps ==
  /\ \A k \in 1 .. 5 : Champs[k] \in Colonnes /\ Champs[k] # "stat"
  /\ \A j, k \in 1 .. 5 : j # k => Champs[j] # Champs[k]
  /\ \A c \in Colonnes : c = "stat" \/ \E k \in 1 .. 5 : c = Champs[k]
<1>1. /\ Champs[1] = "Uid:" /\ Champs[2] = "Name:" /\ Champs[3] = "State:"
      /\ Champs[4] = "VmSize:" /\ Champs[5] = "VmRSS:"
  BY DEF Champs
<1>2. \A k \in 1 .. 5 : k = 1 \/ k = 2 \/ k = 3 \/ k = 4 \/ k = 5
  OBVIOUS
<1>3. /\ 1 \in 1 .. 5 /\ 2 \in 1 .. 5 /\ 3 \in 1 .. 5 /\ 4 \in 1 .. 5
      /\ 5 \in 1 .. 5
  OBVIOUS
<1>4. \A k \in 1 .. 5 : Champs[k] \in Colonnes /\ Champs[k] # "stat"
  BY <1>1, <1>2 DEF Colonnes
<1>5. \A j, k \in 1 .. 5 : j # k => Champs[j] # Champs[k]
  BY <1>1, <1>2
<1>6. \A c \in Colonnes : c = "stat" \/ \E k \in 1 .. 5 : c = Champs[k]
  BY <1>1, <1>3 DEF Colonnes
<1> QED
  BY <1>4, <1>5, <1>6

\* What is read of the process that is followed.
LEMMA LectureFidele ==
  ASSUME Fideles, pc = "cherche", Suivi(nom)
  PROVE  /\ \A c \in Colonnes \ {"stat"} :
                SearchInFile(c) = Attendu(nom)[c]
         /\ SearchInFile("Uid:") # Vide
         /\ StatDesc = Attendu(nom)["stat"]
<1>1. nom \in Pids /\ etat[nom] = "vivant" /\ inc[nom] >= 1 /\ nom \in Presents
  BY DEF Fideles, Marche, Typage, Dedans, Suivi, Nes, Presents
<1>2. fdStatus = inc[nom] /\ fdStat = inc[nom]
  BY DEF Fideles, Construite
<1>3. Lisible(fdStatus) /\ Lisible(fdStat)
  BY <1>1, <1>2 DEF Lisible
<1>4. StatDesc = Attendu(nom)["stat"]
  BY <1>1, <1>2, <1>3 DEF StatDesc, Attendu, Colonnes
<1>5. \A c \in Colonnes \ {"stat"} : SearchInFile(c) = Attendu(nom)[c]
  BY <1>1, <1>2, <1>3 DEF SearchInFile, ContientLigne, Attendu
<1>6. SearchInFile("Uid:") = inc[nom]
  BY <1>1, <1>2, <1>3 DEF SearchInFile, ContientLigne
<1> QED
  BY <1>1, <1>4, <1>5, <1>6 DEF Vide

LEMMA PsFideles ==
  ASSUME Fideles, Ps
  PROVE  Construite' /\ LigneFidele'
<1>1. TypeOK /\ (Dedans => nom \in Pids) /\ Len(Champs) = 5
  BY Constantes DEF Fideles, Marche, Typage
<1>2. CASE Ranger
  <2>1. pc' = "readdir" /\ champ = 6 /\ UNCHANGED processus /\ pc = "cherche"
    BY <1>1, <1>2 DEF Ranger, TypeOK
  <2>2. /\ listProcData \in Seq([pid : Pids, val : TypeLigne])
        /\ ProcDatas \in [pid : Pids, val : TypeLigne]
        /\ listProcData' = Append(listProcData, ProcDatas)
    BY <1>1, <1>2, RangeType DEF Ranger, TypeOK, Fideles, Marche
  <2>3. /\ Lignes' = Lignes \cup {Len(listProcData) + 1} /\ Len(listProcData) \in Nat
        /\ \A k \in Lignes : listProcData'[k] = listProcData[k]
        /\ listProcData'[Len(listProcData) + 1] = ProcDatas
    BY <2>2, AppendProperties, LenProperties DEF Lignes
  <2>4. ASSUME Suivi(nom) PROVE ProcDatas.val = Attendu(nom)
    <3>1. \A k \in 1 .. 5 : ligne[Champs[k]] = Attendu(nom)[Champs[k]]
      BY <2>1, <2>4 DEF Fideles, Construite
    <3>2. ligne \in TypeLigne /\ ProcDatas.val = [ligne EXCEPT !["stat"] = StatDesc]
      BY <1>1 DEF TypeOK, ProcDatas
    <3>3. StatDesc = Attendu(nom)["stat"]
      BY <2>1, <2>4, LectureFidele
    <3>4. \A c \in Colonnes : ProcDatas.val[c] = Attendu(nom)[c]
      BY <3>1, <3>2, <3>3, LesChamps DEF TypeLigne
    <3>5. ProcDatas.val = [c \in Colonnes |-> ProcDatas.val[c]]
          /\ Attendu(nom) = [c \in Colonnes |-> Attendu(nom)[c]]
      BY <3>2 DEF TypeLigne, Attendu
    <3> QED
      BY <3>4, <3>5
  <2>5. UNCHANGED <<etat, inc, genre, stables>> /\ ProcDatas.pid = nom
    BY <2>1 DEF processus, ProcDatas
  <2>6. ASSUME NEW i \in Lignes'
        PROVE  LET p == listProcData'[i].pid IN
               Suivi(p) => listProcData'[i].val = Attendu(p)
    BY <2>3, <2>4, <2>5, <2>6 DEF Fideles, LigneFidele, Suivi
  <2>7. LigneFidele'
    BY <2>5, <2>6 DEF LigneFidele, Suivi, Attendu
  <2> QED
    BY <2>1, <2>7 DEF Construite
<1>3. ASSUME UNCHANGED listProcData, \A x \in stables' : x \in stables \/ pc = "debut",
             UNCHANGED <<etat, inc, genre>>
      PROVE  LigneFidele'
  <2>1. pc = "debut" => Lignes' = {}
    BY <1>3 DEF Fideles, Marche, Depart, Lignes
  <2>2. Lignes' = Lignes
    BY <1>3 DEF Lignes
  <2> QED
    BY <1>3, <2>1, <2>2 DEF Fideles, LigneFidele, Attendu
<1>4. ~Ranger => LigneFidele'
  BY <1>3 DEF Ps, Opendir, Remplir, Rendre, FinDir, Readdir, Afficher, OuvrirStatus,
     OuvrirStat, ChercherUid, Chercher, processus
<1>5. CASE OuvrirStatus
  <2>1. pc' \notin {"cherche"} /\ champ' = 1 /\ UNCHANGED <<inc, nom>>
        /\ (pc' = "ouvreStat" => fdStatus' = inc[nom])
    BY <1>5 DEF OuvrirStatus, processus
  <2> QED
    BY <1>4, <1>5, <2>1 DEF Construite, OuvrirStatus, Ranger
<1>6. CASE OuvrirStat
  <2>1. /\ UNCHANGED <<nom, fdStatus, champ, ligne, processus>> /\ pc = "ouvreStat"
        /\ \/ pc' = "cherche" /\ fdStat' = inc[nom]
           \/ pc' = "echec"
    BY <1>6 DEF OuvrirStat
  <2>2. UNCHANGED <<etat, inc, genre, stables>>
    BY <2>1 DEF processus
  <2>3. Suivi(nom) => fdStatus = inc[nom] /\ champ = 1
    BY <2>1 DEF Fideles, Construite
  <2> QED
    BY <1>4, <2>1, <2>2, <2>3 DEF Construite, Ranger, Suivi
<1>7. CASE ChercherUid \/ Chercher
  <2>1. /\ UNCHANGED <<nom, fdStatus, fdStat, processus>> /\ pc = "cherche"
        /\ pc' \in {"cherche", "plante"}
    BY <1>7 DEF ChercherUid, Chercher
  <2>2. UNCHANGED <<etat, inc, genre, stables>>
    BY <2>1 DEF processus
  <2>3. ASSUME Suivi(nom), pc' = "cherche"
        PROVE  \A k \in 1 .. champ' - 1 :
                   ligne'[Champs[k]] = Attendu(nom)[Champs[k]]
    <3>1. champ \in 1 .. 5 /\ champ' = champ + 1
          /\ ligne' = [ligne EXCEPT ![Champs[champ]] = SearchInFile(Champs[champ])]
      <4>1. CASE Chercher
        BY <1>1, <4>1 DEF Chercher, TypeOK
      <4>2. CASE ChercherUid
        <5>1. SearchInFile("Uid:") # Vide /\ Champs[1] = "Uid:"
          BY <2>1, <2>3, LectureFidele DEF Champs
        <5>2. SearchInFile("Uid:") = fdStatus
          BY <5>1 DEF SearchInFile
        <5> QED
          BY <2>3, <4>2, <5>1, <5>2 DEF ChercherUid
      <4> QED
        BY <1>7, <4>1, <4>2
    <3>2. \A k \in 1 .. champ - 1 : ligne[Champs[k]] = Attendu(nom)[Champs[k]]
      BY <2>1, <2>3 DEF Fideles, Construite
    <3>3. SearchInFile(Champs[champ]) = Attendu(nom)[Champs[champ]]
      BY <2>1, <2>3, <3>1, LectureFidele, LesChamps
    <3>4. ligne \in TypeLigne
      BY <1>1 DEF TypeOK
    <3>5. ASSUME NEW k \in 1 .. champ' - 1
          PROVE  ligne'[Champs[k]] = Attendu(nom)[Champs[k]]
      <4>1. k \in 1 .. 5 /\ (k = champ \/ k \in 1 .. champ - 1)
        BY <3>1
      <4>2. CASE k = champ
        BY <3>1, <3>3, <3>4, <4>1, <4>2, LesChamps DEF TypeLigne
      <4>3. CASE k \in 1 .. champ - 1
        <5>1. Champs[k] # Champs[champ]
          BY <3>1, <4>1, <4>3, LesChamps
        <5> QED
          BY <3>1, <3>2, <3>4, <4>1, <4>3, <5>1, LesChamps DEF TypeLigne
      <4> QED
        BY <4>1, <4>2, <4>3
    <3> QED
      BY <3>5
  <2>4. Suivi(nom) => fdStatus = inc[nom] /\ fdStat = inc[nom]
    BY <2>1 DEF Fideles, Construite
  <2>5. Attendu(nom)' = Attendu(nom) /\ (Suivi(nom)' <=> Suivi(nom))
    BY <2>1, <2>2 DEF Attendu, Suivi
  <2>6. Construite'
    BY <2>1, <2>2, <2>3, <2>4, <2>5 DEF Construite
  <2> QED
    BY <1>4, <2>1, <2>6 DEF Ranger, ChercherUid, Chercher
<1>8. CASE Opendir \/ Rendre \/ FinDir \/ Readdir \/ Afficher
           \/ \E p \in Pids \cup {Autre} : Remplir(p)
  <2>1. pc' \notin {"ouvreStat", "cherche"} /\ ~Ranger
    BY <1>8 DEF Opendir, Rendre, FinDir, Readdir, Afficher, Remplir, Ranger
  <2> QED
    BY <1>4, <2>1 DEF Construite
<1> QED
  BY <1>2, <1>5, <1>6, <1>7, <1>8 DEF Ps

(* The row of a process that is alive all along is its own, column by      *)
(* column, but for stat when its name holds a blank.                       *)
THEOREM Fidele == Spec => []LigneFidele
<1>1. Init => Fideles
  BY InitEchecs DEF Init, Echecs, Fideles, Construite, LigneFidele, Lignes
<1>2. Fideles /\ Echecs /\ [Next]_vars => Fideles'
  <2> SUFFICES ASSUME Fideles, Echecs, [Next]_vars PROVE Fideles'
    OBVIOUS
  <2>1. Marche'
    BY PasMarche DEF Fideles
  <2>2. CASE UNCHANGED vars
    <3>1. UNCHANGED <<etat, inc, genre, stables, pc, nom, fdStatus, fdStat, champ,
                      ligne, listProcData>>
      BY <2>2 DEF vars, processus, details
    <3>2. Nes' /\ (LigneFidele => LigneFidele')
      BY <3>1 DEF Fideles, Nes, Presents, LigneFidele, Lignes, Attendu
    <3>3. Attendu(nom)' = Attendu(nom) /\ (Suivi(nom)' <=> Suivi(nom))
      BY <3>1 DEF Attendu, Suivi
    <3>4. Construite'
      BY <3>1, <3>3 DEF Fideles, Construite
    <3> QED
      BY <2>1, <3>2, <3>4 DEF Fideles
  <2>3. CASE ~Fin /\ Monde
    <3>1. Nes'
      BY <2>3, MondeEchecs DEF Echecs
    <3> QED
      BY <2>1, <2>3, <3>1, MondeFideles DEF Fideles
  <2>4. CASE Ps
    <3>1. Nes'
      BY <2>4, PsEchecs DEF Echecs
    <3> QED
      BY <2>1, <2>4, <3>1, PsFideles DEF Fideles
  <2> QED
    BY <2>2, <2>3, <2>4 DEF Next
<1>3. Spec => []Echecs
  <2>1. Echecs /\ [Next]_vars => Echecs'
    BY EchecsSuite
  <2> QED
    BY <2>1, InitEchecs, PTL DEF Spec
<1>4. Fideles => LigneFidele
  BY DEF Fideles
<1> QED
  BY <1>1, <1>2, <1>3, <1>4, PTL DEF Spec
=============================================================================
