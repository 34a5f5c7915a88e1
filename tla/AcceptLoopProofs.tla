-------------------------- MODULE AcceptLoopProofs ---------------------------
(***************************************************************************)
(* Theorems about AcceptLoop for every length of the array, every limit on *)
(* descriptors, and with or without failures of pthread_create.            *)
(***************************************************************************)
EXTENDS AcceptLoop, TLAPS

(* The inductive invariant: what main guarantees to its threads, and what  *)
(* each thread took away from its reads.                                   *)
IInv == /\ TypeOK /\ EtatDeMain /\ IndexBorne /\ JamaisVide

LEMMA InitIInv == Init => IInv
  BY AcceptAssumption
  DEF Init, IInv, TypeOK, EtatDeMain, SuitI, RangesEcrits, CreesAvant,
      IndexBorne, JamaisVide, ALus, Servent, Fils, ERR, STDIN

(* What main stores: one slot, with the connection or with ERR.            *)
LEMMA Rangement ==
  ASSUME TypeOK, Accepter
  PROVE  /\ sockets' \in [Fils -> Int]
         /\ sockets'[i] = ERR \/ sockets'[i] \in 1 .. acceptes'
         /\ \A n \in Fils : n # i => sockets'[n] = sockets[n]
<1>1. i \in Fils /\ acceptes \in Nat /\ sockets \in [Fils -> Int]
  BY AcceptAssumption DEF TypeOK, Accepter, Fils
<1>2. CASE acceptes < MaxSockets
  BY <1>1, <1>2 DEF Accepter
<1>3. CASE ~(acceptes < MaxSockets)
  BY <1>1, <1>3 DEF Accepter, ERR
<1> QED
  BY <1>2, <1>3

(* main never disturbs what the threads have read.                         *)
LEMMA MainIInv ==
  ASSUME IInv, Main
  PROVE  IInv'
<1> USE AcceptAssumption
        DEF IInv, TypeOK, EtatDeMain, SuitI, RangesEcrits, CreesAvant,
            IndexBorne, JamaisVide, ALus, Servent, Fils, ERR, STDIN, fils
<1>1. CASE Affecter
  BY <1>1 DEF Affecter
<1>2. CASE Accepter
  <2>1. i \in Fils /\ acceptes' \in Nat /\ acceptes <= acceptes'
        /\ acceptes' <= MaxSockets
    BY <1>2 DEF Accepter
  <2>2. /\ sockets' \in [Fils -> Int]
        /\ sockets'[i] = ERR \/ sockets'[i] \in 1 .. acceptes'
        /\ \A n \in Fils : n # i => sockets'[n] = sockets[n]
    BY <1>2, Rangement DEF TypeOK
  <2>3. RangesEcrits'
    BY <1>2, <2>1, <2>2 DEF Accepter
  <2>4. JamaisVide'
    BY <1>2, <2>1 DEF Accepter
  <2> QED
    BY <1>2, <2>1, <2>2, <2>3, <2>4 DEF Accepter
<1>3. CASE Deborder
  BY <1>3 DEF Deborder
<1>4. CASE Creer
  <2>1. TypeOK' /\ SuitI' /\ RangesEcrits'
    BY <1>4 DEF Creer
  <2>2. CreesAvant'
    BY <1>4 DEF Creer
  <2>3. \A n \in Fils : ou'[n] = ou[n] \/ ou'[n] = "cree"
    BY <1>4 DEF Creer
  <2>4. i' = i + 1 /\ index' = index /\ sock' = sock /\ acceptes' = acceptes
    BY <1>4 DEF Creer
  <2>5. IndexBorne'
    <3> SUFFICES ASSUME NEW k \in Fils, ou'[k] \in {"index", "sert"}
                 PROVE  k - 1 <= index'[k] /\ index'[k] < i'
      OBVIOUS
    <3>1. k - 1 <= index[k] /\ index[k] < i /\ index[k] \in Int /\ i \in Int
      BY <2>3
    <3> QED
      BY <2>4, <3>1
  <2>6. JamaisVide'
    BY <2>3, <2>4
  <2> QED
    BY <2>1, <2>2, <2>5, <2>6
<1>5. CASE Planter
  BY <1>5 DEF Planter
<1> QED
  BY <1>1, <1>2, <1>3, <1>4, <1>5 DEF Main

LEMMA FilsIInv ==
  ASSUME IInv, NEW k \in Fils, LireIndex(k) \/ LireSocket(k)
  PROVE  IInv'
<1> USE AcceptAssumption
        DEF IInv, TypeOK, EtatDeMain, SuitI, RangesEcrits, CreesAvant,
            IndexBorne, JamaisVide, ALus, Servent, Fils, ERR, STDIN
<1>1. CASE LireIndex(k)
  <2>1. k < i /\ pc # "deborde" /\ pc # "plante"
    BY <1>1 DEF LireIndex, Vivant
  <2>2. k - 1 <= t - 1 /\ t - 1 < i
    BY <2>1
  <2> QED
    BY <1>1, <2>2 DEF LireIndex
<1>2. CASE LireSocket(k)
  <2>1. index[k] < i /\ index[k] \in Int /\ k \in ALus
    BY <1>2 DEF LireSocket
  <2>2. sock'[k] \in Int
        /\ (index[k] >= 0 => sock'[k] = ERR \/ sock'[k] \in 1 .. acceptes)
    BY <1>2, <2>1 DEF LireSocket
  <2>3. /\ sock' \in [Fils -> Int]
        /\ \A n \in Fils : n # k => sock'[n] = sock[n]
    BY <1>2, <2>2 DEF LireSocket
  <2>4. JamaisVide'
    BY <1>2, <2>2, <2>3 DEF LireSocket
  <2>5. IndexBorne' /\ CreesAvant'
    BY <1>2, <2>1 DEF LireSocket
  <2> QED
    BY <1>2, <2>3, <2>4, <2>5 DEF LireSocket
<1> QED
  BY <1>1, <1>2

LEMMA ArretIInv ==
  ASSUME IInv, UNCHANGED vars
  PROVE  IInv'
  BY DEF vars, fils, IInv, TypeOK, EtatDeMain, SuitI, RangesEcrits,
         CreesAvant, IndexBorne, JamaisVide, ALus, Servent

LEMMA Invariance == Spec => []IInv
<1>1. IInv /\ [Next]_vars => IInv'
  BY MainIInv, FilsIInv, ArretIInv DEF Next, Arrete
<1> QED
  BY <1>1, InitIInv, PTL DEF Spec

(* Types of main's and the threads' variables.                             *)
THEOREM Typage == Spec => []TypeOK
  BY Invariance, PTL DEF IInv

(* The -1 of line 20 against the race on `t`: no thread reads a slot main  *)
(* has not stored, or one older than its predecessor's.                    *)
THEOREM Bornes == Spec => []IndexBorne
  BY Invariance, PTL DEF IInv

(* A thread serves a socket main stored for it or for another thread.      *)
THEOREM SocketsStockees == Spec => []JamaisVide
  BY Invariance, PTL DEF IInv

(* main's t follows i, and the slots below i have been stored.             *)
THEOREM MainSuit == Spec => []EtatDeMain
  BY Invariance, PTL DEF IInv

(* Threads never go back in the array.                                     *)
THEOREM Ordre == Spec => OrdreDesLectures
<1> DEFINE A == \A k \in ALus' \ ALus, n \in ALus : index[n] <= index'[k]
<1> DEFINE Passees == \A n \in ALus : index[n] <= t - 1
<1>1. Init => Passees
  BY DEF Init, ALus
<1>2. IInv /\ Passees /\ [Next]_vars => Passees'
  <2> SUFFICES ASSUME IInv, Passees, [Next]_vars
               PROVE  Passees'
    OBVIOUS
  <2> USE AcceptAssumption DEF IInv, TypeOK, ALus, Fils, EtatDeMain, SuitI
  <2>1. CASE Main
    <3>1. index' = index
          /\ \A n \in Fils : ou'[n] = ou[n] \/ ou'[n] = "cree"
      BY <2>1 DEF Main, Affecter, Accepter, Deborder, Creer, Planter, fils
    <3>2. t' >= t /\ t' \in Int /\ t \in Int
      BY <2>1 DEF Main, Affecter, Accepter, Deborder, Creer, Planter
    <3> SUFFICES ASSUME NEW n \in Fils, ou'[n] \in {"index", "sert"}
                 PROVE  index'[n] <= t' - 1
      OBVIOUS
    <3>3. index[n] <= t - 1 /\ index[n] \in Int
      BY <3>1
    <3> QED
      BY <3>1, <3>2, <3>3
  <2>2. ASSUME NEW k \in Fils, LireIndex(k)
        PROVE  Passees'
    BY <2>2 DEF LireIndex
  <2>3. ASSUME NEW k \in Fils, LireSocket(k)
        PROVE  Passees'
    <3>1. ALus' = ALus /\ index' = index /\ t' = t
      BY <2>3 DEF LireSocket
    <3> QED
      BY <3>1
  <2>4. CASE UNCHANGED vars
    BY <2>4 DEF vars, fils
  <2> QED
    BY <2>1, <2>2, <2>3, <2>4 DEF Next, Arrete
<1>3. IInv /\ Passees /\ [Next]_vars => [A]_vars
  <2> SUFFICES ASSUME IInv, Passees, Next
               PROVE  A
    OBVIOUS
  <2>1. ASSUME NEW k \in Fils, LireIndex(k)
        PROVE  A
    <3>1. index' = [index EXCEPT ![k] = t - 1] /\ ALus' \ ALus \subseteq {k}
      BY <2>1 DEF LireIndex, ALus, IInv, TypeOK
    <3> QED
      BY <3>1 DEF IInv, TypeOK
  <2>2. ASSUME NEW k \in Fils, LireSocket(k)
        PROVE  A
    BY <2>2 DEF LireSocket, ALus, IInv, TypeOK
  <2>3. CASE Main
    BY <2>3 DEF Main, Affecter, Accepter, Deborder, Creer, Planter, fils, ALus,
                IInv, TypeOK
  <2>4. CASE Arrete
    BY <2>4 DEF Arrete, vars, fils, ALus
  <2> QED
    BY <2>1, <2>2, <2>3, <2>4 DEF Next
<1> QED
  BY <1>1, <1>2, <1>3, Invariance, PTL DEF Spec, OrdreDesLectures
=============================================================================
