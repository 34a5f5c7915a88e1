---------------------------- MODULE ChaineProofs -----------------------------
(***************************************************************************)
(* Theorems about gererChaine, for every set of lines that fit into a word.*)
(***************************************************************************)
EXTENDS GererChaine, Recurrence, SequenceTheorems, FiniteSetTheorems

-----------------------------------------------------------------------------
(* Strings of C.                                                           *)
Octets == Caracteres \cup {NUL}

LEMMA Tuples ==
  ASSUME NEW S, NEW a \in S, NEW b \in S, NEW c \in S
  PROVE  /\ <<a>> \in Seq(S) /\ <<a, b>> \in Seq(S) /\ <<a, b, c>> \in Seq(S)
         /\ Len(<<a>>) = 1 /\ Len(<<a, b>>) = 2 /\ Len(<<a, b, c>>) = 3
<1>1. <<a, b, c>> \in [1 .. 3 -> S]
  OBVIOUS
<1>2. <<a, b, c>> \in Seq(S) /\ Len(<<a, b, c>>) = 3
  BY <1>1, SeqDef
<1>3. Len(<<a, b, c>>) = 3
  OBVIOUS
<1> QED
  BY <1>2, <1>3

LEMMA ChaineEntiere ==
  ASSUME NEW mot \in Seq(Caracteres)
  PROVE  Chaine(mot) = mot
<1>1. \A n \in 1 .. Len(mot) : mot[n] # NUL
  <2> TAKE n \in 1 .. Len(mot)
  <2>1. mot[n] \in Caracteres
    BY ElementOfSeq
  <2> QED
    BY <2>1, ChaineAssumption
<1>2. {n \in 1 .. Len(mot) : EstNul(mot[n])} = {}
  BY <1>1 DEF EstNul
<1> QED
  BY <1>2 DEF Chaine, SelectInSeq

\* The end of a buffer, and a NUL somewhere in it.
LEMMA PoserBout ==
  ASSUME NEW mot \in Seq(Caracteres), NEW c \in Caracteres
  PROVE  Poser(mot, Len(mot), c) = Append(mot, c)
<1>1. Len(mot) \in Nat /\ c # NUL
  BY LenProperties, ChaineAssumption
<1>2. Poser(mot, Len(mot), c) = [n \in 1 .. Len(mot) + 1 |->
          IF n = Len(mot) + 1 THEN c ELSE IF n <= Len(mot) THEN mot[n] ELSE NUL]
  BY <1>1 DEF Poser
<1> DEFINE a == Append(mot, c)
<1>3. a \in Seq(Caracteres) /\ Len(a) = Len(mot) + 1 /\ a[Len(mot) + 1] = c
      /\ \A n \in 1 .. Len(mot) : a[n] = mot[n]
  BY AppendProperties
<1>4. a = [n \in 1 .. Len(mot) + 1 |-> a[n]]
  BY <1>3, LenProperties
<1> HIDE DEF a
<1>5. \A n \in 1 .. Len(mot) + 1 :
          a[n] = IF n = Len(mot) + 1 THEN c ELSE IF n <= Len(mot) THEN mot[n] ELSE NUL
  BY <1>1, <1>3
<1> QED
  BY <1>2, <1>4, <1>5 DEF a

LEMMA PoserNul ==
  ASSUME NEW mot \in Seq(Caracteres), NEW k \in Nat \cup {-1}
  PROVE  /\ Poser(mot, k, NUL) \in Seq(Octets)
         /\ Len(Poser(mot, k, NUL)) = Len(mot)
         /\ Chaine(Poser(mot, k, NUL)) = IF k \in 0 .. Len(mot) - 1
                                         THEN SubSeq(mot, 1, k) ELSE mot
<1>1. Len(mot) \in Nat /\ mot \in Seq(Octets) /\ \A n \in 1 .. Len(mot) : mot[n] \in Caracteres
  BY LenProperties, SeqMonotonic DEF Octets
<1>2. CASE k \notin 0 .. Len(mot) - 1
  <2>1. Poser(mot, k, NUL) = mot
    BY <1>1, <1>2 DEF Poser
  <2> QED
    BY <1>1, <1>2, <2>1, ChaineEntiere
<1>3. CASE k \in 0 .. Len(mot) - 1
  <2> DEFINE p == Poser(mot, k, NUL)
  <2>1. p = [n \in 1 .. Len(mot) |-> IF n = k + 1 THEN NUL ELSE mot[n]]
    <3>1. p = [n \in 1 .. Len(mot) |->
                 IF n = k + 1 THEN NUL ELSE IF n <= Len(mot) THEN mot[n] ELSE NUL]
      BY <1>1, <1>3 DEF Poser
    <3> QED
      BY <1>1, <3>1
  <2>2. \A n \in 1 .. Len(mot) : (IF n = k + 1 THEN NUL ELSE mot[n]) \in Octets
    BY <1>1 DEF Octets
  <2>3. p \in Seq(Octets) /\ Len(p) = Len(mot) /\ p[k + 1] = NUL
        /\ \A n \in 1 .. Len(mot) : n # k + 1 => p[n] = mot[n]
    <3> HIDE DEF p
    <3>1. p \in [1 .. Len(mot) -> Octets]
      BY <2>1, <2>2
    <3> QED
      BY <1>1, <1>3, <2>1, <3>1
  <2> HIDE DEF p
  <2> DEFINE I == {n \in 1 .. Len(p) : EstNul(p[n])}
  <2>4. I = {k + 1}
    <3>1. \A n \in 1 .. Len(mot) : n # k + 1 => p[n] # NUL
      BY <1>1, <2>3, ChaineAssumption
    <3> QED
      BY <1>3, <2>3, <3>1 DEF EstNul
  <2>5. I # {} /\ Min(I) = k + 1
    BY <1>3, <2>4 DEF Min
  <2>6. SelectInSeq(p, EstNul) = k + 1
    BY <2>5 DEF SelectInSeq
  <2>7. Chaine(p) = SubSeq(p, 1, k)
    BY <1>3, <2>6 DEF Chaine
  <2>8. SubSeq(p, 1, k) = SubSeq(mot, 1, k)
    BY <1>1, <1>3, <2>3
  <2> QED
    BY <1>3, <2>3, <2>7, <2>8 DEF p
<1> QED
  BY <1>2, <1>3

-----------------------------------------------------------------------------
(* What the comparisons at the cursor see.                                 *)
Ligne == /\ commande \in Seq(Caracteres) /\ Len(commande) < sizeWord
         /\ i \in 0 .. Len(commande)

LEMMA Comparaisons ==
  ASSUME Ligne
  PROVE  /\ Suit(Tube) <=> i < Len(commande) /\ commande[i + 1] = "|"
         /\ \A s \in Doubles : Suit(s) <=>
                /\ i + 2 <= Len(commande)
                /\ commande[i + 1] = s[1] /\ commande[i + 2] = s[2]
         /\ Suit(Direction) <=>
                /\ i + 3 <= Len(commande)
                /\ commande[i + 1] = " " /\ commande[i + 2] = ">" /\ commande[i + 3] = " "
<1> DEFINE T == Caracteres \cup {"|", "&", " ", ">"}
<1>0. Caracteres \subseteq T /\ {"|", "&", " ", ">"} \subseteq T
  OBVIOUS
<1> HIDE DEF T
<1>1. /\ Len(commande) \in Nat /\ i \in Nat /\ commande \in Seq(T)
      /\ \A n \in 1 .. Len(commande) : commande[n] \in T
  <2>1. commande \in Seq(Caracteres) /\ i \in 0 .. Len(commande)
    BY DEF Ligne
  <2>2. commande \in Seq(T)
    BY <1>0, <2>1, SeqMonotonic
  <2> QED
    BY <2>1, <2>2, LenProperties, ElementOfSeq
<1>2. ASSUME NEW s \in Seq(T)
      PROVE  Suit(s) <=> /\ i + Len(s) <= Len(commande)
                         /\ \A n \in 1 .. Len(s) : commande[i + n] = s[n]
  <2>1. Len(s) \in Nat
    BY LenProperties
  <2> SUFFICES ASSUME i + Len(s) <= Len(commande)
               PROVE  SubSeq(commande, i + 1, i + Len(s)) = s
                      <=> \A n \in 1 .. Len(s) : commande[i + n] = s[n]
    BY <1>1, <2>1 DEF Suit
  <2> DEFINE t == SubSeq(commande, i + 1, i + Len(s))
  <2>3. t \in Seq(T) /\ Len(t) = Len(s) /\ \A n \in 1 .. Len(s) : t[n] = commande[i + n]
    BY <1>1, <2>1, SubSeqProperties
  <2> HIDE DEF t
  <2>4. t = s <=> \A n \in 1 .. Len(s) : t[n] = s[n]
    BY <2>1, <2>3, SeqEqual
  <2> QED
    BY <2>3, <2>4 DEF t
<1>3. Suit(Tube) <=> i < Len(commande) /\ commande[i + 1] = "|"
  <2>1. Tube \in Seq(T) /\ Len(Tube) = 1 /\ Tube[1] = "|"
    BY <1>0, Tuples DEF Tube
  <2>2. Suit(Tube) <=> /\ i + Len(Tube) <= Len(commande)
                    /\ \A n \in 1 .. Len(Tube) : commande[i + n] = Tube[n]
    BY <1>2, <2>1
  <2>3. \A n \in 1 .. Len(Tube) : n = 1
    BY <2>1
  <2>4. {1} \subseteq 1 .. Len(Tube)
    BY <2>1
  <2> QED
    BY <1>1, <2>1, <2>2, <2>3, <2>4
<1>4. ASSUME NEW s \in Doubles
      PROVE  Suit(s) <=> /\ i + 2 <= Len(commande)
                         /\ commande[i + 1] = s[1] /\ commande[i + 2] = s[2]
  <2>1. s \in Seq(T) /\ Len(s) = 2
    BY <1>0, Tuples DEF Doubles
  <2>2. Suit(s) <=> /\ i + Len(s) <= Len(commande)
                    /\ \A n \in 1 .. Len(s) : commande[i + n] = s[n]
    BY <1>2, <2>1
  <2>3. \A n \in 1 .. Len(s) : n = 1 \/ n = 2
    BY <2>1
  <2>4. {1, 2} \subseteq 1 .. Len(s)
    BY <2>1
  <2> QED
    BY <1>1, <2>1, <2>2, <2>3, <2>4
<1>5. Suit(Direction) <=>
                /\ i + 3 <= Len(commande)
                /\ commande[i + 1] = " " /\ commande[i + 2] = ">" /\ commande[i + 3] = " "
  <2>1. Direction \in Seq(T) /\ Len(Direction) = 3
        /\ Direction[1] = " " /\ Direction[2] = ">" /\ Direction[3] = " "
    BY <1>0, Tuples DEF Direction
  <2>2. Suit(Direction) <=> /\ i + Len(Direction) <= Len(commande)
                    /\ \A n \in 1 .. Len(Direction) : commande[i + n] = Direction[n]
    BY <1>2, <2>1
  <2>5. Len(Direction) = 3
    BY <2>1
  <2>3. \A n \in 1 .. Len(Direction) : n = 1 \/ n = 2 \/ n = 3
    BY <2>5
  <2>4. {1, 2, 3} \subseteq 1 .. Len(Direction)
    BY <2>5
  <2> QED
    BY <1>1, <2>1, <2>2, <2>3, <2>4
<1> QED
  BY <1>3, <1>4, <1>5

-----------------------------------------------------------------------------
(* The head of a sequence, one element longer.                             *)
LEMMA DebutSuivant ==
  ASSUME NEW S, NEW s \in Seq(S), NEW k \in 1 .. Len(s)
  PROVE  /\ SubSeq(s, 1, k - 1) \in Seq(S) /\ s[k] \in S
         /\ SubSeq(s, 1, k) = Append(SubSeq(s, 1, k - 1), s[k])
<1> DEFINE a == SubSeq(s, 1, k - 1)
           b == SubSeq(s, 1, k)
           c == Append(a, s[k])
<1>1. Len(s) \in Nat /\ k \in Nat /\ \A n \in 1 .. Len(s) : s[n] \in S
  BY LenProperties, ElementOfSeq
<1>2. /\ a \in Seq(S) /\ Len(a) = k - 1 /\ \A n \in 1 .. k - 1 : a[n] = s[n]
      /\ b \in Seq(S) /\ Len(b) = k /\ \A n \in 1 .. k : b[n] = s[n]
  BY <1>1, SubSeqProperties
<1> HIDE DEF a, b
<1>3. c \in Seq(S) /\ Len(c) = k /\ c[k] = s[k] /\ \A n \in 1 .. k - 1 : c[n] = s[n]
  BY <1>1, <1>2, AppendProperties
<1> HIDE DEF c
<1>4. \A n \in 1 .. k : b[n] = c[n]
  BY <1>1, <1>2, <1>3
<1>5. b = c
  BY <1>2, <1>3, <1>4, SeqEqual
<1> QED
  BY <1>1, <1>2, <1>5 DEF a, b, c

-----------------------------------------------------------------------------
(* What is left of a sequence without some characters, element by element. *)
Filtre(f, s, B, S) ==
    /\ f \in [0 .. Len(s) -> Seq(S)]
    /\ f[0] = <<>> /\ Sans(s, B) = f[Len(s)]
    /\ \A k \in 1 .. Len(s) : f[k] = IF s[k] \in B THEN f[k - 1] ELSE Append(f[k - 1], s[k])

LEMMA FiltreExiste ==
  ASSUME NEW S, NEW s \in Seq(S), NEW B
  PROVE  \E f : Filtre(f, s, B, S)
<1> DEFINE n == Len(s)
           G == [x \in (1 .. n) \X Seq(S) |->
                    IF s[x[1]] \in B THEN x[2] ELSE Append(x[2], s[x[1]])]
           Suivant(c) == c = [k \in 0 .. n |->
               IF k = 0 THEN <<>>
               ELSE IF s[k] \in B THEN c[k - 1] ELSE Append(c[k - 1], s[k])]
           c0 == CHOOSE c : Suivant(c)
<1>0. n \in Nat /\ \A k \in 1 .. n : s[k] \in S
  BY LenProperties, ElementOfSeq
<1>1. \A k \in 1 .. n : \A x \in Seq(S) :
          /\ G[<<k, x>>] = IF s[k] \in B THEN x ELSE Append(x, s[k])
          /\ G[<<k, x>>] \in Seq(S)
  <2> TAKE k \in 1 .. n
  <2> TAKE x \in Seq(S)
  <2>1. G[<<k, x>>] = IF s[k] \in B THEN x ELSE Append(x, s[k])
    OBVIOUS
  <2> HIDE DEF G
  <2> QED
    BY <1>0, <2>1, AppendProperties
<1>1a. <<>> \in Seq(S)
  BY EmptySeq
<1> HIDE DEF G
<1>2. PICK f : Recurrente(f, n, Seq(S), <<>>, G)
  BY <1>0, <1>1, <1>1a, RecurrenteExiste
<1>3. /\ f \in [0 .. n -> Seq(S)] /\ f[0] = <<>>
      /\ \A k \in 1 .. n : f[k] = IF s[k] \in B THEN f[k - 1] ELSE Append(f[k - 1], s[k])
  <2>1. /\ f \in [0 .. n -> Seq(S)] /\ f[0] = <<>>
        /\ \A k \in 1 .. n : f[k] = G[<<k, f[k - 1]>>]
    BY <1>2 DEF Recurrente
  <2>2. \A k \in 1 .. n : k - 1 \in 0 .. n
    BY <1>0
  <2> QED
    BY <1>1, <2>1, <2>2
<1>4. Suivant(f)
  <2>1. \A k \in 0 .. n : f[k] = IF k = 0 THEN <<>>
            ELSE IF s[k] \in B THEN f[k - 1] ELSE Append(f[k - 1], s[k])
    <3> TAKE k \in 0 .. n
    <3>1. CASE k = 0
      BY <1>3, <3>1
    <3>2. CASE k # 0
      <4>1. k \in 1 .. n
        BY <1>0, <3>2
      <4> HIDE DEF n
      <4> QED
        BY <1>3, <3>2, <4>1
    <3> QED
      BY <3>1, <3>2
  <2> QED
    BY <1>3, <2>1
<1>5. Suivant(c0)
  BY <1>4
<1>6. Sans(s, B) = c0[n]
  BY DEF Sans
<1> HIDE DEF c0
<1>7. c0[0] = <<>> /\ \A k \in 1 .. n :
          c0[k] = IF s[k] \in B THEN c0[k - 1] ELSE Append(c0[k - 1], s[k])
  <2>1. 0 \in 0 .. n /\ \A k \in 1 .. n : k \in 0 .. n /\ k # 0
    BY <1>0
  <2>2. \A k \in 0 .. n : c0[k] = IF k = 0 THEN <<>>
            ELSE IF s[k] \in B THEN c0[k - 1] ELSE Append(c0[k - 1], s[k])
    BY <1>5
  <2> HIDE DEF n
  <2> QED
    BY <2>1, <2>2
<1>8. \A k \in 1 .. n : c0[k - 1] = f[k - 1] => c0[k] = f[k]
  BY <1>3, <1>7
<1>9. c0[0] = f[0]
  BY <1>3, <1>7
<1> HIDE DEF n
<1>10. \A k \in 0 .. n : c0[k] = f[k]
  BY ONLY <1>0, <1>8, <1>9, RecurrenteUnique, ZenonT(40)
<1>11. Sans(s, B) = f[n]
  BY <1>0, <1>6, <1>10
<1> QED
  BY <1>3, <1>11 DEF Filtre, n

LEMMA SansRien ==
  ASSUME NEW B
  PROVE  Sans(<<>>, B) = <<>>
<1> DEFINE S == {}
<1>1. <<>> \in Seq(S) /\ Len(<<>>) = 0
  BY EmptySeq
<1>2. PICK f : Filtre(f, <<>>, B, S)
  BY <1>1, FiltreExiste
<1> QED
  BY <1>1, <1>2 DEF Filtre

LEMMA SansAjout ==
  ASSUME NEW S, NEW s \in Seq(S), NEW c \in S, NEW B
  PROVE  /\ Sans(s, B) \in Seq(S)
         /\ Sans(Append(s, c), B) = IF c \in B THEN Sans(s, B) ELSE Append(Sans(s, B), c)
<1> DEFINE t == Append(s, c)
           n == Len(s)
<1>1. /\ t \in Seq(S) /\ Len(t) = n + 1 /\ n \in Nat /\ t[n + 1] = c
      /\ \A k \in 1 .. n : t[k] = s[k]
  BY AppendProperties, LenProperties
<1> HIDE DEF t
<1>2. PICK f : Filtre(f, s, B, S)
  BY FiltreExiste
<1>3. PICK g : Filtre(g, t, B, S)
  BY <1>1, FiltreExiste
<1>4. /\ f[0] = <<>> /\ Sans(s, B) = f[n] /\ f[n] \in Seq(S)
      /\ \A k \in 1 .. n : f[k] = IF s[k] \in B THEN f[k - 1] ELSE Append(f[k - 1], s[k])
  BY <1>1, <1>2 DEF Filtre
<1>5. /\ g[0] = <<>> /\ Sans(t, B) = g[n + 1]
      /\ \A k \in 1 .. n + 1 : g[k] = IF t[k] \in B THEN g[k - 1] ELSE Append(g[k - 1], t[k])
  BY <1>1, <1>3 DEF Filtre
<1>6. \A k \in 1 .. n : f[k - 1] = g[k - 1] => f[k] = g[k]
  BY <1>1, <1>4, <1>5
<1> HIDE DEF n
<1>7. \A k \in 0 .. n : f[k] = g[k]
  <2>1. f[0] = g[0] /\ n \in Nat
    BY <1>1, <1>4, <1>5
  <2> QED
    BY ONLY <1>6, <2>1, RecurrenteUnique, ZenonT(40)
<1>8. g[n + 1] = IF c \in B THEN g[n] ELSE Append(g[n], c)
  BY <1>1, <1>5
<1>9. f[n] = g[n]
  BY <1>1, <1>7
<1> QED
  BY <1>4, <1>5, <1>8, <1>9 DEF t

(* Without nothing, all is left.                                           *)
LEMMA SansRienOter ==
  ASSUME NEW S, NEW s \in Seq(S)
  PROVE  Sans(s, {}) = s
<1> DEFINE n == Len(s)
           K == {k \in 0 .. n : Sans(SubSeq(s, 1, k), {}) = SubSeq(s, 1, k)}
<1>1. n \in Nat
  BY LenProperties
<1>2. 0 \in K
  <2>1. SubSeq(s, 1, 0) = <<>>
    BY SubSeqEmpty
  <2>2. Sans(<<>>, {}) = <<>>
    BY SansRien
  <2>3. Sans(SubSeq(s, 1, 0), {}) = SubSeq(s, 1, 0)
    BY <2>1, <2>2, Zenon
  <2> QED
    BY <1>1, <2>3
<1>3. ASSUME NEW k \in 1 .. n, k - 1 \in K PROVE k \in K
  <2>1. SubSeq(s, 1, k) = Append(SubSeq(s, 1, k - 1), s[k]) /\ SubSeq(s, 1, k - 1) \in Seq(S)
        /\ s[k] \in S
    BY <1>1, DebutSuivant
  <2>2. Sans(Append(SubSeq(s, 1, k - 1), s[k]), {}) = Append(Sans(SubSeq(s, 1, k - 1), {}), s[k])
    <3>1. \A a \in Seq(S) : \A c \in S : Sans(Append(a, c), {}) = Append(Sans(a, {}), c)
      BY SansAjout
    <3> QED
      BY <2>1, <3>1, Zenon
  <2>3. Sans(SubSeq(s, 1, k - 1), {}) = SubSeq(s, 1, k - 1)
    BY <1>3
  <2>4. Sans(SubSeq(s, 1, k), {}) = SubSeq(s, 1, k)
    BY <2>1, <2>2, <2>3, Zenon
  <2> QED
    BY <1>1, <2>4
<1> HIDE DEF K
<1>4. n \in K
  BY <1>1, <1>2, <1>3, ParRecurrence, SMTT(30)
<1> QED
  BY <1>4, SubSeqFull DEF K

-----------------------------------------------------------------------------
(* Words put together, one by one.                                         *)
Colle(f, ms, S) ==
    /\ f \in [0 .. Len(ms) -> Seq(S)]
    /\ f[0] = <<>> /\ FlattenSeq(ms) = f[Len(ms)]
    /\ \A k \in 1 .. Len(ms) : f[k] = f[k - 1] \o ms[k]

LEMMA ColleExiste ==
  ASSUME NEW S, NEW ms \in Seq(Seq(S))
  PROVE  \E f : Colle(f, ms, S)
<1> DEFINE n == Len(ms)
           G == [x \in (1 .. n) \X Seq(S) |-> x[2] \o ms[x[1]]]
           Suivant(c) == c = [k \in 1 .. n |-> IF k = 1 THEN ms[k] ELSE c[k - 1] \o ms[k]]
           c0 == CHOOSE c : Suivant(c)
           d == [k \in 0 .. n |-> IF k = 0 THEN <<>> ELSE c0[k]]
<1>0. n \in Nat /\ \A k \in 1 .. n : ms[k] \in Seq(S)
  BY LenProperties, ElementOfSeq
<1>1. \A k \in 1 .. n : \A x \in Seq(S) : G[<<k, x>>] = x \o ms[k] /\ G[<<k, x>>] \in Seq(S)
  <2> TAKE k \in 1 .. n
  <2> TAKE x \in Seq(S)
  <2>1. G[<<k, x>>] = x \o ms[k]
    OBVIOUS
  <2> HIDE DEF G
  <2> QED
    BY <1>0, <2>1, ConcatProperties
<1>2. <<>> \in Seq(S)
  BY EmptySeq
<1> HIDE DEF G
<1>3. PICK f : Recurrente(f, n, Seq(S), <<>>, G)
  BY <1>0, <1>1, <1>2, RecurrenteExiste
<1>4. /\ f \in [0 .. n -> Seq(S)] /\ f[0] = <<>>
      /\ \A k \in 1 .. n : f[k] = f[k - 1] \o ms[k]
  <2>1. /\ f \in [0 .. n -> Seq(S)] /\ f[0] = <<>>
        /\ \A k \in 1 .. n : f[k] = G[<<k, f[k - 1]>>]
    BY <1>3 DEF Recurrente
  <2>2. \A k \in 1 .. n : k - 1 \in 0 .. n
    BY <1>0
  <2> QED
    BY <1>1, <2>1, <2>2
<1>5. n > 0 => f[1] = ms[1]
  <2> HAVE n > 0
  <2>0. 1 \in 1 .. n /\ 1 - 1 = 0
    BY <1>0
  <2>1. f[1] = <<>> \o ms[1]
    <3>1. f[1] = f[1 - 1] \o ms[1]
      BY <1>4, <2>0
    <3> QED
      BY <1>4, <2>0, <3>1, Zenon
  <2> QED
    BY <1>0, <2>0, <2>1, ConcatEmptySeq
<1>6. \E c : Suivant(c)
  <2> DEFINE g == [k \in 1 .. n |-> f[k]]
  <2>1. \A k \in 1 .. n : g[k] = IF k = 1 THEN ms[k] ELSE g[k - 1] \o ms[k]
    <3> TAKE k \in 1 .. n
    <3>1. CASE k = 1
      BY <1>0, <1>5, <3>1
    <3>2. CASE k # 1
      <4>1. k - 1 \in 1 .. n
        BY <1>0, <3>2
      <4> QED
        BY <1>4, <3>2, <4>1
    <3> QED
      BY <3>1, <3>2
  <2>2. g = [k \in 1 .. n |-> g[k]]
    OBVIOUS
  <2> HIDE DEF g
  <2>3. Suivant(g)
    BY <2>1, <2>2
  <2> QED
    BY <2>3
<1>7. Suivant(c0)
  BY <1>6
<1>8. FlattenSeq(ms) = IF n = 0 THEN ms ELSE c0[n]
  BY DEF FlattenSeq
<1> HIDE DEF c0
<1>9. \A k \in 1 .. n : c0[k] = IF k = 1 THEN ms[k] ELSE c0[k - 1] \o ms[k]
  <2> HIDE DEF n
  <2> QED
    BY <1>7
<1>10. d[0] = <<>> /\ \A k \in 1 .. n : d[k] = c0[k]
  BY <1>0
<1> HIDE DEF d
<1>11. ASSUME NEW k \in 1 .. n, d[k - 1] = f[k - 1] PROVE d[k] = f[k]
  <2>1. CASE k = 1
    BY <1>0, <1>5, <1>9, <1>10, <2>1
  <2>2. CASE k # 1
    <3>1. k - 1 \in 1 .. n
      BY <1>0, <2>2
    <3>2. c0[k] = c0[k - 1] \o ms[k] /\ d[k] = c0[k] /\ d[k - 1] = c0[k - 1]
      BY <1>9, <1>10, <2>2, <3>1
    <3> QED
      BY <1>4, <1>11, <3>2
  <2> QED
    BY <2>1, <2>2
<1> HIDE DEF n
<1>12. \A k \in 0 .. n : d[k] = f[k]
  <2>1. d[0] = f[0]
    BY <1>4, <1>10
  <2>2. \A k \in 1 .. n : d[k - 1] = f[k - 1] => d[k] = f[k]
    BY <1>11
  <2> QED
    BY ONLY <1>0, <2>1, <2>2, RecurrenteUnique, ZenonT(40)
<1>13. FlattenSeq(ms) = f[n]
  <2>1. CASE n = 0
    <3>1. ms = <<>>
      BY <2>1, EmptySeq DEF n
    <3> QED
      BY <1>4, <1>8, <2>1, <3>1
  <2>2. CASE n # 0
    BY <1>0, <1>8, <1>10, <1>12, <2>2
  <2> QED
    BY <2>1, <2>2
<1> QED
  BY <1>4, <1>13 DEF Colle, n

LEMMA ColleAjout ==
  ASSUME NEW S, NEW ms \in Seq(Seq(S)), NEW w \in Seq(S)
  PROVE  FlattenSeq(ms) \in Seq(S) /\ FlattenSeq(Append(ms, w)) = FlattenSeq(ms) \o w
<1> DEFINE t == Append(ms, w)
           n == Len(ms)
<1>1. /\ t \in Seq(Seq(S)) /\ Len(t) = n + 1 /\ n \in Nat /\ t[n + 1] = w
      /\ \A k \in 1 .. n : t[k] = ms[k]
  BY AppendProperties, LenProperties
<1> HIDE DEF t
<1>2. PICK f : Colle(f, ms, S)
  BY ColleExiste
<1>3. PICK g : Colle(g, t, S)
  BY <1>1, ColleExiste
<1>4. /\ f[0] = <<>> /\ FlattenSeq(ms) = f[n] /\ f[n] \in Seq(S)
      /\ \A k \in 1 .. n : f[k] = f[k - 1] \o ms[k]
  BY <1>1, <1>2 DEF Colle
<1>5. /\ g[0] = <<>> /\ FlattenSeq(t) = g[n + 1]
      /\ \A k \in 1 .. n + 1 : g[k] = g[k - 1] \o t[k]
  BY <1>1, <1>3 DEF Colle
<1>6. ASSUME NEW k \in 1 .. n, f[k - 1] = g[k - 1] PROVE f[k] = g[k]
  <2>1. k \in 1 .. n + 1
    BY <1>1
  <2>2. f[k] = f[k - 1] \o ms[k] /\ g[k] = g[k - 1] \o t[k] /\ t[k] = ms[k]
    BY <1>1, <1>4, <1>5, <2>1
  <2> QED
    BY <1>6, <2>2, Zenon
<1> HIDE DEF n
<1>7. \A k \in 0 .. n : f[k] = g[k]
  <2>1. f[0] = g[0] /\ n \in Nat
    BY <1>1, <1>4, <1>5
  <2>2. \A k \in 1 .. n : f[k - 1] = g[k - 1] => f[k] = g[k]
    BY <1>6
  <2> QED
    BY ONLY <2>1, <2>2, RecurrenteUnique, ZenonT(40)
<1>8. g[n + 1] = g[n] \o w
  <2>a. PICK m : m = n + 1
    OBVIOUS
  <2>b. n \in Nat
    BY <1>1
  <2>1. m \in 1 .. n + 1 /\ m - 1 = n
    BY ONLY <2>a, <2>b
  <2>2. g[m] = g[m - 1] \o t[m]
    BY <1>5, <2>1
  <2>3. t[m] = w
    BY <1>1, <2>a
  <2> QED
    BY <2>a, <2>1, <2>2, <2>3, ZenonT(40)
<1>9. f[n] = g[n]
  BY <1>1, <1>7
<1> QED
  BY <1>4, <1>5, <1>8, <1>9 DEF t

-----------------------------------------------------------------------------
(* The cursors: none is ahead of the one in the line, and that in the word *)
(* is at its end.  The words to come are empty.                            *)
Bornes ==
    /\ Ligne
    /\ j \in 0 .. i /\ nbEspace \in 0 .. i /\ indexCommandes \in 0 .. i
    /\ nbCommandes \in Nat
    /\ Fini => nbCommandes = indexCommandes + 1 /\ i = Len(commande)

Curseur ==
    /\ commandeSansEspaces \in [Rangs -> Seq(Octets)]
    /\ \A k \in Rangs : Len(commandeSansEspaces[k]) < sizeWord
    /\ \A k \in Rangs : k > indexCommandes => commandeSansEspaces[k] = <<>>
    /\ Courant \in Seq(Caracteres) /\ Len(Courant) = j

\* What the cursor of the line may pass beyond a separator.
LEMMA BlancSaute ==
  ASSUME NEW k \in Nat
  PROVE  /\ UnSi(Espace(k)) \in {0, 1}
         /\ UnSi(Espace(k)) = 1 => k < Len(commande) /\ commande[k + 1] \in Blancs
<1>1. CASE Espace(k)
  BY <1>1 DEF UnSi, Espace, Car
<1>2. CASE ~Espace(k)
  BY <1>2 DEF UnSi
<1> QED
  BY <1>1, <1>2

LEMMA DansLigne ==
  ASSUME Bornes
  PROVE  /\ i \in Nat /\ j \in Nat /\ Len(commande) \in Nat /\ indexCommandes \in Nat
         /\ nbEspace \in Nat /\ sizelgcmd \in Nat /\ sizeWord \in Nat
         /\ Len(commande) < sizelgcmd /\ indexCommandes \in Rangs
         /\ i < Len(commande) => nbCommandes = 0 /\ commande[i + 1] \in Caracteres
<1>1. Len(commande) \in Nat
  BY LenProperties DEF Bornes, Ligne
<1>2. i < Len(commande) => commande[i + 1] \in Caracteres
  <2> HAVE i < Len(commande)
  <2>1. i + 1 \in 1 .. Len(commande)
    BY <1>1 DEF Bornes, Ligne
  <2> QED
    BY <2>1, ElementOfSeq DEF Bornes, Ligne
<1>3. sizelgcmd \in Nat /\ sizeWord \in Nat /\ sizeWord <= sizelgcmd
  BY ChaineAssumption
<1> QED
  BY <1>1, <1>2, <1>3 DEF Bornes, Ligne, Rangs, Fini

LEMMA RetourPas ==
  ASSUME Bornes, Curseur, PasserRetourLigne
  PROVE  /\ Bornes' /\ Curseur' /\ i < Len(commande)
         /\ commande[i + 1] = "\n" /\ i' = i + 1
<1>1. i < Len(commande) /\ commande[i + 1] = "\n"
  BY DEF PasserRetourLigne, RetourLigne, Boucle, Car
<1>2. Bornes'
  BY <1>1, DansLigne DEF Bornes, Ligne, PasserRetourLigne, Fini
<1>3. Curseur'
  BY DEF Curseur, Courant, PasserRetourLigne
<1> QED
  BY <1>1, <1>2, <1>3 DEF PasserRetourLigne

LEMMA CouperPas ==
  ASSUME Bornes, Curseur, Couper
  PROVE  /\ Bornes' /\ Curseur' /\ i < Len(commande) /\ commande[i + 1] = ";"
         /\ Courant' = <<>>
         /\ \/ i' = i + 1
            \/ i' = i + 2 /\ i + 2 <= Len(commande) /\ commande[i + 2] \in Blancs
<1>1. i < Len(commande) /\ commande[i + 1] = ";"
  BY DEF Couper, PointVirgule, Boucle, Car
<1>1a. i < Len(commande)
  BY <1>1
<1>2. \/ i' = i + 1
      \/ i' = i + 2 /\ i + 2 <= Len(commande) /\ commande[i + 2] \in Blancs
  <2>1. i + 1 \in Nat /\ i + 1 + 1 = i + 2
    BY DansLigne
  <2> QED
    BY <2>1, DansLigne, BlancSaute DEF Couper
<1>2a. i' \in {i + 1, i + 2} /\ i' <= Len(commande)
  BY <1>1a, <1>2, DansLigne
<1>3. Bornes'
  BY <1>1a, <1>2a, DansLigne DEF Bornes, Ligne, Couper, Fini
<1>4. Courant' = <<>>
  <2>1. indexCommandes + 1 \in Rangs
    BY <1>1a, DansLigne DEF Rangs, Bornes
  <2> QED
    BY <2>1, DansLigne DEF Couper, Curseur, Courant
<1>5. Curseur'
  <2>1. <<>> \in Seq(Caracteres) /\ Len(<<>>) = 0
    BY EmptySeq
  <2> QED
    BY <1>4, <2>1, DansLigne DEF Couper, Curseur, Rangs
<1> QED
  BY <1>1, <1>2, <1>3, <1>4, <1>5

LEMMA DoublePas ==
  ASSUME Bornes, Curseur, CouperDouble
  PROVE  /\ Bornes' /\ Curseur' /\ i + 2 <= Len(commande)
         /\ commande[i + 1] \in {"|", "&"} /\ commande[i + 2] = commande[i + 1]
         /\ indexCommandes + 1 \in Rangs
         /\ commandeSansEspaces' = [commandeSansEspaces EXCEPT
                ![indexCommandes + 1] = <<commande[i + 1], commande[i + 2]>>]
         /\ Courant' = <<>>
         /\ \/ i' = i + 2
            \/ i' = i + 3 /\ i + 3 <= Len(commande) /\ commande[i + 3] \in Blancs
<1>1. PICK s \in Doubles :
          Suit(s) /\ commandeSansEspaces' =
                         [commandeSansEspaces EXCEPT ![indexCommandes + 1] = s]
  BY DEF CouperDouble
<1>2. i + 2 <= Len(commande) /\ commande[i + 1] = s[1] /\ commande[i + 2] = s[2]
  BY <1>1, Comparaisons DEF Bornes
<1>3. s = <<s[1], s[2]>> /\ s[1] \in {"|", "&"} /\ s[2] = s[1]
  BY DEF Doubles
<1>4. s = <<commande[i + 1], commande[i + 2]>>
  BY <1>2, <1>3
<1>5. \/ i' = i + 2
      \/ i' = i + 3 /\ i + 3 <= Len(commande) /\ commande[i + 3] \in Blancs
  <2>1. i + 2 \in Nat /\ i + 2 + 1 = i + 3
    BY DansLigne
  <2> QED
    BY <2>1, DansLigne, BlancSaute DEF CouperDouble
<1>6. Bornes'
  BY <1>2, <1>5, DansLigne DEF Bornes, Ligne, CouperDouble, Fini
<1>7. indexCommandes + 1 \in Rangs /\ indexCommandes + 2 \in Rangs
  BY <1>2, DansLigne DEF Rangs, Bornes
<1>8. s \in Seq(Octets) /\ Len(s) < sizeWord
  <2>1. i + 1 \in 1 .. Len(commande) /\ i + 2 \in 1 .. Len(commande) /\ 2 <= Len(commande)
    BY <1>2, DansLigne
  <2>2. commande[i + 1] \in Octets /\ commande[i + 2] \in Octets
    BY <2>1, ElementOfSeq DEF Bornes, Ligne, Octets
  <2> QED
    BY <1>4, <2>1, <2>2, Tuples, DansLigne DEF Bornes, Ligne
<1>9. Courant' = <<>>
  <2>1. indexCommandes + 2 # indexCommandes + 1 /\ indexCommandes + 2 > indexCommandes
    BY DansLigne
  <2>2. commandeSansEspaces'[indexCommandes + 2] = commandeSansEspaces[indexCommandes + 2]
    BY <1>1, <1>7, <2>1 DEF Curseur
  <2> QED
    BY <1>7, <2>1, <2>2 DEF CouperDouble, Curseur, Courant
<1>10. Curseur'
  <2>1. <<>> \in Seq(Caracteres) /\ Len(<<>>) = 0
    BY EmptySeq
  <2>2. /\ commandeSansEspaces' \in [Rangs -> Seq(Octets)]
        /\ \A k \in Rangs : Len(commandeSansEspaces'[k]) < sizeWord
    BY <1>1, <1>7, <1>8 DEF Curseur
  <2>3. ASSUME NEW k \in Rangs, k > indexCommandes + 2
        PROVE  commandeSansEspaces'[k] = <<>>
    <3>1. k > indexCommandes /\ k # indexCommandes + 1
      BY <2>3, DansLigne DEF Rangs
    <3> QED
      BY <1>1, <3>1 DEF Curseur
  <2> QED
    BY <1>9, <2>1, <2>2, <2>3 DEF CouperDouble, Curseur
<1> QED
  BY <1>1, <1>2, <1>3, <1>4, <1>5, <1>6, <1>7, <1>9, <1>10

LEMMA TubePas ==
  ASSUME Bornes, Curseur, CouperTube
  PROVE  /\ Bornes' /\ Curseur' /\ i + 2 <= Len(commande)
         /\ commande[i + 1] = "|" /\ commande[i + 2] # "|"
         /\ indexCommandes + 1 \in Rangs
         /\ commandeSansEspaces' = [commandeSansEspaces EXCEPT
                ![indexCommandes] = Poser(Courant, i - 1, NUL),
                ![indexCommandes + 1] = Tube]
         /\ Courant' = <<>>
         /\ \/ i' = i + 2
            \/ i' = i + 3 /\ i + 3 <= Len(commande) /\ commande[i + 3] \in Blancs
<1> DEFINE mot == Poser(Courant, i - 1, NUL)
<1>1. commande[i + 1] = "|" /\ commande[i + 2] # "|"
  <2>1. Suit(Tube) /\ i + 2 <= Len(commande) /\ \A s \in Doubles : ~Suit(s)
    BY DansLigne DEF CouperTube, TubeSeul, Double
  <2>2. <<"|", "|">> \in Doubles
    BY DEF Doubles
  <2> QED
    BY <2>1, <2>2, Comparaisons DEF Bornes
<1>2. i + 2 <= Len(commande)
  BY DansLigne DEF CouperTube, TubeSeul
<1>3. commandeSansEspaces' = [commandeSansEspaces EXCEPT
          ![indexCommandes] = mot, ![indexCommandes + 1] = Tube]
  BY DEF CouperTube, Courant
<1>4. \/ i' = i + 2
      \/ i' = i + 3 /\ i + 3 <= Len(commande) /\ commande[i + 3] \in Blancs
  <2>1. i + 2 \in Nat /\ i + 2 + 1 = i + 3
    BY DansLigne
  <2> QED
    BY <2>1, DansLigne, BlancSaute, SMTT(30) DEF CouperTube
<1>5. Bornes'
  <2>1. i' \in {i + 2, i + 3} /\ i' <= Len(commande)
    BY <1>2, <1>4
  <2> QED
    BY <1>2, <2>1, DansLigne DEF Bornes, Ligne, CouperTube, Fini
<1>6. /\ indexCommandes \in Rangs /\ indexCommandes + 1 \in Rangs
      /\ indexCommandes + 2 \in Rangs
  BY <1>2, DansLigne DEF Rangs, Bornes
<1>7. mot \in Seq(Octets) /\ Len(mot) < sizeWord
  <2>1. i - 1 \in Nat \cup {-1}
    BY DansLigne
  <2> QED
    BY <1>6, <2>1, PoserNul DEF Curseur, Courant
<1>8. Tube \in Seq(Octets) /\ Len(Tube) < sizeWord
  <2>1. i + 1 \in 1 .. Len(commande) /\ 2 <= Len(commande)
    BY <1>2, DansLigne
  <2>2. commande[i + 1] \in Octets
    BY <2>1, ElementOfSeq DEF Bornes, Ligne, Octets
  <2>3. Tube \in Seq(Octets) /\ Len(Tube) = 1
    BY <1>1, <2>2, Tuples DEF Tube
  <2> QED
    BY <2>1, <2>3, DansLigne DEF Bornes, Ligne
<1> HIDE DEF mot
<1>9. Courant' = <<>>
  <2>1. /\ indexCommandes + 2 # indexCommandes + 1 /\ indexCommandes + 2 > indexCommandes
        /\ indexCommandes + 2 # indexCommandes
    BY DansLigne
  <2>2. commandeSansEspaces'[indexCommandes + 2] = commandeSansEspaces[indexCommandes + 2]
    BY <1>3, <1>6, <2>1 DEF Curseur
  <2> QED
    BY <1>6, <2>1, <2>2 DEF CouperTube, Curseur, Courant
<1>10. Curseur'
  <2>1. <<>> \in Seq(Caracteres) /\ Len(<<>>) = 0
    BY EmptySeq
  <2>2. /\ commandeSansEspaces' \in [Rangs -> Seq(Octets)]
        /\ \A k \in Rangs : Len(commandeSansEspaces'[k]) < sizeWord
    BY <1>3, <1>6, <1>7, <1>8 DEF Curseur
  <2>3. ASSUME NEW k \in Rangs, k > indexCommandes + 2
        PROVE  commandeSansEspaces'[k] = <<>>
    <3>1. k > indexCommandes /\ k # indexCommandes + 1 /\ k # indexCommandes
      BY <2>3, DansLigne DEF Rangs
    <3> QED
      BY <1>3, <3>1 DEF Curseur
  <2> QED
    BY <1>9, <2>1, <2>2, <2>3 DEF CouperTube, Curseur
<1> QED
  BY <1>1, <1>2, <1>3, <1>4, <1>5, <1>6, <1>9, <1>10 DEF mot

\* The word that is read grows.
Grandit(mot) ==
    /\ commandeSansEspaces' = [commandeSansEspaces EXCEPT ![indexCommandes] = mot]
    /\ indexCommandes' = indexCommandes /\ j' = Len(mot)

LEMMA Grandir ==
  ASSUME Bornes, Curseur, NEW mot \in Seq(Caracteres), Len(mot) < sizeWord, Grandit(mot)
  PROVE  Curseur' /\ Courant' = mot
<1>1. indexCommandes \in Rangs /\ mot \in Seq(Octets)
  BY DansLigne, SeqMonotonic DEF Octets
<1>2. Courant' = mot
  BY <1>1 DEF Grandit, Courant, Curseur
<1>3. \A k \in Rangs : k > indexCommandes => commandeSansEspaces'[k] = <<>>
  BY DansLigne DEF Grandit, Curseur, Rangs
<1> QED
  BY <1>1, <1>2, <1>3 DEF Grandit, Curseur

LEMMA DirectionEst ==
  ASSUME Bornes, Suit(Direction)
  PROVE  /\ i + 3 <= Len(commande) /\ Direction \in Seq(Caracteres) /\ Len(Direction) = 3
         /\ commande[i + 1] = " " /\ commande[i + 2] = ">" /\ commande[i + 3] = " "
<1>1. /\ i + 3 <= Len(commande)
      /\ commande[i + 1] = " " /\ commande[i + 2] = ">" /\ commande[i + 3] = " "
  BY Comparaisons DEF Bornes
<1>2. i + 1 \in 1 .. Len(commande) /\ i + 2 \in 1 .. Len(commande) /\ i + 3 \in 1 .. Len(commande)
  <2>1. i + 3 <= Len(commande)
    BY <1>1
  <2> QED
    BY <2>1, DansLigne
<1>3. \A k \in 1 .. Len(commande) : commande[k] \in Caracteres
  BY ElementOfSeq DEF Bornes, Ligne
<1>4. " " \in Caracteres /\ ">" \in Caracteres
  BY <1>1, <1>2, <1>3
<1> QED
  BY <1>1, <1>4, Tuples DEF Direction

LEMMA RedirigerPas ==
  ASSUME Bornes, Curseur, Rediriger
  PROVE  /\ Bornes' /\ Curseur' /\ i' = i + 3 /\ i + 3 <= Len(commande)
         /\ commande[i + 1] = " " /\ commande[i + 2] = ">" /\ commande[i + 3] = " "
         /\ Grandit(Courant \o Direction) /\ Courant' = Courant \o Direction
         /\ nbEspace' = nbEspace
<1>1. Suit(Direction)
  BY DEF Rediriger
<1>2. Courant \in Seq(Caracteres) /\ Len(Courant) = j /\ Chaine(Courant) = Courant
  BY ChaineEntiere DEF Curseur
<1>3. i + 3 <= Len(commande) /\ Direction \in Seq(Caracteres) /\ Len(Direction) = 3
  BY <1>1, DirectionEst
<1> DEFINE mot == Courant \o Direction
<1>4. mot \in Seq(Caracteres) /\ Len(mot) = j + 3
  <2>1. mot \in Seq(Caracteres) /\ Len(mot) = Len(Courant) + Len(Direction)
    <3>1. \A a, b \in Seq(Caracteres) : /\ a \o b \in Seq(Caracteres)
                                       /\ Len(a \o b) = Len(a) + Len(b)
      BY ConcatProperties
    <3>2. Courant \in Seq(Caracteres) /\ Direction \in Seq(Caracteres)
      BY <1>2, <1>3
    <3> QED
      BY <3>1, <3>2
  <2> HIDE DEF mot
  <2> QED
    BY <1>2, <1>3, <2>1
<1>5. Grandit(mot)
  BY <1>2, <1>4 DEF Rediriger, Ecrire, Grandit
<1>6. Bornes'
  BY <1>3, DansLigne DEF Bornes, Ligne, Rediriger, Fini
<1>7. Len(mot) < sizeWord
  BY <1>3, <1>4, DansLigne DEF Bornes, Ligne
<1> HIDE DEF mot
<1>8. Curseur' /\ Courant' = mot
  BY <1>4, <1>5, <1>7, Grandir
<1> QED
  BY <1>1, <1>3, <1>5, <1>6, <1>8, DirectionEst DEF Rediriger, mot

\* A character is passed, or written at the end of the word.
Passe ==
    /\ UNCHANGED <<indexCommandes, j, commandeSansEspaces>>
    /\ \/ nbEspace = 0 /\ AvantDouble /\ nbEspace' = 0
       \/ nbEspace > 0 /\ commande[i + 1] \in Blancs /\ nbEspace' \in {nbEspace, nbEspace + 1}

Ecrit ==
    /\ Grandit(Append(Courant, commande[i + 1])) /\ Courant' = Append(Courant, commande[i + 1])
    /\ \/ nbEspace = 0 /\ ~AvantDouble
          /\ \/ nbEspace' = 0
             \/ nbEspace' = 1 /\ commande[i + 1] \in Blancs
       \/ nbEspace > 0 /\ commande[i + 1] \notin Blancs /\ nbEspace' = nbEspace

LEMMA CopierPas ==
  ASSUME Bornes, Curseur, Copier
  PROVE  /\ Bornes' /\ Curseur' /\ i' = i + 1 /\ i < Len(commande)
         /\ commande[i + 1] \notin {"\n", ";"}
         /\ ~Double /\ ~TubeSeul /\ ~Suit(Direction)
         /\ Passe \/ Ecrit
<1> DEFINE c == commande[i + 1]
           mot == Poser(Courant, j, c)
<1>1. /\ i < Len(commande) /\ i' = i + 1 /\ c \notin {"\n", ";"}
      /\ ~Double /\ ~TubeSeul /\ ~Suit(Direction)
  BY DEF Copier, Texte, Boucle, RetourLigne, PointVirgule, Car
<1>0. i < Len(commande) /\ i' = i + 1
  BY <1>1
<1>2. /\ UnSi(c \in Blancs /\ doitRetirerEspace(mot)) \in {0, 1}
      /\ UnSi(c \in Blancs /\ doitRetirerEspace(mot)) = 1 => c \in Blancs
      /\ UnSi(doitRetirerEspace(Courant)) \in {0, 1}
  BY DEF UnSi
<1>3. UNCHANGED <<commande, indexCommandes, nbCommandes>>
  BY DEF Copier
<1>4. CASE nbEspace < 1 /\ AvantDouble /\ UNCHANGED <<j, nbEspace, commandeSansEspaces>>
  <2>1. nbEspace = 0
    BY <1>4, DansLigne
  <2>2. Passe
    BY <1>3, <1>4, <2>1 DEF Passe
  <2>3. Bornes'
    BY <1>0, <1>3, <1>4, DansLigne DEF Bornes, Ligne, Fini
  <2>4. Curseur'
    BY <1>3, <1>4 DEF Curseur, Courant
  <2> QED
    BY <1>1, <2>2, <2>3, <2>4
<1>5. CASE /\ nbEspace >= 1 /\ c \in Blancs
           /\ nbEspace' = nbEspace + UnSi(doitRetirerEspace(Courant))
           /\ UNCHANGED <<j, commandeSansEspaces>>
  <2>1. nbEspace' \in {nbEspace, nbEspace + 1} /\ nbEspace > 0
    BY <1>2, <1>5, DansLigne
  <2>2. Passe
    BY <1>3, <1>5, <2>1 DEF Passe
  <2>3. Bornes'
    BY <1>0, <1>3, <1>5, <2>1, DansLigne DEF Bornes, Ligne, Fini
  <2>4. Curseur'
    BY <1>3, <1>5 DEF Curseur, Courant
  <2> QED
    BY <1>1, <2>2, <2>3, <2>4
<1>6. CASE /\ Ecrire(mot) /\ j' = j + 1
           /\ \/ /\ nbEspace < 1 /\ ~AvantDouble
                 /\ nbEspace' = nbEspace + UnSi(c \in Blancs /\ doitRetirerEspace(mot))
              \/ nbEspace >= 1 /\ c \notin Blancs /\ UNCHANGED nbEspace
  <2>1. c \in Caracteres /\ Courant \in Seq(Caracteres) /\ Len(Courant) = j
    BY <1>1, DansLigne DEF Curseur
  <2>2. mot = Append(Courant, c)
    BY <2>1, PoserBout
  <2>3. mot \in Seq(Caracteres) /\ Len(mot) = j + 1
    BY <2>1, <2>2, AppendProperties
  <2>4. Grandit(mot)
    BY <1>3, <1>6, <2>3 DEF Ecrire, Grandit
  <2>5. /\ \/ /\ nbEspace = 0 /\ ~AvantDouble
              /\ nbEspace' = 0 \/ (nbEspace' = 1 /\ c \in Blancs)
           \/ nbEspace > 0 /\ c \notin Blancs /\ nbEspace' = nbEspace
    BY <1>2, <1>6, DansLigne
  <2>6. nbEspace' \in {nbEspace, nbEspace + 1}
    BY <2>5, DansLigne
  <2>7. Len(mot) < sizeWord
    BY <1>0, <2>3, DansLigne DEF Bornes, Ligne
  <2>8. Bornes'
    BY <1>0, <1>3, <1>6, <2>6, DansLigne DEF Bornes, Ligne, Fini
  <2> HIDE DEF mot, c
  <2>9. Curseur' /\ Courant' = mot
    BY <2>3, <2>4, <2>7, Grandir
  <2>10. Ecrit
    BY <2>2, <2>4, <2>5, <2>9 DEF Ecrit, c
  <2> QED
    BY <1>1, <2>8, <2>9, <2>10 DEF c
<1> QED
  BY <1>4, <1>5, <1>6 DEF Copier, Car

LEMMA FinirPas ==
  ASSUME Bornes, Curseur, Finir
  PROVE  Bornes' /\ Curseur'
<1>1. i = Len(commande)
  BY DansLigne DEF Finir, Boucle, Bornes, Ligne
<1> QED
  BY <1>1, DansLigne DEF Bornes, Ligne, Curseur, Courant, Finir, Fini

LEMMA InitEtat == Init => Bornes /\ Curseur
<1> SUFFICES ASSUME Init PROVE Bornes /\ Curseur
  OBVIOUS
<1>1. commande \in Seq(Caracteres) /\ Len(commande) < sizeWord
  BY ChaineAssumption DEF Init
<1>2. Len(commande) \in Nat /\ sizeWord \in Nat /\ sizelgcmd \in Nat /\ sizeWord <= sizelgcmd
  BY <1>1, ChaineAssumption, LenProperties
<1>3. <<>> \in Seq(Caracteres) /\ <<>> \in Seq(Octets) /\ Len(<<>>) = 0 /\ 0 \in Rangs
  BY <1>1, <1>2, EmptySeq DEF Rangs
<1> QED
  BY <1>1, <1>2, <1>3 DEF Init, Bornes, Ligne, Curseur, Courant, Fini

LEMMA PasEtat == Bornes /\ Curseur /\ [Next]_vars => Bornes' /\ Curseur'
<1> SUFFICES ASSUME Bornes, Curseur, [Next]_vars PROVE Bornes' /\ Curseur'
  OBVIOUS
<1>1. CASE PasserRetourLigne
  BY <1>1, RetourPas
<1>2. CASE Couper
  BY <1>2, CouperPas
<1>3. CASE CouperDouble
  BY <1>3, DoublePas
<1>4. CASE CouperTube
  BY <1>4, TubePas
<1>5. CASE Rediriger
  BY <1>5, RedirigerPas
<1>6. CASE Copier
  BY <1>6, CopierPas
<1>7. CASE Finir
  BY <1>7, FinirPas
<1>8. CASE UNCHANGED vars
  BY <1>8 DEF vars, Bornes, Ligne, Curseur, Courant, Fini
<1> QED
  BY <1>1, <1>2, <1>3, <1>4, <1>5, <1>6, <1>7, <1>8 DEF Next, Etape

LEMMA EtatInvariant == Spec => [](Bornes /\ Curseur)
<1> QED
  BY InitEtat, PasEtat, PTL DEF Spec

LEMMA TypesEst == Bornes /\ Curseur => TypeOK
<1> SUFFICES ASSUME Bornes, Curseur PROVE TypeOK
  OBVIOUS
<1>1. nbCommandes \in 0 .. sizelgcmd
  BY DansLigne DEF Bornes, Fini, Ligne
<1>2. commande \in Seq(Caracteres) /\ Len(commande) < sizeWord
  BY DEF Bornes, Ligne
<1>3. i \in 0 .. Len(commande) /\ j \in 0 .. Len(commande) /\ nbEspace \in 0 .. Len(commande)
  BY DansLigne DEF Bornes, Ligne
<1> QED
  BY <1>1, <1>2, <1>3, DansLigne DEF TypeOK, Curseur

(* The cursors stay within the line and the words, and the words within    *)
(* their buffers, for every line that fits into one: gererChaine writes    *)
(* outside of none, although it checks nothing.                            *)
THEOREM TypesDeChaine == Spec => []TypeOK
<1> QED
  BY TypesEst, EtatInvariant, PTL

LEMMA CurseurEst == Bornes /\ Curseur => CurseurEnFin
  BY ChaineEntiere DEF Curseur, CurseurEnFin

(* The cursor of a word is at its end, where strcat adds: no redirection   *)
(* ever leaves a hole that hides what follows.                             *)
THEOREM CurseurAuBout == Spec => []CurseurEnFin
<1> QED
  BY CurseurEst, EtatInvariant, PTL

-----------------------------------------------------------------------------
(* The first n words put together, and what is written against what has    *)
(* been read, but for characters of B.  Each action does a few of the      *)
(* small steps below.                                                      *)
Colles(m, n) == FlattenSeq([k \in 1 .. n |-> m[k - 1]])
Table(m) == m \in [Rangs -> Seq(Caracteres)]
Garde(c) == c \notin {";", "\n"}
Tient(l, m, n, k, B) ==
    Sans(Colles(m, n), B) = Sans(SubSeq(l, 1, k), B \cup {";", "\n"})

LEMMA CollesAjout ==
  ASSUME NEW m, Table(m), NEW n \in Rangs
  PROVE  Colles(m, n) \in Seq(Caracteres) /\ Colles(m, n + 1) = Colles(m, n) \o m[n]
<1> DEFINE a == [k \in 1 .. n |-> m[k - 1]]
           b == [k \in 1 .. n + 1 |-> m[k - 1]]
<1>1. /\ n \in Nat /\ m[n] \in Seq(Caracteres)
      /\ \A k \in 1 .. n + 1 : k - 1 \in Rangs /\ m[k - 1] \in Seq(Caracteres)
  BY ChaineAssumption DEF Rangs, Table
<1>2. a \in Seq(Seq(Caracteres)) /\ Len(a) = n /\ \A k \in 1 .. n : a[k] = m[k - 1]
  BY <1>1
<1>3. b \in Seq(Seq(Caracteres)) /\ Len(b) = n + 1 /\ \A k \in 1 .. n + 1 : b[k] = m[k - 1]
  BY <1>1
<1> HIDE DEF a, b
<1>4. Append(a, m[n]) = b
  <2> DEFINE c == Append(a, m[n])
  <2>1. /\ c \in Seq(Seq(Caracteres)) /\ Len(c) = n + 1 /\ c[n + 1] = m[n]
        /\ \A k \in 1 .. n : c[k] = a[k]
    BY <1>1, <1>2, AppendProperties
  <2> HIDE DEF c
  <2>2. \A k \in 1 .. n + 1 : b[k] = c[k]
    <3> TAKE k \in 1 .. n + 1
    <3>1. CASE k = n + 1
      BY <1>1, <1>3, <2>1, <3>1
    <3>2. CASE k # n + 1
      <4>1. k \in 1 .. n
        BY <1>1, <3>2
      <4> QED
        BY <1>2, <1>3, <2>1, <4>1
    <3> QED
      BY <3>1, <3>2
  <2>3. b = c
    BY <1>1, <1>3, <2>1, <2>2, SeqEqual
  <2> QED
    BY <2>3 DEF c
<1>5. FlattenSeq(a) \in Seq(Caracteres) /\ FlattenSeq(Append(a, m[n])) = FlattenSeq(a) \o m[n]
  BY <1>1, <1>2, ColleAjout
<1> QED
  BY <1>4, <1>5 DEF Colles, a, b

LEMMA CollesMemes ==
  ASSUME NEW m, NEW p, NEW n \in Nat, \A k \in 0 .. n - 1 : p[k] = m[k]
  PROVE  Colles(p, n) = Colles(m, n)
<1>1. \A k \in 1 .. n : p[k - 1] = m[k - 1]
  OBVIOUS
<1>2. [k \in 1 .. n |-> p[k - 1]] = [k \in 1 .. n |-> m[k - 1]]
  BY <1>1
<1> QED
  BY <1>2, Zenon DEF Colles

LEMMA SansCaractere ==
  \A B : \A s \in Seq(Caracteres) : \A c \in Caracteres :
      /\ Sans(s, B) \in Seq(Caracteres)
      /\ c \in B => Sans(Append(s, c), B) = Sans(s, B)
      /\ c \notin B => Sans(Append(s, c), B) = Append(Sans(s, B), c)
  BY SansAjout

LEMMA LigneSuivante ==
  ASSUME NEW l \in Seq(Caracteres), NEW k \in Nat, k < Len(l), NEW D
  PROVE  /\ l[k + 1] \in Caracteres
         /\ Sans(SubSeq(l, 1, k), D) \in Seq(Caracteres)
         /\ l[k + 1] \in D =>
                Sans(SubSeq(l, 1, k + 1), D) = Sans(SubSeq(l, 1, k), D)
         /\ l[k + 1] \notin D =>
                Sans(SubSeq(l, 1, k + 1), D)
                    = Append(Sans(SubSeq(l, 1, k), D), l[k + 1])
<1> PICK n : n = k + 1
  OBVIOUS
<1>1. n \in 1 .. Len(l) /\ n - 1 = k
  BY LenProperties
<1> DEFINE a == SubSeq(l, 1, k)
<1>2. a \in Seq(Caracteres) /\ l[n] \in Caracteres /\ SubSeq(l, 1, n) = Append(a, l[n])
  BY <1>1, DebutSuivant
<1> HIDE DEF a
<1>3. Sans(a, D) \in Seq(Caracteres)
  BY <1>2, SansCaractere, Zenon
<1>4. l[n] \in D => Sans(SubSeq(l, 1, n), D) = Sans(a, D)
  BY <1>2, SansCaractere, ZenonT(40)
<1>5. l[n] \notin D =>
          Sans(SubSeq(l, 1, n), D) = Append(Sans(a, D), l[n])
  BY <1>2, SansCaractere, ZenonT(40)
<1> QED
  BY <1>2, <1>3, <1>4, <1>5, Zenon DEF a

\* A character of the line is passed.
LEMMA TientPasse ==
  ASSUME NEW l \in Seq(Caracteres), NEW k \in Nat, k < Len(l), NEW B,
         NEW m, NEW n, Tient(l, m, n, k, B), Garde(l[k + 1]) => l[k + 1] \in B
  PROVE  Tient(l, m, n, k + 1, B)
<1> DEFINE D == B \cup {";", "\n"}
<1>1. l[k + 1] \in D
  BY DEF Garde
<1> HIDE DEF D
<1>2. Sans(SubSeq(l, 1, k + 1), D) = Sans(SubSeq(l, 1, k), D)
  BY <1>1, LigneSuivante
<1> QED
  BY <1>2, Zenon DEF Tient, D

\* An empty word follows.
LEMMA TientVide ==
  ASSUME NEW l, NEW k, NEW B, NEW m, Table(m), NEW n \in Rangs, Tient(l, m, n, k, B), m[n] = <<>>
  PROVE  Tient(l, m, n + 1, k, B)
<1>1. Colles(m, n + 1) = Colles(m, n) \o <<>> /\ Colles(m, n) \in Seq(Caracteres)
  BY CollesAjout
<1>2. Colles(m, n + 1) = Colles(m, n)
  BY <1>1, ConcatEmptySeq
<1> QED
  BY <1>2, Zenon DEF Tient

\* A character is added to the last word.
LEMMA AjoutColle ==
  ASSUME NEW S, NEW s \in Seq(S), NEW t \in Seq(S), NEW c \in S
  PROVE  s \o Append(t, c) = Append(s \o t, c)
<1>1. /\ Append(t, c) = t \o <<c>> /\ <<c>> \in Seq(S) /\ s \o t \in Seq(S)
      /\ Append(s \o t, c) = (s \o t) \o <<c>>
  BY AppendIsConcat, ConcatProperties, Tuples
<1>2. s \o (t \o <<c>>) = (s \o t) \o <<c>>
  BY <1>1, ConcatAssociative
<1> QED
  BY <1>1, <1>2, Zenon

LEMMA ColleCaractere ==
  \A s, t \in Seq(Caracteres) : \A c \in Caracteres :
      s \o Append(t, c) = Append(s \o t, c)
  BY AjoutColle

LEMMA TientEcrit ==
  ASSUME NEW l \in Seq(Caracteres), NEW k \in Nat, k < Len(l), NEW B,
         NEW m, Table(m), NEW p, Table(p), NEW n \in Rangs, Tient(l, m, n + 1, k, B),
         Garde(l[k + 1]),
         p[n] = Append(m[n], l[k + 1]), \A q \in 0 .. n - 1 : p[q] = m[q]
  PROVE  Tient(l, p, n + 1, k + 1, B)
<1> DEFINE D == B \cup {";", "\n"}
           c == l[k + 1]
           a == Colles(m, n)
           b == Colles(m, n + 1)
<1>1. c \in D <=> c \in B
  BY DEF Garde
<1>2. c \in Caracteres /\ m[n] \in Seq(Caracteres) /\ n \in Nat
  <2>1. l \in Seq(Caracteres) /\ k \in Nat /\ k < Len(l)
    OBVIOUS
  <2>2. l[k + 1] \in Caracteres
    BY ONLY <2>1, LigneSuivante
  <2>3. n \in Nat
    BY ONLY n \in Rangs, ChaineAssumption DEF Rangs
  <2>4. m[n] \in Seq(Caracteres)
    BY DEF Table
  <2> QED
    BY <2>2, <2>3, <2>4
<1>3. a \in Seq(Caracteres) /\ b = a \o m[n] /\ b \in Seq(Caracteres)
  BY <1>2, CollesAjout, ConcatProperties
<1>4. Colles(p, n + 1) = a \o p[n]
  <2>1. Colles(p, n) = a
    BY <1>2, CollesMemes
  <2>2. Colles(p, n + 1) = Colles(p, n) \o p[n]
    BY CollesAjout
  <2> QED
    BY <2>1, <2>2, Zenon
<1> HIDE DEF D, c, a, b
<1>5. Colles(p, n + 1) = Append(b, c)
  <2>1. p[n] = Append(m[n], c)
    BY DEF c
  <2>2. a \o Append(m[n], c) = Append(a \o m[n], c)
    BY <1>2, <1>3, ColleCaractere, Zenon
  <2> QED
    BY <1>3, <1>4, <2>1, <2>2, Zenon
<1>6. Sans(b, B) = Sans(SubSeq(l, 1, k), D)
  BY DEF Tient, D, b
<1>7. CASE c \in B
  <2>1. Sans(Append(b, c), B) = Sans(b, B)
    BY <1>2, <1>3, <1>7, SansCaractere, Zenon
  <2>2. Sans(SubSeq(l, 1, k + 1), D) = Sans(SubSeq(l, 1, k), D)
    BY <1>1, <1>7, LigneSuivante DEF c
  <2> QED
    BY <1>5, <1>6, <2>1, <2>2, Zenon DEF Tient, D
<1>8. CASE c \notin B
  <2>1. Sans(Append(b, c), B) = Append(Sans(b, B), c)
    BY <1>2, <1>3, <1>8, SansCaractere, Zenon
  <2>2. Sans(SubSeq(l, 1, k + 1), D) = Append(Sans(SubSeq(l, 1, k), D), c)
    BY <1>1, <1>8, LigneSuivante DEF c
  <2> QED
    BY <1>5, <1>6, <2>1, <2>2, Zenon DEF Tient, D
<1> QED
  BY <1>7, <1>8

\* The last word loses its last character.
LEMMA TientRaccourci ==
  ASSUME NEW l, NEW k, NEW B, NEW m, Table(m), NEW p, Table(p), NEW n \in Rangs, Tient(l, m, n + 1, k, B),
         NEW c \in Caracteres \cap B,
         m[n] = Append(p[n], c), \A q \in 0 .. n - 1 : p[q] = m[q]
  PROVE  Tient(l, p, n + 1, k, B)
<1> DEFINE a == Colles(m, n)
           b == Colles(p, n + 1)
<1>1. n \in Nat /\ p[n] \in Seq(Caracteres)
  BY ChaineAssumption DEF Rangs, Table
<1>2. a = Colles(p, n)
  BY <1>1, CollesMemes
<1>3. a \in Seq(Caracteres) /\ b = a \o p[n] /\ b \in Seq(Caracteres)
  <2>1. Colles(p, n + 1) = Colles(p, n) \o p[n] /\ Colles(p, n) \in Seq(Caracteres)
    BY CollesAjout
  <2>2. a \in Seq(Caracteres) /\ b = a \o p[n]
    BY <1>2, <2>1, Zenon
  <2> HIDE DEF a, b
  <2> QED
    BY <1>1, <2>2, ConcatProperties
<1>4. Colles(m, n + 1) = a \o m[n]
  BY CollesAjout
<1> HIDE DEF a, b
<1>5. Colles(m, n + 1) = Append(b, c)
  <2>1. a \o Append(p[n], c) = Append(a \o p[n], c)
    BY <1>1, <1>3, ColleCaractere, Zenon
  <2> QED
    BY <1>3, <1>4, <2>1, Zenon
<1>6. Sans(Append(b, c), B) = Sans(b, B)
  BY <1>3, SansCaractere, Zenon
<1> QED
  BY <1>5, <1>6, Zenon DEF Tient, b

\* A separator of two characters, or of one, is a word between two others.
LEMMA TientDouble ==
  ASSUME NEW l \in Seq(Caracteres), NEW k \in Nat, k + 2 <= Len(l), NEW B,
         NEW m, Table(m), NEW p, Table(p), NEW x \in Rangs, x + 1 \in Rangs, Tient(l, m, x, k, B),
         Garde(l[k + 1]), Garde(l[k + 2]),
         m[x] = <<>>, p[x] = <<l[k + 1], l[k + 2]>>, p[x + 1] = <<>>,
         \A q \in 0 .. x - 1 : p[q] = m[q]
  PROVE  Tient(l, p, x + 2, k + 2, B)
<1> DEFINE c == l[k + 1]
           d == l[k + 2]
           o == [m EXCEPT ![x] = <<c>>]
<1>0. x \in Nat /\ Len(l) \in Nat /\ k < Len(l) /\ k + 1 < Len(l) /\ k + 1 + 1 = k + 2
      /\ x + 1 + 1 = x + 2
  BY ChaineAssumption, LenProperties DEF Rangs
<1>1. c \in Caracteres /\ d \in Caracteres
  <2>1. k + 1 \in 1 .. Len(l) /\ k + 2 \in 1 .. Len(l)
    BY <1>0
  <2> QED
    BY <2>1, ElementOfSeq
<1>2. <<c>> \in Seq(Caracteres) /\ <<c>> = Append(<<>>, c) /\ <<c, d>> = Append(<<c>>, d)
  BY <1>1, Tuples
<1> HIDE DEF c, d
<1>3. Table(o) /\ o[x] = <<c>> /\ \A q \in 0 .. x - 1 : o[q] = m[q]
  BY <1>0, <1>2 DEF Table, Rangs
<1> HIDE DEF o
<1>4. Tient(l, m, x + 1, k, B)
  BY TientVide
<1>5. Tient(l, o, x + 1, k + 1, B)
  <2>1. o[x] = Append(m[x], l[k + 1])
    BY <1>2, <1>3, Zenon DEF c
  <2> QED
    BY <1>0, <1>3, <1>4, <2>1, TientEcrit
<1>6. Tient(l, p, x + 1, k + 2, B)
  <2>1. p[x] = Append(o[x], l[k + 1 + 1])
    BY <1>0, <1>2, <1>3, Zenon DEF c, d
  <2>2. \A q \in 0 .. x - 1 : p[q] = o[q]
    BY <1>3
  <2>3. Garde(l[k + 1 + 1])
    BY <1>0, Zenon
  <2>4. k + 1 \in Nat
    OBVIOUS
  <2>5. Tient(l, p, x + 1, k + 1 + 1, B)
    BY <1>0, <1>3, <1>5, <2>1, <2>2, <2>3, <2>4, TientEcrit, Zenon
  <2> QED
    BY <1>0, <2>5, Zenon
<1>7. Tient(l, p, x + 1 + 1, k + 2, B)
  BY <1>6, TientVide, Zenon
<1> QED
  BY <1>0, <1>7, Zenon

LEMMA TientTube ==
  ASSUME NEW l \in Seq(Caracteres), NEW k \in Nat, k + 2 <= Len(l), NEW B,
         NEW m, Table(m), NEW p, Table(p), NEW n \in Rangs, n + 1 \in Rangs, n + 2 \in Rangs,
         Tient(l, m, n + 1, k, B),
         Garde(l[k + 1]), l[k + 2] \in B, p[n + 1] = <<l[k + 1]>>, p[n + 2] = <<>>,
         p[n] = m[n] \/ \E c \in Caracteres \cap B : m[n] = Append(p[n], c),
         \A q \in 0 .. n - 1 : p[q] = m[q]
  PROVE  Tient(l, p, n + 3, k + 2, B)
<1> DEFINE o == [p EXCEPT ![n + 1] = <<>>]
<1>0. n \in Nat /\ Len(l) \in Nat /\ k < Len(l) /\ k + 1 < Len(l) /\ k + 1 + 1 = k + 2
      /\ n + 1 + 1 = n + 2 /\ n + 2 + 1 = n + 3 /\ n # n + 1
  BY ChaineAssumption, LenProperties DEF Rangs
<1>1. /\ Table(o) /\ o[n + 1] = <<>> /\ o[n] = p[n]
      /\ \A q \in 0 .. n : o[q] = p[q] /\ (q # n => o[q] = m[q])
  <2>1. <<>> \in Seq(Caracteres)
    BY EmptySeq
  <2> QED
    BY <1>0, <2>1 DEF Table, Rangs
<1> HIDE DEF o
<1>2. \A q \in 0 .. n - 1 : o[q] = m[q]
  BY <1>0, <1>1
<1>3. Tient(l, o, n + 1, k, B)
  <2>1. CASE p[n] = m[n]
    <3> PICK x : x = n + 1
      OBVIOUS
    <3>1. \A q \in 0 .. x - 1 : o[q] = m[q]
      <4> TAKE q \in 0 .. x - 1
      <4>1. CASE q = n
        BY <1>1, <2>1, <4>1
      <4>2. CASE q # n
        BY <1>0, <1>1, <4>2
      <4> QED
        BY <4>1, <4>2
    <3>2. x \in Nat
      BY <1>0
    <3>3. Colles(o, x) = Colles(m, x)
      BY <3>1, <3>2, CollesMemes
    <3>4. Tient(l, o, x, k, B)
      BY <3>3, Zenon DEF Tient
    <3> QED
      BY <3>4, Zenon
  <2>2. ASSUME NEW c \in Caracteres \cap B, m[n] = Append(p[n], c)
        PROVE  Tient(l, o, n + 1, k, B)
    <3>1. m[n] = Append(o[n], c)
      BY <1>1, <2>2, Zenon
    <3> QED
      BY <1>1, <1>2, <3>1, TientRaccourci, Zenon
  <2> QED
    BY <2>1, <2>2
<1>4. Tient(l, o, n + 1 + 1, k, B)
  BY <1>1, <1>3, TientVide, Zenon
<1>5. Tient(l, p, n + 1 + 1, k + 1, B)
  <2> PICK x : x = n + 1
    OBVIOUS
  <2>1. x \in Rangs /\ Tient(l, o, x + 1, k, B)
    BY <1>4, Zenon
  <2>2. \A c : Append(<<>>, c) = <<c>>
    OBVIOUS
  <2>3. p[x] = Append(o[x], l[k + 1])
    BY <1>1, <2>2, Zenon
  <2>4. \A q \in 0 .. x - 1 : p[q] = o[q]
    BY <1>0, <1>1
  <2>5. Tient(l, p, x + 1, k + 1, B)
    BY <1>0, <1>1, <2>1, <2>3, <2>4, TientEcrit, Zenon
  <2> QED
    BY <2>5, Zenon
<1>6. Tient(l, p, n + 1 + 1, k + 1 + 1, B)
  <2>1. l[k + 1 + 1] \in B
    BY <1>0, Zenon
  <2>2. k + 1 \in Nat
    OBVIOUS
  <2> QED
    BY <1>0, <1>5, <2>1, <2>2, TientPasse, Zenon
<1>7. Tient(l, p, n + 2, k + 2, B)
  BY <1>0, <1>6, Zenon
<1>8. Tient(l, p, n + 2 + 1, k + 2, B)
  BY <1>7, TientVide, Zenon
<1> QED
  BY <1>0, <1>8, Zenon

\* A redirection.
LEMMA TientDirection ==
  ASSUME NEW l \in Seq(Caracteres), NEW k \in Nat, k + 3 <= Len(l), NEW B,
         NEW m, Table(m), NEW p, Table(p), NEW n \in Rangs, Tient(l, m, n + 1, k, B),
         Garde(l[k + 1]), Garde(l[k + 2]), Garde(l[k + 3]),
         p[n] = m[n] \o <<l[k + 1], l[k + 2], l[k + 3]>>, \A q \in 0 .. n - 1 : p[q] = m[q]
  PROVE  Tient(l, p, n + 1, k + 3, B)
<1> DEFINE a == Append(m[n], l[k + 1])
           b == Append(a, l[k + 2])
           c == Append(b, l[k + 3])
           o == [m EXCEPT ![n] = a]
           r == [m EXCEPT ![n] = b]
<1>0. /\ n \in Nat /\ Len(l) \in Nat /\ k < Len(l) /\ k + 1 < Len(l) /\ k + 2 < Len(l)
      /\ k + 1 + 1 = k + 2 /\ k + 2 + 1 = k + 3 /\ k + 1 \in Nat /\ k + 2 \in Nat
  BY ChaineAssumption, LenProperties DEF Rangs
<1>1. /\ l[k + 1] \in Caracteres /\ l[k + 2] \in Caracteres /\ l[k + 3] \in Caracteres
      /\ m[n] \in Seq(Caracteres)
  <2>1. k + 1 \in 1 .. Len(l) /\ k + 2 \in 1 .. Len(l) /\ k + 3 \in 1 .. Len(l)
    BY <1>0
  <2> QED
    BY <2>1, ElementOfSeq DEF Table
<1>2. a \in Seq(Caracteres) /\ b \in Seq(Caracteres) /\ c \in Seq(Caracteres)
  BY <1>1, AppendProperties
<1>3. p[n] = c
  <2>1. \A s \in Seq(Caracteres) : \A x, y, z \in Caracteres :
            s \o <<x, y, z>> = Append(Append(Append(s, x), y), z)
    <3> TAKE s \in Seq(Caracteres)
    <3> TAKE x, y, z \in Caracteres
    <3>1. <<>> \in Seq(Caracteres) /\ <<x>> \in Seq(Caracteres) /\ <<x, y>> \in Seq(Caracteres)
      BY EmptySeq, Tuples
    <3>2. /\ <<x>> = Append(<<>>, x) /\ <<x, y>> = Append(<<x>>, y)
          /\ <<x, y, z>> = Append(<<x, y>>, z)
      OBVIOUS
    <3>3. s \o <<>> = s
      BY ConcatEmptySeq
    <3>4. s \o Append(<<>>, x) = Append(s \o <<>>, x)
      BY <3>1, ColleCaractere
    <3>5. s \o Append(<<x>>, y) = Append(s \o <<x>>, y)
      BY <3>1, ColleCaractere
    <3>6. s \o Append(<<x, y>>, z) = Append(s \o <<x, y>>, z)
      BY <3>1, ColleCaractere
    <3> QED
      BY <3>2, <3>3, <3>4, <3>5, <3>6, Zenon
  <2> QED
    BY <1>1, <2>1, ZenonT(40)
<1> HIDE DEF a, b, c
<1>4. /\ Table(o) /\ o[n] = a /\ \A q \in 0 .. n - 1 : o[q] = m[q]
      /\ Table(r) /\ r[n] = b /\ \A q \in 0 .. n - 1 : r[q] = m[q]
  BY <1>0, <1>2 DEF Table, Rangs
<1> HIDE DEF o, r
<1>5. Garde(l[k + 1]) /\ Garde(l[k + 1 + 1]) /\ Garde(l[k + 2 + 1])
  BY <1>0, Zenon
<1>6. Tient(l, o, n + 1, k + 1, B)
  BY <1>0, <1>4, <1>5, TientEcrit, Zenon DEF a
<1>7. Tient(l, r, n + 1, k + 2, B)
  <2>1. r[n] = Append(o[n], l[k + 1 + 1])
    BY <1>0, <1>4, Zenon DEF b
  <2>2. \A q \in 0 .. n - 1 : r[q] = o[q]
    BY <1>4
  <2>3. Tient(l, r, n + 1, k + 1 + 1, B)
    BY <1>0, <1>4, <1>5, <1>6, <2>1, <2>2, TientEcrit, ZenonT(40)
  <2> QED
    BY <1>0, <2>3, Zenon
<1>8. Tient(l, p, n + 1, k + 2 + 1, B)
  <2> PICK h : h = k + 2
    OBVIOUS
  <2>0. h \in Nat /\ h < Len(l) /\ Tient(l, r, n + 1, h, B) /\ Garde(l[h + 1])
    BY <1>0, <1>5, <1>7, Zenon
  <2>1. p[n] = Append(r[n], l[h + 1])
    BY <1>0, <1>3, <1>4, Zenon DEF c
  <2>2. \A q \in 0 .. n - 1 : p[q] = r[q]
    BY <1>4
  <2>3. Tient(l, p, n + 1, h + 1, B)
    BY <1>4, <2>0, <2>1, <2>2, TientEcrit, Zenon
  <2> QED
    BY <2>3, Zenon
<1> QED
  BY <1>0, <1>8, Zenon

-----------------------------------------------------------------------------
(* The words as they are read, and what they hold: B are the characters    *)
(* that may be lost.                                                       *)
Lus == [k \in Rangs |-> Chaine(commandeSansEspaces[k])]
Contenu(B) == Table(Lus) /\ Tient(commande, Lus, indexCommandes + 1, i, B)

\* Before anything is lost, the word is the head of the line.
Debut == j = i => \A k \in 1 .. j : Courant[k] = commande[k]

LEMMA LusEst ==
  ASSUME Bornes, Curseur
  PROVE  /\ indexCommandes \in Rangs /\ Lus[indexCommandes] = Courant
         /\ \A k \in Rangs : k > indexCommandes => Lus[k] = <<>>
         /\ \A k \in Rangs : Lus[k] = Chaine(commandeSansEspaces[k])
<1>1. Lus[indexCommandes] = Courant
  BY DansLigne, ChaineEntiere DEF Lus, Curseur, Courant
<1>2. Chaine(<<>>) = <<>>
  BY EmptySeq, ChaineEntiere
<1> QED
  BY <1>1, <1>2, DansLigne DEF Lus, Curseur

LEMMA LusPrime == \A k \in Rangs : Lus'[k] = Chaine(commandeSansEspaces'[k])
  BY DEF Lus

LEMMA ContenuPasse ==
  ASSUME Bornes, Curseur, NEW B, Contenu(B), i < Len(commande),
         Garde(commande[i + 1]) => commande[i + 1] \in B
  PROVE  Tient(commande, Lus, indexCommandes + 1, i + 1, B)
<1>1. commande \in Seq(Caracteres) /\ i \in Nat
  BY DansLigne DEF Bornes, Ligne
<1> QED
  BY <1>1, TientPasse, Zenon DEF Contenu

LEMMA ContenuRetour ==
  ASSUME Bornes, Curseur, NEW B, Contenu(B), PasserRetourLigne
  PROVE  Contenu(B)'
<1>1. i < Len(commande) /\ i' = i + 1
  BY RetourPas
<1>2. ~Garde(commande[i + 1])
  BY RetourPas DEF Garde
<1>3. Tient(commande, Lus, indexCommandes + 1, i + 1, B)
  BY <1>1, <1>2, ContenuPasse
<1>4. Lus' = Lus /\ commande' = commande /\ indexCommandes' = indexCommandes
  BY DEF PasserRetourLigne, Lus
<1> QED
  BY <1>1, <1>3, <1>4, Zenon DEF Contenu

LEMMA ContenuCouper ==
  ASSUME Bornes, Curseur, NEW B, Contenu(B), Couper,
         i' = i + 2 => (Garde(commande[i + 2]) => commande[i + 2] \in B)
  PROVE  Contenu(B)'
<1> DEFINE x == indexCommandes + 1
<1>0. /\ i < Len(commande)
      /\ i' = i + 1 \/ (i' = i + 2 /\ i + 2 <= Len(commande))
  BY CouperPas, Zenon
<1>1. /\ i < Len(commande) /\ commande \in Seq(Caracteres) /\ i \in Nat
      /\ i' = i + 1 \/ (i' = i + 2 /\ i + 2 <= Len(commande))
      /\ i + 1 + 1 = i + 2 /\ i + 1 \in Nat /\ Len(commande) \in Nat
  BY <1>0, DansLigne DEF Bornes, Ligne
<1>2. ~Garde(commande[i + 1])
  BY CouperPas DEF Garde
<1>3. Tient(commande, Lus, x, i + 1, B)
  BY <1>1, <1>2, ContenuPasse
<1>4. Lus' = Lus /\ commande' = commande /\ indexCommandes' = x
  BY DEF Couper, Lus
<1>5. x \in Rangs
  BY <1>1, DansLigne DEF Bornes, Rangs
<1>6. Lus[x] = <<>>
  BY <1>5, LusEst, DansLigne
<1>7. Tient(commande, Lus, x + 1, i + 1, B)
  BY <1>3, <1>5, <1>6, TientVide, Zenon DEF Contenu
<1>8. Tient(commande, Lus, x + 1, i', B)
  <2>1. CASE i' = i + 1
    BY <1>7, <2>1, Zenon
  <2>2. CASE i' = i + 2
    <3>1. i + 1 < Len(commande)
      BY <1>1, <2>2
    <3>2. Garde(commande[i + 1 + 1]) => commande[i + 1 + 1] \in B
      BY <1>1, <2>2, Zenon
    <3>3. Tient(commande, Lus, x + 1, i + 1 + 1, B)
      BY <1>1, <1>7, <3>1, <3>2, TientPasse, Zenon
    <3> QED
      BY <1>1, <2>2, <3>3, Zenon
  <2> QED
    BY <1>1, <2>1, <2>2
<1> QED
  BY <1>4, <1>8, Zenon DEF Contenu

LEMMA LusDouble ==
  ASSUME Bornes, Curseur, CouperDouble,
         NEW x, x = indexCommandes + 1, NEW s, s = <<commande[i + 1], commande[i + 2]>>
  PROVE  /\ x \in Rangs /\ x + 1 \in Rangs /\ indexCommandes' = x + 1 /\ x \in Nat
         /\ Lus'[x] = s /\ Lus[x] = <<>> /\ Lus'[x + 1] = <<>> /\ s \in Seq(Caracteres)
         /\ \A k \in Rangs : k # x => Lus'[k] = Lus[k]
<1>0. i + 2 <= Len(commande)
  BY DoublePas, Zenon
<1>1. /\ i + 1 \in 1 .. Len(commande) /\ i + 2 \in 1 .. Len(commande)
      /\ i + 2 <= Len(commande) /\ indexCommandes \in Nat
  BY <1>0, DansLigne
<1>2. x \in Rangs /\ x + 1 \in Rangs /\ x \in Nat /\ x + 1 # x
      /\ x + 1 > indexCommandes /\ x > indexCommandes
  BY <1>1, DansLigne DEF Bornes, Rangs
<1>3. indexCommandes' = x + 1
  BY <1>1 DEF CouperDouble
<1>4. commandeSansEspaces' = [commandeSansEspaces EXCEPT ![x] = s]
  BY DoublePas, Zenon
<1>5. commandeSansEspaces \in [Rangs -> Seq(Octets)]
  BY DEF Curseur
<1>6. s \in Seq(Caracteres)
  <2>1. commande[i + 1] \in Caracteres /\ commande[i + 2] \in Caracteres
    BY <1>1, ElementOfSeq DEF Bornes, Ligne
  <2> QED
    BY <2>1, Tuples
<1>7. Lus'[x] = s
  <2>1. commandeSansEspaces'[x] = s
    BY <1>2, <1>4, <1>5
  <2> QED
    BY <1>2, <1>6, <2>1, LusPrime, ChaineEntiere
<1>8. \A k \in Rangs : k # x => Lus'[k] = Lus[k]
  <2>1. \A k \in Rangs : k # x => commandeSansEspaces'[k] = commandeSansEspaces[k]
    BY <1>4, <1>5
  <2> QED
    BY <2>1, LusPrime, LusEst
<1> QED
  BY <1>2, <1>3, <1>6, <1>7, <1>8, LusEst

LEMMA ContenuDouble ==
  ASSUME Bornes, Curseur, NEW B, Contenu(B), CouperDouble,
         i' = i + 3 => (Garde(commande[i + 3]) => commande[i + 3] \in B)
  PROVE  Contenu(B)'
<1> DEFINE x == indexCommandes + 1
           s == <<commande[i + 1], commande[i + 2]>>
<1>0. /\ i + 2 <= Len(commande)
      /\ i' = i + 2 \/ (i' = i + 3 /\ i + 3 <= Len(commande))
  BY DoublePas, Zenon
<1>1. /\ i + 2 <= Len(commande) /\ commande \in Seq(Caracteres) /\ i \in Nat
      /\ i' = i + 2 \/ (i' = i + 3 /\ i + 3 <= Len(commande))
      /\ i + 2 + 1 = i + 3 /\ i + 2 \in Nat /\ Len(commande) \in Nat
  BY <1>0, DansLigne DEF Bornes, Ligne
<1>2. Garde(commande[i + 1]) /\ Garde(commande[i + 2])
  BY DoublePas DEF Garde
<1>3. indexCommandes \in Nat /\ x = indexCommandes + 1 /\ commande' = commande
  BY DansLigne DEF CouperDouble
<1> HIDE DEF s, x
<1>5. /\ x \in Rangs /\ x + 1 \in Rangs /\ indexCommandes' = x + 1 /\ x \in Nat
      /\ Lus'[x] = s /\ Lus[x] = <<>> /\ Lus'[x + 1] = <<>> /\ s \in Seq(Caracteres)
      /\ \A k \in Rangs : k # x => Lus'[k] = Lus[k]
  <2>1. s = <<commande[i + 1], commande[i + 2]>>
    BY DEF s
  <2> QED
    BY <1>3, <2>1, LusDouble, Zenon
<1>6. Table(Lus)'
  <2>1. \A k \in Rangs : Lus'[k] \in Seq(Caracteres)
    BY <1>5 DEF Contenu, Table
  <2> QED
    BY <2>1 DEF Table, Lus
<1>7. Tient(commande, Lus', x + 2, i + 2, B)
  <2>1. \A q \in 0 .. x - 1 : Lus'[q] = Lus[q]
    <3> TAKE q \in 0 .. x - 1
    <3>1. q \in Rangs /\ q # x
      BY <1>5, ChaineAssumption DEF Rangs
    <3> QED
      BY <1>5, <3>1
  <2>2. Tient(commande, Lus, x, i, B) /\ Table(Lus)
    BY DEF Contenu, x
  <2> QED
    BY <1>1, <1>2, <1>3, <1>5, <1>6, <2>1, <2>2, TientDouble DEF s
<1>8. Tient(commande, Lus', x + 2, i', B)
  <2>1. CASE i' = i + 2
    BY <1>7, <2>1, Zenon
  <2>2. CASE i' = i + 3
    <3>1. i + 2 < Len(commande)
      BY <1>1, <2>2
    <3>2. Garde(commande[i + 2 + 1]) => commande[i + 2 + 1] \in B
      BY <1>1, <2>2, Zenon
    <3>3. Tient(commande, Lus', x + 2, i + 2 + 1, B)
      BY <1>1, <1>7, <3>1, <3>2, TientPasse, Zenon
    <3> QED
      BY <1>1, <2>2, <3>3, Zenon
  <2> QED
    BY <1>1, <2>1, <2>2
<1>9. x + 2 = x + 1 + 1
  BY <1>5
<1> QED
  BY <1>3, <1>5, <1>6, <1>8, <1>9, Zenon DEF Contenu

LEMMA LusTube ==
  ASSUME Bornes, Curseur, CouperTube, NEW n, n = indexCommandes
  PROVE  /\ n \in Nat /\ n \in Rangs /\ n + 1 \in Rangs /\ n + 2 \in Rangs
         /\ Lus'[n + 1] = Tube /\ Tube \in Seq(Caracteres) /\ Lus[n] = Courant
         /\ \/ Lus'[n] = Courant
            \/ i > 0 /\ j = i /\ Lus'[n] = SubSeq(Courant, 1, i - 1)
         /\ \A k \in Rangs : k # n /\ k # n + 1 => Lus'[k] = Lus[k]
<1> DEFINE mot == Poser(Courant, i - 1, NUL)
<1>0. i + 2 <= Len(commande)
  BY TubePas, Zenon
<1>1. /\ i + 2 <= Len(commande) /\ commande \in Seq(Caracteres) /\ i \in Nat
      /\ Len(commande) \in Nat /\ j \in Nat /\ j <= i
  BY <1>0, DansLigne DEF Bornes, Ligne
<1>2. Tube = <<commande[i + 1]>>
  BY TubePas DEF Tube
<1>3. n \in Nat /\ n \in Rangs /\ n + 1 \in Rangs /\ n + 2 \in Rangs
  BY <1>1, DansLigne DEF Bornes, Rangs
<1>5. commandeSansEspaces' = [commandeSansEspaces EXCEPT ![n] = mot, ![n + 1] = Tube]
  BY TubePas, Zenon
<1>6. commandeSansEspaces \in [Rangs -> Seq(Octets)] /\ commandeSansEspaces[n] = Courant
      /\ Courant \in Seq(Caracteres) /\ Len(Courant) = j
  BY DEF Curseur, Courant
<1>7. i - 1 \in Nat \cup {-1}
  BY <1>1
<1>8. \/ Chaine(mot) = Courant
      \/ i > 0 /\ j = i /\ Chaine(mot) = SubSeq(Courant, 1, i - 1)
  <2>1. Chaine(mot) = IF i - 1 \in 0 .. j - 1 THEN SubSeq(Courant, 1, i - 1) ELSE Courant
    BY <1>6, <1>7, PoserNul
  <2> HIDE DEF mot
  <2>2. i - 1 \in 0 .. j - 1 => i > 0 /\ j = i
    BY <1>1
  <2> QED
    BY <2>1, <2>2, Zenon
<1> HIDE DEF mot
<1>9. /\ commandeSansEspaces'[n] = mot /\ commandeSansEspaces'[n + 1] = Tube
      /\ \A k \in Rangs : k # n /\ k # n + 1 =>
             commandeSansEspaces'[k] = commandeSansEspaces[k]
  <2>1. n # n + 1
    BY <1>3
  <2> QED
    BY <1>3, <1>5, <1>6, <2>1
<1>10. Tube \in Seq(Caracteres)
  <2>1. i + 1 \in 1 .. Len(commande)
    BY <1>1
  <2>2. commande[i + 1] \in Caracteres
    BY <1>1, <2>1, ElementOfSeq
  <2> QED
    BY <1>2, <2>2, Tuples
<1>11. Lus'[n] = Chaine(mot) /\ Lus'[n + 1] = Tube /\ Lus[n] = Courant
       /\ \A k \in Rangs : k # n /\ k # n + 1 => Lus'[k] = Lus[k]
  <2>1. Lus'[n + 1] = Chaine(Tube)
    BY <1>3, <1>9, LusPrime
  <2> QED
    BY <1>3, <1>9, <1>10, <2>1, LusPrime, LusEst, ChaineEntiere
<1> QED
  BY <1>3, <1>8, <1>10, <1>11, Zenon

\* | takes the blanks around it along.
LEMMA ContenuTube ==
  ASSUME Bornes, Curseur, NEW B, Contenu(B), Debut, CouperTube,
         i > 0 => commande[i] \in B, commande[i + 2] \in B,
         i' = i + 3 => (Garde(commande[i + 3]) => commande[i + 3] \in B)
  PROVE  Contenu(B)'
<1> PICK n : n = indexCommandes
  OBVIOUS
<1>0. /\ i + 2 <= Len(commande)
      /\ i' = i + 2 \/ (i' = i + 3 /\ i + 3 <= Len(commande))
  BY TubePas, Zenon
<1>1. /\ i + 2 <= Len(commande) /\ commande \in Seq(Caracteres) /\ i \in Nat
      /\ i' = i + 2 \/ (i' = i + 3 /\ i + 3 <= Len(commande))
      /\ i + 2 + 1 = i + 3 /\ i + 2 \in Nat /\ Len(commande) \in Nat
      /\ j \in Nat /\ j <= i
  BY <1>0, DansLigne DEF Bornes, Ligne
<1>2. Garde(commande[i + 1]) /\ Tube = <<commande[i + 1]>>
  BY TubePas DEF Garde, Tube
<1>3. /\ n \in Nat /\ n \in Rangs /\ n + 1 \in Rangs /\ n + 2 \in Rangs
      /\ Lus'[n + 1] = Tube /\ Tube \in Seq(Caracteres) /\ Lus[n] = Courant
      /\ \/ Lus'[n] = Courant
         \/ i > 0 /\ j = i /\ Lus'[n] = SubSeq(Courant, 1, i - 1)
      /\ \A k \in Rangs : k # n /\ k # n + 1 => Lus'[k] = Lus[k]
  BY LusTube
<1>4. indexCommandes' = n + 2 /\ commande' = commande
  BY DEF CouperTube
<1>5. Courant \in Seq(Caracteres) /\ Len(Courant) = j
  BY DEF Curseur
<1>12. Lus'[n] = Lus[n] \/ \E c \in Caracteres \cap B : Lus[n] = Append(Lus'[n], c)
  <2>1. CASE Lus'[n] = Courant
    BY <1>3, <2>1
  <2>2. CASE i > 0 /\ j = i /\ Lus'[n] = SubSeq(Courant, 1, i - 1)
    <3>1. i \in 1 .. Len(Courant)
      BY <1>1, <1>5, <2>2
    <3>2. Courant[i] \in Caracteres
          /\ SubSeq(Courant, 1, i) = Append(SubSeq(Courant, 1, i - 1), Courant[i])
      BY <1>5, <3>1, DebutSuivant
    <3>3. SubSeq(Courant, 1, i) = Courant
      BY <1>5, <2>2, SubSeqFull
    <3>4. Courant[i] = commande[i] /\ commande[i] \in B
      BY <1>5, <2>2, <3>1 DEF Debut
    <3>5. Lus[n] = Append(Lus'[n], Courant[i])
      BY <1>3, <2>2, <3>2, <3>3, Zenon
    <3>6. Courant[i] \in Caracteres \cap B
      BY <3>2, <3>4
    <3> QED
      BY <3>5, <3>6
  <2> QED
    BY <1>3, <2>1, <2>2
<1>13. Table(Lus)'
  <2>1. Lus'[n] \in Seq(Caracteres)
    <3>1. 1 \in Nat /\ Len(Courant) \in Nat
      BY <1>1, <1>5
    <3>2. i > 0 /\ j = i => SubSeq(Courant, 1, i - 1) \in Seq(Caracteres)
      BY <1>1, <1>5, SubSeqProperties
    <3> QED
      BY <1>5, <1>3, <3>2
  <2>2. \A k \in Rangs : Lus'[k] \in Seq(Caracteres)
    BY <1>3, <2>1 DEF Contenu, Table
  <2> QED
    BY <2>2 DEF Table, Lus
<1>14. Tient(commande, Lus', n + 3, i + 2, B)
  <2>1. \A q \in 0 .. n - 1 : Lus'[q] = Lus[q]
    <3> TAKE q \in 0 .. n - 1
    <3>1. q \in Rangs /\ q # n /\ q # n + 1
      BY <1>3, ChaineAssumption DEF Rangs
    <3> QED
      BY <1>3, <3>1
  <2>2. Tient(commande, Lus, n + 1, i, B) /\ Table(Lus)
    BY DEF Contenu
  <2>3. Lus'[n + 1] = <<commande[i + 1]>>
    BY <1>2, <1>3, Zenon
  <2>4. Lus'[n + 2] = <<>>
    <3>1. n + 2 # n /\ n + 2 # n + 1 /\ n + 2 > indexCommandes
      BY <1>3
    <3> QED
      BY <1>3, <3>1, LusEst
  <2>5. i \in Nat /\ i + 2 <= Len(commande) /\ commande \in Seq(Caracteres)
    BY <1>1
  <2> QED
    BY <1>2, <1>3, <1>12, <1>13, <2>1, <2>2, <2>3, <2>4, <2>5, TientTube, Zenon
<1>15. Tient(commande, Lus', n + 3, i', B)
  <2>1. CASE i' = i + 2
    BY <1>14, <2>1, Zenon
  <2>2. CASE i' = i + 3
    <3>1. i + 2 < Len(commande)
      BY <1>1, <2>2
    <3>2. Garde(commande[i + 2 + 1]) => commande[i + 2 + 1] \in B
      BY <1>1, <2>2, Zenon
    <3>3. Tient(commande, Lus', n + 3, i + 2 + 1, B)
      BY <1>1, <1>14, <3>1, <3>2, TientPasse, Zenon
    <3> QED
      BY <1>1, <2>2, <3>3, Zenon
  <2> QED
    BY <1>1, <2>1, <2>2
<1>16. n + 3 = n + 2 + 1
  BY <1>3
<1> QED
  BY <1>4, <1>13, <1>15, <1>16, Zenon DEF Contenu

\* The word grows by what is read.
LEMMA LusGrandit ==
  ASSUME Bornes, Curseur, NEW mot \in Seq(Caracteres), Grandit(mot)
  PROVE  /\ Lus'[indexCommandes] = mot
         /\ \A k \in Rangs : k # indexCommandes => Lus'[k] = Lus[k]
         /\ (\A k \in Rangs : Lus[k] \in Seq(Caracteres)) => Table(Lus)'
<1>1. indexCommandes \in Rangs /\ commandeSansEspaces \in [Rangs -> Seq(Octets)]
  BY DansLigne DEF Curseur
<1>2. /\ commandeSansEspaces'[indexCommandes] = mot
      /\ \A k \in Rangs : k # indexCommandes =>
             commandeSansEspaces'[k] = commandeSansEspaces[k]
  BY <1>1 DEF Grandit
<1>3. /\ Lus'[indexCommandes] = mot
      /\ \A k \in Rangs : k # indexCommandes => Lus'[k] = Lus[k]
  BY <1>1, <1>2, LusPrime, LusEst, ChaineEntiere
<1>4. ASSUME \A k \in Rangs : Lus[k] \in Seq(Caracteres) PROVE Table(Lus)'
  <2>1. \A k \in Rangs : Lus'[k] \in Seq(Caracteres)
    BY <1>3, <1>4
  <2> QED
    BY <2>1 DEF Table, Lus
<1> QED
  BY <1>3, <1>4

LEMMA ContenuRediriger ==
  ASSUME Bornes, Curseur, NEW B, Contenu(B), Rediriger
  PROVE  Contenu(B)'
<1> PICK n : n = indexCommandes
  OBVIOUS
<1> DEFINE mot == Courant \o Direction
<1>1. i + 3 <= Len(commande) /\ i' = i + 3
  BY RedirigerPas, Zenon
<1>2. Garde(commande[i + 1]) /\ Garde(commande[i + 2]) /\ Garde(commande[i + 3])
      /\ Direction = <<commande[i + 1], commande[i + 2], commande[i + 3]>>
  BY RedirigerPas DEF Garde, Direction
<1>3. Grandit(mot)
  BY RedirigerPas, Zenon
<1>4. mot \in Seq(Caracteres)
  <2>1. Suit(Direction)
    BY DEF Rediriger
  <2>2. Direction \in Seq(Caracteres)
    BY <2>1, DirectionEst, Zenon
  <2>3. Courant \in Seq(Caracteres)
    BY DEF Curseur
  <2> HIDE DEF mot
  <2>4. mot = Courant \o Direction
    BY DEF mot
  <2> QED
    BY <2>2, <2>3, <2>4, ConcatProperties
<1> HIDE DEF mot
<1>5. commande' = commande /\ indexCommandes' = n
  BY DEF Rediriger
<1>6. n \in Rangs /\ n \in Nat /\ sizelgcmd \in Nat
  BY DansLigne
<1>7. Lus'[n] = Lus[n] \o <<commande[i + 1], commande[i + 2], commande[i + 3]>>
  <2>1. Lus'[n] = mot /\ Lus[n] = Courant
    BY <1>3, <1>4, LusGrandit, LusEst
  <2> QED
    BY <1>2, <2>1, Zenon DEF mot
<1>8. \A k \in Rangs : k # n => Lus'[k] = Lus[k]
  BY <1>3, <1>4, LusGrandit
<1>9. Table(Lus)'
  <2>1. \A k \in Rangs : Lus[k] \in Seq(Caracteres)
    BY DEF Contenu, Table
  <2> QED
    BY <1>3, <1>4, <2>1, LusGrandit
<1>10. Tient(commande, Lus', n + 1, i + 3, B)
  <2>1. \A q \in 0 .. n - 1 : Lus'[q] = Lus[q]
    <3> TAKE q \in 0 .. n - 1
    <3>1. q \in Rangs /\ q # n
      BY <1>6 DEF Rangs
    <3> QED
      BY <1>8, <3>1
  <2>2. Tient(commande, Lus, n + 1, i, B) /\ Table(Lus)
    BY DEF Contenu
  <2>3. i \in Nat /\ commande \in Seq(Caracteres)
    BY DansLigne DEF Bornes, Ligne
  <2> QED
    BY <1>1, <1>2, <1>6, <1>7, <1>9, <2>1, <2>2, <2>3, TientDirection, Zenon
<1> QED
  BY <1>1, <1>5, <1>9, <1>10, Zenon DEF Contenu

LEMMA ContenuCopier ==
  ASSUME Bornes, Curseur, NEW B, Contenu(B), Copier, Passe => commande[i + 1] \in B
  PROVE  Contenu(B)'
<1> PICK n : n = indexCommandes
  OBVIOUS
<1> DEFINE mot == Append(Courant, commande[i + 1])
<1>1. i < Len(commande) /\ i' = i + 1
  BY CopierPas, Zenon
<1>2. Garde(commande[i + 1])
  BY CopierPas DEF Garde
<1>3. commande' = commande /\ indexCommandes' = n
  BY DEF Copier
<1>4. n \in Rangs /\ n \in Nat /\ sizelgcmd \in Nat /\ i \in Nat /\ commande \in Seq(Caracteres)
  BY DansLigne DEF Bornes, Ligne
<1>5. CASE Passe
  <2>1. Tient(commande, Lus, n + 1, i + 1, B)
    <3>1. commande[i + 1] \in B
      BY <1>5
    <3> QED
      BY <1>1, <3>1, ContenuPasse
  <2>2. Lus' = Lus
    BY <1>5 DEF Passe, Lus
  <2> QED
    BY <1>1, <1>3, <2>1, <2>2, Zenon DEF Contenu
<1>6. CASE Ecrit
  <2>1. Grandit(mot)
    BY <1>6 DEF Ecrit
  <2>2. mot \in Seq(Caracteres)
    <3>1. commande[i + 1] \in Caracteres /\ Courant \in Seq(Caracteres)
      BY <1>1, DansLigne DEF Curseur
    <3> QED
      BY <3>1, AppendProperties
  <2> HIDE DEF mot
  <2>3. Lus'[n] = Append(Lus[n], commande[i + 1])
    <3>1. Lus'[n] = mot /\ Lus[n] = Courant
      BY <2>1, <2>2, LusGrandit, LusEst
    <3> QED
      BY <3>1, Zenon DEF mot
  <2>4. \A k \in Rangs : k # n => Lus'[k] = Lus[k]
    BY <2>1, <2>2, LusGrandit
  <2>5. Table(Lus)'
    <3>1. \A k \in Rangs : Lus[k] \in Seq(Caracteres)
      BY DEF Contenu, Table
    <3> QED
      BY <2>1, <2>2, <3>1, LusGrandit
  <2>6. \A q \in 0 .. n - 1 : Lus'[q] = Lus[q]
    <3> TAKE q \in 0 .. n - 1
    <3>1. q \in Rangs /\ q # n
      BY <1>4 DEF Rangs
    <3> QED
      BY <2>4, <3>1
  <2>7. Tient(commande, Lus, n + 1, i, B) /\ Table(Lus)
    BY DEF Contenu
  <2>8. Tient(commande, Lus', n + 1, i + 1, B)
    BY <1>1, <1>2, <1>4, <2>3, <2>5, <2>6, <2>7, TientEcrit, Zenon
  <2> QED
    BY <1>1, <1>3, <2>5, <2>8, Zenon DEF Contenu
<1> QED
  BY <1>5, <1>6, CopierPas, Zenon

-----------------------------------------------------------------------------
(* The signs of an ordinary line: the cursor is never in the middle of one *)
(* of two characters.                                                      *)
HorsPaire == i \notin Paires

LEMMA PaireEst ==
  ASSUME Ligne, NEW p \in Nat
  PROVE  p \in Paires <=> /\ p \in 1 .. Len(commande) /\ p + 1 \in 1 .. Len(commande)
                          /\ commande[p] \in {"|", "&"} /\ commande[p + 1] = commande[p]
  BY DEF Paires, SignesEn, Places, Paire, Signes

LEMMA SigneEst ==
  ASSUME Ligne, NEW p \in Nat
  PROVE  p \in SignesEn <=> p \in 1 .. Len(commande) /\ commande[p] \in {"|", "&", ";"}
  BY DEF SignesEn, Places, Signes

LEMMA SignesProches ==
  ASSUME Ligne, Ordinaire, NEW p \in SignesEn, NEW q \in SignesEn, p < q,
         \A m \in p + 1 .. q - 1 : commande[m] \in Signes \cup Blancs
  PROVE  q = p + 1 /\ p \in Paires
<1>1. Vide(p, q)
  BY DEF Vide
<1>2. q = p + 1 /\ Paire(p)
  BY <1>1 DEF Ordinaire
<1> QED
  BY <1>2 DEF Paires

LEMMA SigneDernier ==
  ASSUME Ligne, Ordinaire, NEW p \in SignesEn
  PROVE  p # Len(commande) /\ p # 1
<1>0. Len(commande) \in Nat /\ p \in Nat
  BY LenProperties DEF Ligne, SignesEn, Places
<1>1. ~Vide(p, Len(commande) + 1) /\ ~Vide(0, p)
  BY DEF Ordinaire
<1>2. ASSUME p = Len(commande) PROVE FALSE
  <2>1. p + 1 .. (Len(commande) + 1) - 1 = {}
    BY <1>0, <1>2
  <2> QED
    BY <1>1, <2>1 DEF Vide
<1>3. ASSUME p = 1 PROVE FALSE
  <2>1. 0 + 1 .. p - 1 = {}
    BY <1>3
  <2> QED
    BY <1>1, <2>1 DEF Vide
<1> QED
  BY <1>2, <1>3

LEMMA TeteColle ==
  ASSUME NEW T, NEW c \in T, NEW s \in Seq(T), Len(s) > 0
  PROVE  /\ <<c>> \o s \in Seq(T) /\ Len(<<c>> \o s) = Len(s) + 1
         /\ (<<c>> \o s)[1] = c /\ (<<c>> \o s)[2] = s[1]
<1>1. <<c>> \in Seq(T) /\ Len(<<c>>) = 1 /\ <<c>>[1] = c /\ Len(s) \in Nat
  BY Tuples, LenProperties
<1> DEFINE a == <<c>>
<1> HIDE DEF a
<1>2. a \in Seq(T) /\ Len(a) = 1 /\ a[1] = c
  BY <1>1 DEF a
<1>3. a \o s \in Seq(T) /\ Len(a \o s) = Len(a) + Len(s)
      /\ \A k \in 1 .. Len(a) + Len(s) :
             (a \o s)[k] = IF k <= Len(a) THEN a[k] ELSE s[k - Len(a)]
  BY <1>2, ConcatProperties
<1>4. (a \o s)[1] = c /\ Len(a) + Len(s) = Len(s) + 1 /\ (a \o s)[2] = s[1]
  <2>1. /\ 1 \in 1 .. Len(a) + Len(s) /\ 1 <= Len(a)
        /\ 2 \in 1 .. Len(a) + Len(s) /\ ~(2 <= Len(a)) /\ 2 - Len(a) = 1
    BY <1>1, <1>2
  <2>2. (a \o s)[1] = IF 1 <= Len(a) THEN a[1] ELSE s[1 - Len(a)]
    BY <1>3, <2>1
  <2>3. (a \o s)[2] = IF 2 <= Len(a) THEN a[2] ELSE s[2 - Len(a)]
    BY <1>3, <2>1
  <2> QED
    BY <1>1, <1>2, <2>1, <2>2, <2>3
<1> QED
  BY <1>3, <1>4 DEF a

LEMMA SuitTete ==
  ASSUME Bornes, NEW T, NEW w \in Seq(T), NEW k \in 1 .. Len(w), Suit(w)
  PROVE  commande[i + k] = w[k]
<1> PICK n : n = Len(w)
  OBVIOUS
<1>1. /\ commande \in Seq(Caracteres) /\ i + 1 \in 1 .. Len(commande)
      /\ i + n \in 1 .. Len(commande) /\ i \in Nat /\ n \in Nat /\ k \in 1 .. n
  BY LenProperties, DansLigne DEF Bornes, Ligne, Suit
<1>2. SubSeq(commande, i + 1, i + n) = w
  BY DEF Suit
<1>3. SubSeq(commande, i + 1, i + n)[k] = commande[i + k]
  BY <1>1, SubSeqProperties
<1> QED
  BY <1>2, <1>3, Zenon

LEMMA AvantSigne ==
  ASSUME Bornes, NEW s \in Doubles, Suit(<<" ">> \o s)
  PROVE  commande[i + 1] = " " /\ commande[i + 2] = s[1]
<1> DEFINE T == {"|", "&", " "}
           w == <<" ">> \o s
<1>1. " " \in T /\ s \in Seq(T) /\ Len(s) = 2
  BY Tuples DEF Doubles
<1>1a. Len(s) > 0
  <2>1. Len(s) = 2
    BY <1>1
  <2> QED
    BY ONLY <2>1
<1> HIDE DEF T
<1>2. w \in Seq(T) /\ Len(w) = Len(s) + 1 /\ w[1] = " " /\ w[2] = s[1]
  <2> PICK c : c = " "
    OBVIOUS
  <2>1. c \in T /\ s \in Seq(T)
    BY <1>1
  <2>2. /\ <<c>> \o s \in Seq(T) /\ Len(<<c>> \o s) = Len(s) + 1
        /\ (<<c>> \o s)[1] = c /\ (<<c>> \o s)[2] = s[1]
    BY ONLY <2>1, <1>1a, TeteColle
  <2>3. w = <<c>> \o s
    BY DEF w
  <2> QED
    BY <2>2, <2>3
<1> HIDE DEF w
<1>3. 1 \in 1 .. Len(w) /\ 2 \in 1 .. Len(w)
  <2>1. Len(s) = 2 /\ Len(w) = Len(s) + 1
    BY <1>1, <1>2, Zenon
  <2> QED
    BY ONLY <2>1
<1>4. commande[i + 1] = w[1] /\ commande[i + 2] = w[2]
  <2>1. Suit(w)
    BY DEF w
  <2> QED
    BY <1>2, <1>3, <2>1, SuitTete, Zenon
<1> QED
  BY <1>2, <1>4, Zenon

LEMMA LigneFixe == Next => commande' = commande
  BY DEF Next, Etape, vars, PasserRetourLigne, Couper, CouperDouble, CouperTube, Rediriger,
         Copier, Finir

\* A sign of two characters is followed by none.
LEMMA DoubleSeul ==
  ASSUME Bornes, Curseur, Ordinaire, CouperDouble
  PROVE  i + 1 \in Paires /\ i + 2 \notin Paires \cup Tubes \cup Points
<1> PICK p : p = i + 1
  OBVIOUS
<1>0. /\ p \in Nat /\ p \in 1 .. Len(commande) /\ p + 1 \in 1 .. Len(commande)
      /\ p + 1 = i + 2 /\ p + 1 > 1 /\ p + 1 \in Nat /\ p + 2 \in Nat
  <2>1. i + 2 <= Len(commande)
    BY DoublePas, Zenon
  <2> QED
    BY <2>1, DansLigne
<1>1. commande[p] \in {"|", "&"} /\ commande[p + 1] = commande[p]
  <2>1. commande[i + 1] \in {"|", "&"} /\ commande[i + 2] = commande[i + 1]
    BY DoublePas, Zenon
  <2> QED
    BY <1>0, <2>1, Zenon
<1>2. Ligne
  BY DEF Bornes
<1>3. p \in Paires
  BY <1>0, <1>1, <1>2, PaireEst, Zenon
<1>4. p + 1 \notin Points
  <2>1. commande[p + 1] # ";"
    BY <1>1
  <2> QED
    BY <2>1 DEF Points
<1>5. p + 1 \notin Tubes
  <2>1. (p + 1) - 1 = p
    BY <1>0
  <2>2. Paire((p + 1) - 1)
    BY <1>3, <2>1, Zenon DEF Paires
  <2> QED
    BY <1>0, <2>2 DEF Tubes
<1>6. ASSUME p + 1 \in Paires PROVE FALSE
  <2> PICK q : q = p + 2
    OBVIOUS
  <2>0. q = (p + 1) + 1 /\ q \in Nat /\ p < q
    BY <1>0
  <2>1. q \in 1 .. Len(commande)
    <3>1. (p + 1) + 1 \in 1 .. Len(commande)
      BY <1>0, <1>2, <1>6, PaireEst, Zenon
    <3> QED
      BY <2>0, <3>1, Zenon
  <2>2. commande[q] = commande[p + 1]
    <3>1. commande[(p + 1) + 1] = commande[p + 1]
      BY <1>0, <1>2, <1>6, PaireEst, Zenon
    <3> QED
      BY <2>0, <3>1, Zenon
  <2>3. commande[q] \in {"|", "&", ";"} /\ commande[p] \in {"|", "&", ";"}
    <3>1. commande[q] = commande[p] /\ commande[p] \in {"|", "&"}
      BY <1>1, <2>2, Zenon
    <3>2. commande[p] \in {"|", "&", ";"}
      BY <3>1
    <3> QED
      BY <3>1, <3>2, Zenon
  <2>4. p \in SignesEn /\ q \in SignesEn
    BY <1>0, <1>2, <2>0, <2>1, <2>3, SigneEst, Zenon
  <2>5. \A m \in p + 1 .. q - 1 : commande[m] \in Signes \cup Blancs
    <3>1. \A m \in p + 1 .. q - 1 : m = p + 1
      BY <1>0, <2>0
    <3>2. commande[p + 1] \in Signes \cup Blancs
      BY <2>2, <2>3 DEF Signes
    <3> QED
      BY <3>1, <3>2, Zenon
  <2>6. q = p + 1
    BY <1>2, <2>0, <2>4, <2>5, SignesProches
  <2> QED
    BY <1>0, <2>0, <2>6
<1> QED
  BY <1>0, <1>3, <1>4, <1>5, <1>6, Zenon

\* What is copied separates nothing.
LEMMA CopierSeul ==
  ASSUME Bornes, Curseur, Ordinaire, Copier
  PROVE  commande[i + 1] # "|" /\ i + 1 \notin Paires \cup Tubes \cup Points
<1> PICK p : p = i + 1
  OBVIOUS
<1>0. /\ p \in Nat /\ p \in 1 .. Len(commande) /\ Ligne /\ Len(commande) \in Nat
      /\ p + 1 = i + 2 /\ p - 1 = i /\ i \in Nat
  <2>1. i < Len(commande)
    BY CopierPas, Zenon
  <2> QED
    BY <2>1, DansLigne DEF Bornes
<1>1. ~Double /\ ~TubeSeul /\ commande[i + 1] # ";"
  BY CopierPas
<1>2. ASSUME commande[p] = "|" PROVE FALSE
  <2>1. Suit(Tube)
    <3>1. i < Len(commande)
      BY <1>0
    <3> QED
      BY <1>0, <1>2, <3>1, Comparaisons, Zenon
  <2>2. p = Len(commande)
    <3>1. ~(i + 1 < Len(commande))
      BY <1>1, <2>1, Zenon DEF TubeSeul
    <3> QED
      BY <1>0, <3>1
  <2>3. commande[p] \in {"|", "&", ";"}
    BY <1>2
  <2>4. p \in SignesEn
    BY <1>0, <2>3, SigneEst, Zenon
  <2> QED
    BY <1>0, <2>2, <2>4, SigneDernier, Zenon
<1>3. p \notin Tubes
  BY <1>2, Zenon DEF Tubes
<1>4. p \notin Points
  <2>1. commande[p] # ";"
    BY <1>1, Zenon
  <2> QED
    BY <2>1 DEF Points
<1>5. ASSUME p \in Paires PROVE FALSE
  <2>1. /\ p + 1 \in 1 .. Len(commande)
        /\ commande[p] \in {"|", "&"} /\ commande[p + 1] = commande[p]
    BY <1>0, <1>5, PaireEst
  <2>2. i + 2 <= Len(commande)
    <3>1. p + 1 \in 1 .. Len(commande)
      BY <2>1
    <3> QED
      BY <1>0, <3>1
  <2>3. commande[i + 1] \in {"|", "&"} /\ commande[i + 2] = commande[i + 1]
    BY <1>0, <2>1, Zenon
  <2>4. \E s \in Doubles : commande[i + 1] = s[1] /\ commande[i + 2] = s[2]
    BY <2>3 DEF Doubles
  <2>5. \E s \in Doubles : Suit(s)
    BY <1>0, <2>2, <2>4, Comparaisons, Zenon
  <2> QED
    BY <1>1, <2>5 DEF Double
<1> QED
  BY <1>2, <1>3, <1>4, <1>5, Zenon

LEMMA HorsPairePas ==
  ASSUME Bornes, Curseur, Ordinaire, HorsPaire, Next
  PROVE  HorsPaire'
<1>0. /\ commande \in Seq(Caracteres) /\ Len(commande) \in Nat /\ i \in Nat /\ i' \in Nat
      /\ Ligne
  <2>1. Bornes'
    BY PasEtat
  <2> QED
    BY <2>1, DansLigne DEF Bornes, Ligne
<1>1. Paires' = Paires
  BY LigneFixe DEF Paires, SignesEn, Places, Signes, Paire
<1> SUFFICES ASSUME i' \in Paires PROVE FALSE
  BY <1>1 DEF HorsPaire
<1>2. /\ i' \in 1 .. Len(commande) /\ i' + 1 \in 1 .. Len(commande)
      /\ commande[i'] \in {"|", "&"} /\ commande[i' + 1] = commande[i']
  BY <1>0, PaireEst
<1>2a. i' \in 1 .. Len(commande) /\ i' + 1 \in 1 .. Len(commande)
  BY <1>2
<1>3. commande[i'] \notin Blancs /\ commande[i'] # ";"
  BY <1>2 DEF Blancs
<1>4. CASE PasserRetourLigne
  BY <1>3, <1>4, RetourPas, Zenon DEF Blancs
<1>5. CASE Couper
  BY <1>3, <1>5, CouperPas, Zenon
<1>6. CASE CouperDouble
  <2>1. i' = i + 2
    BY <1>3, <1>6, DoublePas, Zenon
  <2>2. i + 2 \notin Paires
    BY <1>6, DoubleSeul
  <2> QED
    BY <2>1, <2>2, Zenon
<1>7. CASE CouperTube
  <2>1. i' = i + 2
    BY <1>3, <1>7, TubePas, Zenon
  <2>2. commande[i + 1] = "|" /\ commande[i + 2] # "|"
    BY <1>7, TubePas, Zenon
  <2>2a. i + 1 \in 1 .. Len(commande) /\ i + 1 \in Nat
    BY <1>0, <1>2a, <2>1
  <2>3. i + 1 \in SignesEn
    BY <1>0, <2>2, <2>2a, SigneEst, Zenon
  <2>4. i' \in SignesEn
    BY <1>0, <1>2, SigneEst
  <2>5. i + 1 < i' /\ (i + 1) + 1 .. i' - 1 = {}
    BY <1>0, <2>1
  <2>6. i + 1 \in Paires
    BY <1>0, <2>3, <2>4, <2>5, SignesProches
  <2>7. commande[(i + 1) + 1] = commande[i + 1]
    BY <1>0, <2>6, PaireEst
  <2>8. commande[i + 2] = commande[i + 1]
    <3>1. (i + 1) + 1 = i + 2
      BY <1>0
    <3> QED
      BY <2>7, <3>1, Zenon
  <2> QED
    BY <2>2, <2>8, Zenon
<1>8. CASE Rediriger
  <2>1. i' = i + 3 /\ commande[i + 3] = " "
    BY <1>8, RedirigerPas, Zenon
  <2>2. commande[i'] = " "
    BY <2>1, Zenon
  <2> QED
    BY <1>3, <2>2 DEF Blancs
<1>9. CASE Copier
  <2>1. i' = i + 1
    BY <1>9, CopierPas, Zenon
  <2>2. i + 1 \notin Paires
    BY <1>9, CopierSeul
  <2> QED
    BY <2>1, <2>2, Zenon
<1>10. CASE Finir \/ UNCHANGED vars
  BY <1>10 DEF Finir, vars, HorsPaire
<1> QED
  BY <1>4, <1>5, <1>6, <1>7, <1>8, <1>9, <1>10 DEF Next, Etape

LEMMA LigneInchangee ==
  ASSUME commande' = commande
  PROVE  /\ Ordinaire' = Ordinaire /\ Aere' = Aere /\ Paires' = Paires
         /\ Tubes' = Tubes /\ Points' = Points
  BY DEF Ordinaire, Aere, Paires, Tubes, Points, SignesEn, Places, Signes, Paire, Vide

LEMMA DebutPas ==
  ASSUME Bornes, Curseur, Debut, Next
  PROVE  Debut'
<1>0. /\ i \in Nat /\ j \in Nat /\ j <= i /\ commande \in Seq(Caracteres)
      /\ Courant \in Seq(Caracteres) /\ Len(Courant) = j /\ Len(commande) \in Nat
  BY DansLigne DEF Bornes, Ligne, Curseur
<1>1. commande' = commande
  BY LigneFixe
<1>2. ASSUME i' # j' PROVE Debut'
  BY <1>2 DEF Debut
<1>3. CASE PasserRetourLigne
  <2>1. i' = i + 1 /\ j' = j
    BY <1>3 DEF PasserRetourLigne
  <2>2. i' # j'
    BY <1>0, <2>1
  <2> QED
    BY <1>2, <2>2
<1>4. CASE Couper \/ CouperDouble \/ CouperTube
  <2>1. j' = 0
    BY <1>4 DEF Couper, CouperDouble, CouperTube
  <2>2. i' = i + 1 \/ i' = i + 2 \/ i' = i + 3
    BY <1>4, CouperPas, DoublePas, TubePas, Zenon
  <2>3. i' # j'
    BY <1>0, <2>1, <2>2
  <2> QED
    BY <1>2, <2>3
<1>5. CASE Rediriger
  <2> PICK d : d = Direction
    OBVIOUS
  <2>1. i' = i + 3 /\ i + 3 <= Len(commande) /\ Courant' = Courant \o d
    BY <1>5, RedirigerPas, Zenon
  <2>2. d \in Seq(Caracteres) /\ Len(d) = 3
    BY <1>5, DirectionEst, Zenon DEF Rediriger
  <2>3. d[1] = commande[i + 1] /\ d[2] = commande[i + 2] /\ d[3] = commande[i + 3]
    <3>1. d[1] = " " /\ d[2] = ">" /\ d[3] = " "
      BY DEF Direction
    <3>2. commande[i + 1] = " " /\ commande[i + 2] = ">" /\ commande[i + 3] = " "
      BY <1>5, RedirigerPas, Zenon
    <3> QED
      BY <3>1, <3>2, Zenon
  <2>4. j' = j + 3
    BY <1>5 DEF Rediriger
  <2> SUFFICES ASSUME j' = i', NEW k \in 1 .. j' PROVE Courant'[k] = commande'[k]
    BY DEF Debut
  <2>4a. j = i /\ k \in 1 .. Len(Courant) + Len(d)
    BY <1>0, <2>1, <2>2, <2>4
  <2>5. Courant'[k] = IF k <= j THEN Courant[k] ELSE d[k - j]
    <3>1. (Courant \o d)[k] = IF k <= Len(Courant) THEN Courant[k] ELSE d[k - Len(Courant)]
      BY <1>0, <2>2, <2>4a, ConcatProperties
    <3> QED
      BY <1>0, <2>1, <3>1, Zenon
  <2>6. CASE k <= j
    BY <1>0, <1>1, <2>4, <2>4a, <2>5, <2>6 DEF Debut
  <2>7. CASE k > j
    <3>1. k = j + 1 \/ k = j + 2 \/ k = j + 3
      BY <1>0, <2>4, <2>7
    <3> QED
      BY <1>0, <1>1, <2>3, <2>4a, <2>5, <2>7, <3>1
  <2> QED
    BY <1>0, <2>4, <2>6, <2>7
<1>6. CASE Copier
  <2>1. i' = i + 1 /\ i < Len(commande)
    BY <1>6, CopierPas, Zenon
  <2>2. CASE Passe
    <3>1. j' = j
      BY <2>2 DEF Passe
    <3>2. i' # j'
      BY <1>0, <2>1, <3>1
    <3> QED
      BY <1>2, <3>2
  <2>3. CASE Ecrit
    <3>1. /\ Courant' = Append(Courant, commande[i + 1])
          /\ j' = Len(Append(Courant, commande[i + 1]))
      BY <2>3 DEF Ecrit, Grandit
    <3>2. commande[i + 1] \in Caracteres
      BY <2>1, DansLigne
    <3>3. j' = j + 1
      BY <1>0, <3>1, <3>2, AppendProperties
    <3> SUFFICES ASSUME j' = i', NEW k \in 1 .. j' PROVE Courant'[k] = commande'[k]
      BY DEF Debut
    <3>3a. j = i
      BY <1>0, <2>1, <3>3
    <3>4. CASE k <= j
      <4>1. Courant'[k] = Courant[k]
        BY <1>0, <3>1, <3>2, <3>3, <3>4, AppendProperties
      <4> QED
        BY <1>0, <1>1, <3>3, <3>3a, <3>4, <4>1 DEF Debut
    <3>5. CASE k > j
      <4>1. k = i + 1 /\ k = Len(Courant) + 1
        BY <1>0, <3>3, <3>3a, <3>5
      <4>2. Courant'[Len(Courant) + 1] = commande[i + 1]
        BY <1>0, <3>1, <3>2, AppendProperties
      <4> QED
        BY <1>1, <4>1, <4>2, Zenon
    <3> QED
      BY <1>0, <3>3, <3>4, <3>5
  <2> QED
    BY <1>6, <2>2, <2>3, CopierPas, Zenon
<1>7. CASE Finir \/ UNCHANGED vars
  BY <1>7 DEF Finir, vars, Debut, Courant
<1> QED
  BY <1>3, <1>4, <1>5, <1>6, <1>7 DEF Next, Etape

\* In an ordinary line nothing but a blank is passed.
LEMMA PasseBlanc ==
  ASSUME Bornes, Curseur, Ordinaire, Copier, Passe
  PROVE  commande[i + 1] \in Blancs
<1>2. commande[i + 1] # "|"
  BY CopierSeul
<1>3. ASSUME AvantDouble PROVE commande[i + 1] \in Blancs
  <2>1. commande[i + 1] = "|" \/ commande[i + 1] = " "
    BY <1>3, AvantSigne, Zenon DEF AvantDouble, Car
  <2>2. commande[i + 1] = " "
    BY <1>2, <2>1, Zenon
  <2> QED
    BY <2>2 DEF Blancs
<1> QED
  BY <1>3, Zenon DEF Passe

\* A | that is on its own, and the blanks around it.
LEMMA TubeEst ==
  ASSUME Bornes, Curseur, HorsPaire, CouperTube
  PROVE  i + 1 \in Tubes
<1>0. Len(commande) \in Nat /\ i \in Nat /\ Ligne
  BY DansLigne DEF Bornes
<1>1. i + 2 <= Len(commande)
  BY TubePas, Zenon
<1>2. commande[i + 1] = "|" /\ commande[i + 2] # "|"
  BY TubePas, Zenon
<1> PICK p : p = i + 1
  OBVIOUS
<1>3. p \in 1 .. Len(commande) /\ p \in Nat /\ p + 1 = i + 2 /\ p - 1 = i
  BY <1>0, <1>1
<1>4. commande[p] = "|" /\ commande[p + 1] # "|"
  BY <1>2, <1>3, Zenon
<1>5. p \in SignesEn
  <2>1. commande[p] \in {"|", "&", ";"}
    BY <1>4
  <2> QED
    BY <1>0, <1>3, <2>1, SigneEst, Zenon
<1>6. ~Paire(p)
  BY <1>4, Zenon DEF Paire
<1>7. ~(p > 1 /\ Paire(p - 1))
  <2> SUFFICES ASSUME p > 1, Paire(i) PROVE FALSE
    BY <1>3
  <2>1. i \in 1 .. Len(commande)
    BY <1>0, <1>3
  <2>2. commande[i] = "|"
    BY <1>2, Zenon DEF Paire
  <2>3. commande[i] \in {"|", "&", ";"}
    BY <2>2
  <2>4. i \in SignesEn
    BY <1>0, <2>1, <2>3, SigneEst, Zenon
  <2> QED
    BY <2>4 DEF Paires, HorsPaire
<1>8. p \in Tubes
  BY <1>4, <1>5, <1>6, <1>7 DEF Tubes
<1> QED
  BY <1>8

LEMMA TubeAere ==
  ASSUME Bornes, Curseur, Ordinaire, Aere, HorsPaire, CouperTube
  PROVE  commande[i] = " " /\ commande[i + 2] = " " /\ i + 1 \in Tubes
<1> PICK p : p = i + 1
  OBVIOUS
<1>1. p \in Tubes
  BY TubeEst
<1>2. commande[p - 1] = " " /\ commande[p + 1] = " "
  BY <1>1 DEF Aere
<1>3. p - 1 = i /\ p + 1 = i + 2
  BY DansLigne
<1> QED
  BY <1>1, <1>2, <1>3, Zenon

\* What RienPerdu says at the end, at each step.
Aucune ==
    /\ Debut
    /\ Ordinaire => HorsPaire
    /\ Ordinaire /\ Aere => Contenu(Blancs)

LEMMA ContenuInit ==
  ASSUME Init, NEW B
  PROVE  Contenu(B)
<1>1. Bornes /\ Curseur
  BY InitEtat
<1>2. i = 0 /\ indexCommandes = 0 /\ commandeSansEspaces = [k \in Rangs |-> <<>>]
  BY DEF Init
<1>3. <<>> \in Seq(Caracteres) /\ Chaine(<<>>) = <<>>
  BY EmptySeq, ChaineEntiere
<1>4. \A k \in Rangs : Lus[k] = <<>>
  BY <1>1, <1>2, <1>3, LusEst
<1>5. Table(Lus)
  BY <1>3, <1>4 DEF Table, Lus
<1>6. Tient(commande, Lus, 0, 0, B)
  <2>1. [k \in 1 .. 0 |-> Lus[k - 1]] = <<>>
    OBVIOUS
  <2>2. Colles(Lus, 0) = <<>>
    <3>1. FlattenSeq(<<>>) = <<>>
      <4>1. PICK f : Colle(f, <<>>, Caracteres)
        BY ColleExiste, EmptySeq
      <4> QED
        BY <4>1, EmptySeq DEF Colle
    <3> QED
      BY <2>1, <3>1, Zenon DEF Colles
  <2>3. SubSeq(commande, 1, 0) = <<>>
    BY SubSeqEmpty
  <2> QED
    BY <2>2, <2>3, SansRien, Zenon DEF Tient
<1>7. Tient(commande, Lus, 0 + 1, 0, B)
  <2>1. 0 \in Rangs
    BY <1>1, <1>2, LusEst
  <2> QED
    BY <1>4, <1>5, <1>6, <2>1, TientVide, Zenon
<1> QED
  BY <1>2, <1>5, <1>7, Zenon DEF Contenu

LEMMA AucuneInit == Init => Aucune
<1> SUFFICES ASSUME Init PROVE Aucune
  OBVIOUS
<1>1. i = 0 /\ j = 0
  BY DEF Init
<1>2. Debut
  BY <1>1 DEF Debut
<1>3. HorsPaire
  BY <1>1 DEF HorsPaire, Paires, SignesEn, Places
<1> QED
  BY <1>2, <1>3, ContenuInit DEF Aucune

LEMMA AucunePas == Bornes /\ Curseur /\ Aucune /\ [Next]_vars => Aucune'
<1> SUFFICES ASSUME Bornes, Curseur, Aucune, [Next]_vars PROVE Aucune'
  OBVIOUS
<1>1. CASE UNCHANGED vars
  <2>1. Lus' = Lus /\ commande' = commande /\ i' = i /\ j' = j
        /\ indexCommandes' = indexCommandes /\ Courant' = Courant
    BY <1>1 DEF vars, Lus, Courant
  <2>2. /\ Debut' /\ (HorsPaire => HorsPaire') /\ (Contenu(Blancs) => Contenu(Blancs)')
        /\ Ordinaire' = Ordinaire /\ Aere' = Aere
    BY <2>1, LigneInchangee DEF Aucune, Debut, HorsPaire, Contenu, Table, Tient
  <2> QED
    BY <2>2 DEF Aucune
<1>2. CASE Next
  <2>1. commande' = commande /\ Debut' /\ (Ordinaire => HorsPaire')
    BY <1>2, LigneFixe, DebutPas, HorsPairePas DEF Aucune
  <2>2. Ordinaire' = Ordinaire /\ Aere' = Aere
    BY <2>1, LigneInchangee
  <2> SUFFICES ASSUME Ordinaire, Aere PROVE Contenu(Blancs)'
    BY <2>1, <2>2 DEF Aucune
  <2>3. Debut /\ HorsPaire /\ Contenu(Blancs)
    BY DEF Aucune
  <2>4. " " \in Blancs
    BY DEF Blancs
  <2>5. CASE PasserRetourLigne
    BY <2>3, <2>5, ContenuRetour
  <2>6. CASE Couper
    <3>1. i' = i + 2 => commande[i + 2] \in Blancs
      <4>1. i + 1 # i + 2
        BY DansLigne
      <4> QED
        BY <2>6, <4>1, CouperPas, Zenon
    <3> QED
      BY <2>3, <2>6, <3>1, ContenuCouper, Zenon
  <2>7. CASE CouperDouble
    <3>1. i' = i + 3 => commande[i + 3] \in Blancs
      <4>1. i + 2 # i + 3
        BY DansLigne
      <4> QED
        BY <2>7, <4>1, DoublePas, Zenon
    <3> QED
      BY <2>3, <2>7, <3>1, ContenuDouble, Zenon
  <2>8. CASE CouperTube
    <3>1. i' = i + 3 => commande[i + 3] \in Blancs
      <4>1. i + 2 # i + 3
        BY DansLigne
      <4> QED
        BY <2>8, <4>1, TubePas, Zenon
    <3>2. commande[i] \in Blancs /\ commande[i + 2] \in Blancs
      BY <2>3, <2>4, <2>8, TubeAere, Zenon
    <3> QED
      BY <2>3, <2>8, <3>1, <3>2, ContenuTube, Zenon
  <2>9. CASE Rediriger
    BY <2>3, <2>9, ContenuRediriger
  <2>10. CASE Copier
    BY <2>3, <2>10, PasseBlanc, ContenuCopier
  <2>11. CASE Finir \/ UNCHANGED vars
    <3>1. /\ Lus' = Lus /\ i' = i /\ indexCommandes' = indexCommandes
      BY <2>11 DEF Finir, vars, Lus
    <3> QED
      BY <2>1, <2>3, <3>1 DEF Contenu, Table, Tient
  <2> QED
    BY <1>2, <2>5, <2>6, <2>7, <2>8, <2>9, <2>10, <2>11 DEF Next, Etape
<1> QED
  BY <1>1, <1>2

LEMMA EtatTexte == Spec => [](Bornes /\ Curseur /\ Aucune)
<1>1. Init => Bornes /\ Curseur /\ Aucune
  BY InitEtat, AucuneInit
<1>2. Bornes /\ Curseur /\ Aucune /\ [Next]_vars => (Bornes /\ Curseur /\ Aucune)'
  BY PasEtat, AucunePas
<1> QED
  BY <1>1, <1>2, PTL DEF Spec

\* At the end, all of the line has been read.
LEMMA ContenuFin ==
  ASSUME Bornes, Curseur, NEW B, Contenu(B), Fini
  PROVE  /\ Sans(FlattenSeq(Mots), B) = Sans(commande, B \cup {";", "\n"})
         /\ FlattenSeq(Mots) \in Seq(Caracteres)
<1>1. /\ nbCommandes = indexCommandes + 1 /\ i = Len(commande)
      /\ commande \in Seq(Caracteres) /\ nbCommandes \in Nat /\ nbCommandes <= sizelgcmd
      /\ sizelgcmd \in Nat
  BY DansLigne DEF Bornes, Ligne, Rangs
<1>2. \A k \in 1 .. nbCommandes : Lus[k - 1] = Chaine(commandeSansEspaces[k - 1])
  <2> TAKE k \in 1 .. nbCommandes
  <2>1. k - 1 \in Rangs
    BY <1>1 DEF Rangs
  <2> QED
    BY <2>1, LusEst
<1>3. Mots = [k \in 1 .. nbCommandes |-> Lus[k - 1]]
  BY <1>2 DEF Mots
<1>4. FlattenSeq(Mots) = Colles(Lus, indexCommandes + 1)
  BY <1>1, <1>3, Zenon DEF Colles
<1>5. SubSeq(commande, 1, i) = commande
  <2>1. SubSeq(commande, 1, Len(commande)) = commande
    BY <1>1, SubSeqFull
  <2> QED
    BY <1>1, <2>1, Zenon
<1>6. FlattenSeq(Mots) \in Seq(Caracteres)
  <2>1. Table(Lus) /\ indexCommandes \in Rangs
    BY DansLigne, Zenon DEF Contenu
  <2>2. Colles(Lus, indexCommandes + 1) = Colles(Lus, indexCommandes) \o Lus[indexCommandes]
        /\ Colles(Lus, indexCommandes) \in Seq(Caracteres)
    BY <2>1, CollesAjout, Zenon
  <2>3. Lus[indexCommandes] \in Seq(Caracteres)
    BY <2>1 DEF Table
  <2> QED
    BY <1>4, <2>2, <2>3, ConcatProperties
<1> QED
  BY <1>4, <1>5, <1>6, Zenon DEF Contenu, Tient

LEMMA RienEst == Bornes /\ Curseur /\ Aucune => RienPerdu
<1> SUFFICES ASSUME Bornes, Curseur, Aucune, Fini, Ordinaire, Aere
             PROVE  Sans(FlattenSeq(Mots), Blancs) = Sans(commande, Blancs \cup {";"})
  BY DEF RienPerdu
<1>1. Sans(FlattenSeq(Mots), Blancs) = Sans(commande, Blancs \cup {";", "\n"})
  BY ContenuFin DEF Aucune
<1>2. Blancs \cup {";", "\n"} = Blancs \cup {";"}
  BY DEF Blancs
<1> QED
  BY <1>1, <1>2, Zenon

(* Nothing but blanks is lost, added or moved, whatever the line: no letter*)
(* of a command whose separators stand where one expects them is dropped by*)
(* the jumps of the cursor or by the NUL put in front of a |.              *)
THEOREM RienNestPerdu == Spec => []RienPerdu
<1> QED
  BY RienEst, EtatTexte, PTL

-----------------------------------------------------------------------------
(* Cutting: the separators up to the cursor, and the words they make.      *)
Coupes == Tubes \cup Paires
Jusqua(X, n) == Cardinality({p \in X : p <= n})

Separateurs == Doubles \cup {Tube}
SepLus == {k \in 1 .. sizelgcmd : Lus[k - 1] \in Separateurs}

Compte == /\ indexCommandes = Jusqua(Points, i) + 2 * Jusqua(Coupes, i)
          /\ Cardinality(SepLus) = Jusqua(Coupes, i)

\* Nothing but blanks and signs has been read for a word that is empty, and
\* none begins with a sign.
Tete == /\ j = 0 => \E d \in SignesEn \cup {0} : d <= i /\ Vide(d, i + 1)
        /\ j > 0 => Courant[1] \notin Signes

LEMMA JusquaSuivant ==
  ASSUME Bornes, NEW X, X \subseteq Places, NEW n \in Nat, NEW p, p = n + 1
  PROVE  /\ Jusqua(X, n) \in Nat
         /\ p \in X => Jusqua(X, p) = Jusqua(X, n) + 1
         /\ p \notin X => Jusqua(X, p) = Jusqua(X, n)
<1> DEFINE a == {q \in X : q <= n}
           b == {q \in X : q <= p}
<1>0. Len(commande) \in Nat /\ \A q \in X : q \in Nat
  BY DansLigne DEF Places
<1>1. IsFiniteSet(Places)
  BY <1>0, FS_Interval DEF Places
<1>2. IsFiniteSet(a) /\ Cardinality(a) \in Nat
  <2>1. a \subseteq Places
    OBVIOUS
  <2> QED
    BY <1>1, <2>1, FS_Subset, FS_CardinalityType
<1>3. CASE p \in X
  <2>0. (\A q \in X : q <= p <=> q <= n \/ q = p) /\ ~(p <= n)
    BY <1>0
  <2>1. b = a \cup {p} /\ p \notin a
    BY <1>3, <2>0
  <2>2. Cardinality(b) = Cardinality(a) + 1
    BY <1>2, <2>1, FS_AddElement
  <2> QED
    BY <1>2, <1>3, <2>2 DEF Jusqua
<1>4. CASE p \notin X
  <2>1. b = a
    BY <1>0, <1>4
  <2> QED
    BY <1>2, <1>4, <2>1 DEF Jusqua
<1> QED
  BY <1>3, <1>4

LEMMA CoupesPlaces ==
  /\ Points \subseteq Places /\ Coupes \subseteq Places
  /\ \A p : commande[p] \notin Signes => p \notin Points /\ p \notin Coupes
BY DEF Points, Coupes, Tubes, Paires, SignesEn

\* A place that cuts nothing.
Muette(p) == p \notin Points /\ p \notin Coupes

LEMMA JusquaMuette ==
  ASSUME Bornes, NEW n \in Nat, NEW p, p = n + 1, Muette(p)
  PROVE  Jusqua(Points, p) = Jusqua(Points, n) /\ Jusqua(Coupes, p) = Jusqua(Coupes, n)
BY CoupesPlaces, JusquaSuivant DEF Muette

\* How far the counts go with the cursor.
LEMMA JusquaUn ==
  ASSUME Bornes, NEW p, p = i + 1, NEW q \in {p, p + 1, p + 2},
         q >= p + 1 => Muette(p + 1), q >= p + 2 => Muette(p + 2)
  PROVE  /\ Jusqua(Points, i) \in Nat /\ Jusqua(Coupes, i) \in Nat
         /\ Jusqua(Points, q) = Jusqua(Points, i) + (IF p \in Points THEN 1 ELSE 0)
         /\ Jusqua(Coupes, q) = Jusqua(Coupes, i) + (IF p \in Coupes THEN 1 ELSE 0)
<1>0. i \in Nat /\ p \in Nat /\ p + 1 \in Nat /\ p + 2 = (p + 1) + 1
  BY DansLigne
<1>1. /\ Jusqua(Points, i) \in Nat /\ Jusqua(Coupes, i) \in Nat
      /\ Jusqua(Points, p) = Jusqua(Points, i) + (IF p \in Points THEN 1 ELSE 0)
      /\ Jusqua(Coupes, p) = Jusqua(Coupes, i) + (IF p \in Coupes THEN 1 ELSE 0)
  <2>1. /\ Jusqua(Points, i) \in Nat
        /\ p \in Points => Jusqua(Points, p) = Jusqua(Points, i) + 1
        /\ p \notin Points => Jusqua(Points, p) = Jusqua(Points, i)
    BY <1>0, CoupesPlaces, JusquaSuivant
  <2>2. /\ Jusqua(Coupes, i) \in Nat
        /\ p \in Coupes => Jusqua(Coupes, p) = Jusqua(Coupes, i) + 1
        /\ p \notin Coupes => Jusqua(Coupes, p) = Jusqua(Coupes, i)
    BY <1>0, CoupesPlaces, JusquaSuivant
  <2> QED
    BY <2>1, <2>2
<1>2. Muette(p + 1) => Jusqua(Points, p + 1) = Jusqua(Points, p)
                       /\ Jusqua(Coupes, p + 1) = Jusqua(Coupes, p)
  BY <1>0, JusquaMuette
<1>3. Muette(p + 2) => Jusqua(Points, p + 2) = Jusqua(Points, p + 1)
                       /\ Jusqua(Coupes, p + 2) = Jusqua(Coupes, p + 1)
  BY <1>0, JusquaMuette
<1>4. CASE q = p
  BY <1>1, <1>4, Zenon
<1>5. CASE q = p + 1
  <2>1. q >= p + 1
    BY <1>0, <1>5
  <2> QED
    BY <1>1, <1>2, <1>5, <2>1, Zenon
<1>6. CASE q = p + 2
  <2>1. q >= p + 1 /\ q >= p + 2
    BY <1>0, <1>6
  <2> QED
    BY <1>1, <1>2, <1>3, <1>6, <2>1, Zenon
<1> QED
  BY <1>4, <1>5, <1>6

\* No separator begins otherwise than with a sign.
LEMMA PasSeparateur ==
  ASSUME NEW w, w = <<>> \/ w[1] \notin Signes
  PROVE  w \notin Separateurs
<1>1. <<>> \notin Separateurs
  <2>1. Len(<<>>) = 0 /\ Len(Tube) = 1 /\ \A s \in Doubles : Len(s) = 2
    BY DEF Tube, Doubles
  <2> QED
    BY <2>1 DEF Separateurs
<1>2. \A s \in Separateurs : s[1] \in Signes
  <2>1. \A s \in Doubles : s[1] \in Signes
    <3> TAKE s \in Doubles
    <3>1. s[1] \in {"|", "&"}
      BY DEF Doubles
    <3> QED
      BY <3>1 DEF Signes
  <2>2. Tube[1] \in Signes
    BY DEF Tube, Signes
  <2> QED
    BY <2>1, <2>2 DEF Separateurs
<1> QED
  BY <1>1, <1>2, Zenon

LEMMA TeteMot ==
  ASSUME Bornes, Curseur, Tete
  PROVE  Courant \notin Separateurs
<1>1. Courant = <<>> \/ Courant[1] \notin Signes
  <2>1. CASE j = 0
    <3>1. Courant = <<>>
      BY <2>1, EmptySeq DEF Curseur
    <3> QED
      BY <3>1
  <2>2. CASE j > 0
    BY <2>2 DEF Tete
  <2> QED
    BY <2>1, <2>2, DansLigne
<1> QED
  BY <1>1, PasSeparateur

\* The word that is read changes, or a separator follows.
LEMMA SepLusMeme ==
  ASSUME NEW n \in Rangs, Lus[n] \notin Separateurs, Lus'[n] \notin Separateurs,
         \A k \in Rangs : k # n => Lus'[k] = Lus[k]
  PROVE  SepLus' = SepLus
<1>1. \A k \in 1 .. sizelgcmd : k - 1 \in Rangs
  BY ChaineAssumption DEF Rangs
<1>2. \A k \in Rangs : Lus'[k] \in Separateurs <=> Lus[k] \in Separateurs
  BY Zenon
<1>3. SepLus' = {k \in 1 .. sizelgcmd : Lus'[k - 1] \in Separateurs}
  BY DEF SepLus, Separateurs
<1> QED
  BY <1>1, <1>2, <1>3 DEF SepLus

LEMMA SepLusPlus ==
  ASSUME NEW n \in Rangs, NEW x \in Rangs, x # n,
         Lus[n] \notin Separateurs, Lus'[n] \notin Separateurs,
         Lus[x] \notin Separateurs, Lus'[x] \in Separateurs,
         \A k \in Rangs : k # n /\ k # x => Lus'[k] = Lus[k]
  PROVE  Cardinality(SepLus') = Cardinality(SepLus) + 1
<1> PICK y : y = x + 1
  OBVIOUS
<1>0. sizelgcmd \in Nat
  BY ChaineAssumption
<1>1. \A k \in 1 .. sizelgcmd : k - 1 \in Rangs /\ (k # y => k - 1 # x)
  BY <1>0 DEF Rangs
<1>1a. y \in 1 .. sizelgcmd /\ y - 1 = x
  BY <1>0 DEF Rangs
<1>2. \A k \in Rangs : k # x => (Lus'[k] \in Separateurs <=> Lus[k] \in Separateurs)
  BY Zenon
<1>3. SepLus' = {k \in 1 .. sizelgcmd : Lus'[k - 1] \in Separateurs}
  BY DEF SepLus, Separateurs
<1>4. SepLus' = SepLus \cup {y} /\ y \notin SepLus
  BY <1>1, <1>1a, <1>2, <1>3 DEF SepLus
<1>5. IsFiniteSet(SepLus)
  <2>1. IsFiniteSet(1 .. sizelgcmd) /\ SepLus \subseteq 1 .. sizelgcmd
    BY <1>0, FS_Interval DEF SepLus
  <2> QED
    BY <2>1, FS_Subset
<1> QED
  BY <1>4, <1>5, FS_AddElement

\* What the cursor jumps over with a separator at p.
Neutre(p) == commande[p] \in Signes \cup Blancs
Separation(p) ==
    /\ p \in SignesEn /\ j' = 0 /\ i' \in {p, p + 1, p + 2}
    /\ i' >= p + 1 => Muette(p + 1) /\ Neutre(p + 1)
    /\ i' >= p + 2 => Muette(p + 2) /\ Neutre(p + 2)

LEMMA BlancMuet ==
  \A p : commande[p] \in Blancs => Muette(p) /\ Neutre(p)
<1>1. \A c : c \in Blancs => c \notin Signes
  BY DEF Blancs, Signes
<1> QED
  BY <1>1, CoupesPlaces, Zenon DEF Muette, Neutre

LEMMA SeparationCouper ==
  ASSUME Bornes, Curseur, Couper, NEW p, p = i + 1
  PROVE  Separation(p) /\ p \in Points /\ p \notin Coupes
<1>0. /\ i < Len(commande) /\ commande[i + 1] = ";"
      /\ i' = i + 1 \/ (i' = i + 2 /\ commande[i + 2] \in Blancs)
  BY CouperPas, Zenon
<1>0a. i' = i + 1 \/ i' = i + 2
  BY <1>0, Zenon
<1>0b. i < Len(commande)
  BY <1>0, Zenon
<1>1. p \in 1 .. Len(commande) /\ p \in Nat /\ i' \in {p, p + 1, p + 2} /\ ~(i' >= p + 2)
  BY <1>0a, <1>0b, DansLigne
<1>2. i' >= p + 1 => Muette(p + 1) /\ Neutre(p + 1)
  <2> SUFFICES ASSUME i' >= p + 1 PROVE Muette(p + 1) /\ Neutre(p + 1)
    OBVIOUS
  <2>1. i' # i + 1 /\ p + 1 = i + 2
    BY <1>1, DansLigne
  <2>2. commande[p + 1] \in Blancs
    BY <1>0, <2>1, Zenon
  <2> QED
    BY <2>2, BlancMuet
<1>3. commande[p] = ";"
  BY <1>0, Zenon
<1>4. p \in SignesEn
  <2>1. commande[p] \in {"|", "&", ";"}
    BY <1>3
  <2> QED
    BY <1>1, <2>1, SigneEst, Zenon DEF Bornes
<1>5. p \in Points
  BY <1>3, <1>4 DEF Points
<1>6. p \notin Coupes
  <2>1. p \notin Tubes
    BY <1>3 DEF Tubes
  <2>2. p \notin Paires
    BY <1>3 DEF Paires, Paire
  <2> QED
    BY <2>1, <2>2 DEF Coupes
<1>7. j' = 0
  BY DEF Couper
<1> QED
  BY <1>1, <1>2, <1>4, <1>5, <1>6, <1>7 DEF Separation

LEMMA SeparationDouble ==
  ASSUME Bornes, Curseur, Ordinaire, CouperDouble, NEW p, p = i + 1
  PROVE  Separation(p) /\ p \in Coupes /\ p \notin Points
<1>0. /\ commande[i + 1] \in {"|", "&"} /\ commande[i + 2] = commande[i + 1]
      /\ i' = i + 2 \/ (i' = i + 3 /\ commande[i + 3] \in Blancs)
  BY DoublePas, Zenon
<1>0a. i' = i + 2 \/ i' = i + 3
  BY <1>0, Zenon
<1>1. /\ p \in Nat /\ i' \in {p, p + 1, p + 2} /\ p + 1 = i + 2 /\ p + 2 = i + 3
      /\ i + 2 # i + 3 /\ ~(i + 2 >= p + 2)
  BY <1>0a, DansLigne
<1>2. Muette(p + 1) /\ Neutre(p + 1)
  <2>1. i + 2 \notin Paires \cup Tubes \cup Points
    BY DoubleSeul
  <2>2. Muette(p + 1)
    BY <1>1, <2>1 DEF Muette, Coupes
  <2>3. commande[p + 1] \in {"|", "&"}
    <3>1. \A c, d : c \in {"|", "&"} => (d = c => d \in {"|", "&"})
      OBVIOUS
    <3> QED
      BY <1>0, <1>1, <3>1, Zenon
  <2>4. Neutre(p + 1)
    BY <2>3 DEF Neutre, Signes
  <2> QED
    BY <2>2, <2>4
<1>3. i' >= p + 2 => Muette(p + 2) /\ Neutre(p + 2)
  <2> SUFFICES ASSUME i' >= p + 2 PROVE Muette(p + 2) /\ Neutre(p + 2)
    OBVIOUS
  <2>1. i' # i + 2
    BY <1>1
  <2>2. commande[p + 2] \in Blancs
    BY <1>0, <1>1, <2>1, Zenon
  <2> QED
    BY <2>2, BlancMuet
<1>4. p \in Paires
  BY DoubleSeul
<1>5. p \in SignesEn /\ p \in Coupes
  BY <1>4 DEF Paires, Coupes
<1>6. p \notin Points
  <2>1. commande[p] # ";"
    BY <1>4 DEF Paires, Paire
  <2> QED
    BY <2>1 DEF Points
<1>7. j' = 0
  BY DEF CouperDouble
<1> QED
  BY <1>1, <1>2, <1>3, <1>5, <1>6, <1>7 DEF Separation

LEMMA SeparationTube ==
  ASSUME Bornes, Curseur, Ordinaire, Aere, HorsPaire, CouperTube, NEW p, p = i + 1
  PROVE  Separation(p) /\ p \in Coupes /\ p \notin Points
<1>0. i' = i + 2 \/ (i' = i + 3 /\ commande[i + 3] \in Blancs)
  BY TubePas, Zenon
<1>0a. i' = i + 2 \/ i' = i + 3
  BY <1>0, Zenon
<1>1. /\ p \in Nat /\ i' \in {p, p + 1, p + 2} /\ p + 1 = i + 2 /\ p + 2 = i + 3
      /\ i + 2 # i + 3 /\ ~(i + 2 >= p + 2)
  BY <1>0a, DansLigne
<1>1a. commande[i + 2] = " " /\ i + 1 \in Tubes
  BY TubeAere, Zenon
<1>2. Muette(p + 1) /\ Neutre(p + 1)
  <2>1. commande[p + 1] = " "
    BY <1>1, <1>1a, Zenon
  <2>2. commande[p + 1] \in Blancs
    BY <2>1 DEF Blancs
  <2> QED
    BY <2>2, BlancMuet
<1>3. i' >= p + 2 => Muette(p + 2) /\ Neutre(p + 2)
  <2> SUFFICES ASSUME i' >= p + 2 PROVE Muette(p + 2) /\ Neutre(p + 2)
    OBVIOUS
  <2>1. i' # i + 2
    BY <1>1
  <2>2. commande[p + 2] \in Blancs
    BY <1>0, <1>1, <2>1, Zenon
  <2> QED
    BY <2>2, BlancMuet
<1>5. p \in SignesEn /\ p \in Coupes /\ commande[p] = "|"
  BY <1>1a DEF Tubes, Coupes
<1>6. p \notin Points
  BY <1>5 DEF Points
<1>7. j' = 0
  BY DEF CouperTube
<1> QED
  BY <1>1, <1>2, <1>3, <1>5, <1>6, <1>7 DEF Separation

LEMMA TeteNouvelle ==
  ASSUME Bornes, Bornes', commande' = commande, NEW p, Separation(p)
  PROVE  Tete'
<1>1. /\ p \in Nat /\ i' \in {p, p + 1, p + 2} /\ j' = 0 /\ p \in SignesEn
      /\ i' >= p + 1 => Neutre(p + 1)
      /\ i' >= p + 2 => Neutre(p + 2)
  BY DansLigne DEF Separation, SignesEn, Places
<1>2. \A m \in p + 1 .. (i' + 1) - 1 : commande[m] \in Signes \cup Blancs
  <2> TAKE m \in p + 1 .. (i' + 1) - 1
  <2>1. \/ m = p + 1 /\ i' >= p + 1
        \/ m = p + 2 /\ i' >= p + 2
    <3> PICK e : e = i'
      OBVIOUS
    <3>1. p \in Nat /\ (e = p \/ e = p + 1 \/ e = p + 2)
      BY <1>1
    <3>2. m \in Int /\ p + 1 <= m /\ m <= e
      BY <3>1
    <3> QED
      BY <3>1, <3>2
  <2> QED
    BY <1>1, <2>1, Zenon DEF Neutre
<1>3. Vide(p, i + 1)'
  <2>1. \A m \in p + 1 .. (i' + 1) - 1 : commande'[m] \in Signes \cup Blancs
    BY <1>2
  <2> QED
    BY <2>1 DEF Vide, Signes, Blancs
<1>4. SignesEn' = SignesEn
  BY DEF SignesEn, Places, Signes
<1>5. p <= i' /\ ~(j' > 0)
  BY <1>1
<1> QED
  BY <1>1, <1>3, <1>4, <1>5 DEF Tete

\* A character is read that is no separator.
LEMMA TeteSuite ==
  ASSUME Bornes, commande' = commande, i' = i + 1, j' = j, Courant' = Courant, Tete,
         Neutre(i + 1)
  PROVE  Tete'
<1>0. i \in Nat /\ j \in Nat
  BY DansLigne
<1>1. CASE j # 0
  BY <1>0, <1>1 DEF Tete, Signes
<1>2. CASE j = 0
  <2>1. PICK d \in SignesEn \cup {0} : d <= i /\ Vide(d, i + 1)
    BY <1>2 DEF Tete
  <2>2. d \in Nat
    BY DansLigne DEF SignesEn, Places
  <2>3. \A m \in d + 1 .. (i' + 1) - 1 : commande'[m] \in Signes \cup Blancs
    <3> TAKE m \in d + 1 .. (i' + 1) - 1
    <3>1. m = i + 1 \/ m \in d + 1 .. (i + 1) - 1
      BY <1>0, <2>2
    <3> QED
      BY <2>1, <3>1 DEF Vide, Neutre
  <2>4. Vide(d, i + 1)'
    BY <2>3 DEF Vide, Signes, Blancs
  <2>5. SignesEn' = SignesEn
    BY DEF SignesEn, Places, Signes
  <2>6. d <= i'
    BY <1>0, <2>1, <2>2
  <2> QED
    BY <1>2, <2>4, <2>5, <2>6 DEF Tete
<1> QED
  BY <1>1, <1>2

\* The first character of a word.
LEMMA TeteLettre ==
  ASSUME Bornes, Ordinaire, HorsPaire, Tete, j = 0, i < Len(commande), i + 1 \notin Paires
  PROVE  commande[i + 1] \notin Signes
<1> PICK p : p = i + 1
  OBVIOUS
<1>0. i \in Nat /\ p \in Nat /\ p \in 1 .. Len(commande) /\ Ligne
  BY DansLigne DEF Bornes
<1> SUFFICES ASSUME commande[p] \in Signes PROVE FALSE
  OBVIOUS
<1>1. p \in SignesEn
  BY <1>0 DEF SignesEn, Places
<1>2. PICK d \in SignesEn \cup {0} : d <= i /\ Vide(d, p)
  BY DEF Tete
<1>3. CASE d = 0
  BY <1>1, <1>2, <1>3 DEF Ordinaire
<1>4. CASE d \in SignesEn
  <2>1. d \in Nat /\ d < p
    BY <1>0, <1>2, <1>4 DEF SignesEn, Places
  <2>2. p = d + 1 /\ d \in Paires
    BY <1>0, <1>1, <1>2, <1>4, <2>1, SignesProches DEF Vide
  <2>3. d = i
    BY <1>0, <2>1, <2>2
  <2> QED
    BY <2>2, <2>3 DEF HorsPaire
<1> QED
  BY <1>2, <1>3, <1>4

LEMMA TetePas ==
  ASSUME Bornes, Curseur, Ordinaire, Aere, HorsPaire, Tete, Next
  PROVE  Tete'
<1>0. commande' = commande /\ Bornes' /\ i \in Nat /\ j \in Nat
  BY LigneFixe, PasEtat, DansLigne
<1>1. CASE PasserRetourLigne
  <2>1. i' = i + 1 /\ j' = j /\ Courant' = Courant
    BY <1>1 DEF PasserRetourLigne, Courant
  <2>2. Neutre(i + 1)
    <3>1. commande[i + 1] = "\n"
      BY <1>1, RetourPas, Zenon
    <3>2. commande[i + 1] \in Blancs
      BY <3>1 DEF Blancs
    <3> QED
      BY <3>2, BlancMuet
  <2> QED
    BY <1>0, <2>1, <2>2, TeteSuite
<1>2. CASE Couper \/ CouperDouble \/ CouperTube
  <2> PICK p : p = i + 1
    OBVIOUS
  <2>1. Separation(p)
    BY <1>2, SeparationCouper, SeparationDouble, SeparationTube
  <2> QED
    BY <1>0, <2>1, TeteNouvelle
<1>3. CASE Rediriger
  <2> PICK d : d = Direction
    OBVIOUS
  <2>1. Courant' = Courant \o d /\ Suit(Direction)
    BY <1>3, RedirigerPas, Zenon DEF Rediriger
  <2>2. j' = j + 3
    BY <1>3 DEF Rediriger
  <2>3. d \in Seq(Caracteres) /\ Len(d) = 3
    BY <2>1, DirectionEst, Zenon
  <2>4. d[1] \notin Signes
    <3>1. d[1] = " "
      BY DEF Direction
    <3> QED
      BY <3>1 DEF Signes
  <2>5. Courant \in Seq(Caracteres) /\ Len(Courant) = j
    BY DEF Curseur
  <2>6. Courant'[1] = IF 1 <= j THEN Courant[1] ELSE d[1 - j]
    <3>1. 1 \in 1 .. Len(Courant) + Len(d)
      BY <1>0, <2>3, <2>5
    <3>2. (Courant \o d)[1] = IF 1 <= Len(Courant) THEN Courant[1] ELSE d[1 - Len(Courant)]
      BY <2>3, <2>5, <3>1, ConcatProperties
    <3> QED
      BY <2>1, <2>5, <3>2, Zenon
  <2>7. Courant'[1] \notin Signes
    <3>1. CASE j = 0
      <4>1. ~(1 <= j) /\ 1 - j = 1
        BY <3>1
      <4>2. Courant'[1] = d[1]
        BY <2>6, <4>1
      <4> QED
        BY <2>4, <4>2, Zenon
    <3>2. CASE j # 0
      <4>1. 1 <= j /\ j > 0
        BY <1>0, <3>2
      <4> QED
        BY <2>6, <4>1, Zenon DEF Tete
    <3> QED
      BY <3>1, <3>2
  <2>8. j' # 0
    BY <1>0, <2>2
  <2> QED
    BY <2>7, <2>8 DEF Tete, Signes
<1>4. CASE Copier
  <2>1. i' = i + 1 /\ i < Len(commande)
    BY <1>4, CopierPas, Zenon
  <2>2. CASE Passe
    <3>1. j' = j /\ Courant' = Courant
      BY <2>2 DEF Passe, Courant
    <3>2. Neutre(i + 1)
      BY <1>4, <2>2, PasseBlanc, BlancMuet
    <3> QED
      BY <1>0, <2>1, <3>1, <3>2, TeteSuite
  <2>3. CASE Ecrit
    <3> PICK c : c = commande[i + 1]
      OBVIOUS
    <3>1. Courant' = Append(Courant, c) /\ j' = Len(Append(Courant, c))
      BY <2>3 DEF Ecrit, Grandit
    <3>2. Courant \in Seq(Caracteres) /\ Len(Courant) = j /\ c \in Caracteres
      BY <2>1, DansLigne DEF Curseur
    <3>3. j' = j + 1
      BY <3>1, <3>2, AppendProperties
    <3>4. Courant'[1] \notin Signes
      <4>1. CASE j = 0
        <5>1. Courant'[1] = c
          BY <3>1, <3>2, <4>1, AppendProperties
        <5>2. i + 1 \notin Paires
          BY <1>4, CopierSeul
        <5>3. c \notin Signes
          BY <2>1, <4>1, <5>2, TeteLettre
        <5> QED
          BY <5>1, <5>3, Zenon
      <4>2. CASE j # 0
        <5>1. j > 0 /\ 1 \in 1 .. Len(Courant)
          BY <1>0, <3>2, <4>2
        <5>2. Courant'[1] = Courant[1]
          BY <3>1, <3>2, <5>1, AppendProperties
        <5> QED
          BY <5>1, <5>2, Zenon DEF Tete
      <4> QED
        BY <4>1, <4>2
    <3>5. j' # 0
      BY <1>0, <3>3
    <3> QED
      BY <3>4, <3>5 DEF Tete, Signes
  <2> QED
    BY <1>4, <2>2, <2>3, CopierPas, Zenon
<1>5. CASE Finir \/ UNCHANGED vars
  <2>1. i' = i /\ j' = j /\ Courant' = Courant
    BY <1>5 DEF Finir, vars, Courant
  <2>2. SignesEn' = SignesEn /\ \A d : Vide(d, i + 1)' <=> Vide(d, i + 1)
    BY <1>0, <2>1 DEF SignesEn, Places, Signes, Vide
  <2> QED
    BY <2>1, <2>2 DEF Tete, Signes
<1> QED
  BY <1>1, <1>2, <1>3, <1>4, <1>5 DEF Next, Etape

\* The words that separate change with the separators only.
LEMMA MotsMemes ==
  ASSUME Bornes, Curseur, Tete, Tete',
         PasserRetourLigne \/ Couper \/ Rediriger \/ Copier \/ Finir \/ UNCHANGED vars
  PROVE  SepLus' = SepLus
<1>1. ASSUME commandeSansEspaces' = commandeSansEspaces PROVE SepLus' = SepLus
  BY <1>1 DEF SepLus, Lus, Separateurs
<1>2. CASE PasserRetourLigne \/ Couper \/ Finir \/ UNCHANGED vars
  BY <1>1, <1>2 DEF PasserRetourLigne, Couper, Finir, vars
<1>3. ASSUME NEW mot \in Seq(Caracteres), Grandit(mot), Courant' = mot, j' # 0
      PROVE  SepLus' = SepLus
  <2>1. indexCommandes \in Rangs /\ Lus[indexCommandes] \notin Separateurs
    BY LusEst, TeteMot
  <2>2. Lus'[indexCommandes] = mot
        /\ \A k \in Rangs : k # indexCommandes => Lus'[k] = Lus[k]
    BY <1>3, LusGrandit
  <2>3. j' > 0
    <3>1. j' = Len(mot) /\ Len(mot) \in Nat
      BY <1>3, LenProperties DEF Grandit
    <3> QED
      BY <1>3, <3>1
  <2>4. mot[1] \notin Signes
    BY <1>3, <2>3 DEF Tete, Signes
  <2>5. Lus'[indexCommandes] \notin Separateurs
    BY <2>2, <2>4, PasSeparateur
  <2> QED
    BY <2>1, <2>2, <2>5, SepLusMeme
<1>4. CASE Rediriger
  <2> DEFINE mot == Courant \o Direction
  <2>1. Grandit(mot) /\ Courant' = mot /\ Suit(Direction)
    BY <1>4, RedirigerPas, Zenon DEF Rediriger
  <2>2. mot \in Seq(Caracteres)
    <3>1. Direction \in Seq(Caracteres) /\ Courant \in Seq(Caracteres)
      BY <2>1, DirectionEst, Zenon DEF Curseur
    <3>2. \A a, b \in Seq(Caracteres) : a \o b \in Seq(Caracteres)
      BY ConcatProperties
    <3> QED
      BY <3>1, <3>2, Zenon
  <2>3. j' # 0
    BY <1>4, DansLigne DEF Rediriger
  <2> HIDE DEF mot
  <2> QED
    BY <1>3, <2>1, <2>2, <2>3
<1>5. CASE Copier
  <2>1. CASE Passe
    BY <1>1, <2>1 DEF Passe
  <2>2. CASE Ecrit
    <3> DEFINE mot == Append(Courant, commande[i + 1])
    <3>1. i < Len(commande)
      BY <1>5, CopierPas, Zenon
    <3>2. Grandit(mot) /\ Courant' = mot
      BY <2>2 DEF Ecrit
    <3>3. Courant \in Seq(Caracteres) /\ commande[i + 1] \in Caracteres
      BY <3>1, DansLigne DEF Curseur
    <3>4. mot \in Seq(Caracteres) /\ Len(mot) # 0
      BY <3>3, AppendProperties, LenProperties
    <3>5. j' # 0
      BY <3>2, <3>4 DEF Grandit
    <3> HIDE DEF mot
    <3> QED
      BY <1>3, <3>2, <3>4, <3>5
  <2> QED
    BY <1>5, <2>1, <2>2, CopierPas, Zenon
<1> QED
  BY <1>2, <1>4, <1>5

LEMMA MotsPlus ==
  ASSUME Bornes, Curseur, Tete, CouperDouble \/ CouperTube
  PROVE  Cardinality(SepLus') = Cardinality(SepLus) + 1
<1> PICK n : n = indexCommandes
  OBVIOUS
<1> PICK x : x = n + 1
  OBVIOUS
<1>0. n \in Rangs /\ Lus[n] = Courant /\ Lus[n] \notin Separateurs /\ n \in Nat /\ x # n
  BY LusEst, TeteMot, DansLigne
<1>1. <<>> \notin Separateurs
  BY PasSeparateur
<1>2. CASE CouperDouble
  <2> PICK s : s = <<commande[i + 1], commande[i + 2]>>
    OBVIOUS
  <2>1. /\ x \in Rangs /\ Lus'[x] = s /\ Lus[x] = <<>>
        /\ \A k \in Rangs : k # x => Lus'[k] = Lus[k]
    BY <1>2, LusDouble
  <2>2. s \in Separateurs
    <3>1. commande[i + 1] \in {"|", "&"} /\ commande[i + 2] = commande[i + 1]
      BY <1>2, DoublePas, Zenon
    <3>2. \A c \in {"|", "&"} : <<c, c>> \in Doubles
      BY DEF Doubles
    <3>3. s \in Doubles
      BY <3>1, <3>2, Zenon
    <3> QED
      BY <3>3 DEF Separateurs
  <2>3. Lus'[n] \notin Separateurs
    BY <1>0, <2>1
  <2> QED
    BY <1>0, <1>1, <2>1, <2>2, <2>3, SepLusPlus
<1>3. CASE CouperTube
  <2>1. /\ x \in Rangs /\ Lus'[x] = Tube
        /\ Lus'[n] = Courant \/ (i > 0 /\ j = i /\ Lus'[n] = SubSeq(Courant, 1, i - 1))
        /\ \A k \in Rangs : k # n /\ k # x => Lus'[k] = Lus[k]
    BY <1>3, LusTube, Zenon
  <2>2. Tube \in Separateurs
    BY DEF Separateurs
  <2>3. Lus[x] = <<>>
    <3>1. x > indexCommandes
      BY <1>0
    <3> QED
      BY <2>1, <3>1, LusEst
  <2>4. Lus'[n] \notin Separateurs
    <3>1. CASE Lus'[n] = Courant
      BY <1>0, <3>1
    <3>2. CASE i > 0 /\ j = i /\ Lus'[n] = SubSeq(Courant, 1, i - 1)
      <4>0. i \in Nat /\ Courant \in Seq(Caracteres) /\ Len(Courant) = i
        BY <3>2, DansLigne DEF Curseur
      <4>1. CASE i = 1
        <5>1. i - 1 = 0
          BY <4>1
        <5>2. SubSeq(Courant, 1, 0) = <<>>
          BY SubSeqEmpty
        <5> QED
          BY <1>1, <3>2, <5>1, <5>2, Zenon
      <4>2. CASE i # 1
        <5>1. SubSeq(Courant, 1, i - 1)[1] = Courant[1]
          <6>1. 1 \in 1 .. Len(Courant) /\ i - 1 \in 1 .. Len(Courant)
            BY <3>2, <4>0, <4>2
          <6> QED
            BY <4>0, <6>1, SubSeqProperties
        <5>2. j > 0
          BY <3>2
        <5>3. Courant[1] \notin Signes
          BY <5>2 DEF Tete
        <5> QED
          BY <3>2, <5>1, <5>3, PasSeparateur, Zenon
      <4> QED
        BY <4>1, <4>2
    <3> QED
      BY <2>1, <3>1, <3>2
  <2> QED
    BY <1>0, <1>1, <2>1, <2>2, <2>3, <2>4, SepLusPlus
<1> QED
  BY <1>2, <1>3

LEMMA ComptePas ==
  ASSUME Bornes, Curseur, Ordinaire, Aere, HorsPaire, Tete, Tete', Compte, Next
  PROVE  Compte'
<1> PICK p : p = i + 1
  OBVIOUS
<1>0. /\ Points' = Points /\ Coupes' = Coupes /\ i \in Nat
      /\ indexCommandes = Jusqua(Points, i) + 2 * Jusqua(Coupes, i)
      /\ Cardinality(SepLus) = Jusqua(Coupes, i)
  BY LigneFixe, LigneInchangee, DansLigne DEF Coupes, Compte
<1>1. Compte' <=> /\ indexCommandes' = Jusqua(Points, i') + 2 * Jusqua(Coupes, i')
                  /\ Cardinality(SepLus') = Jusqua(Coupes, i')
  BY <1>0, Zenon DEF Compte, Jusqua
<1>2. CASE Couper
  <2>1. Separation(p) /\ p \in Points /\ p \notin Coupes
    BY <1>2, SeparationCouper
  <2>2. /\ Jusqua(Points, i) \in Nat /\ Jusqua(Coupes, i) \in Nat
        /\ Jusqua(Points, i') = Jusqua(Points, i) + 1
        /\ Jusqua(Coupes, i') = Jusqua(Coupes, i)
    BY <2>1, JusquaUn DEF Separation
  <2>3. indexCommandes' = indexCommandes + 1
    BY <1>2 DEF Couper
  <2>4. SepLus' = SepLus
    BY <1>2, MotsMemes
  <2> QED
    BY <1>0, <1>1, <2>2, <2>3, <2>4
<1>3. CASE CouperDouble \/ CouperTube
  <2>1. Separation(p) /\ p \in Coupes /\ p \notin Points
    BY <1>3, SeparationDouble, SeparationTube
  <2>2. /\ Jusqua(Points, i) \in Nat /\ Jusqua(Coupes, i) \in Nat
        /\ Jusqua(Points, i') = Jusqua(Points, i)
        /\ Jusqua(Coupes, i') = Jusqua(Coupes, i) + 1
    BY <2>1, JusquaUn DEF Separation
  <2>3. indexCommandes' = indexCommandes + 2
    BY <1>3 DEF CouperDouble, CouperTube
  <2>4. Cardinality(SepLus') = Cardinality(SepLus) + 1
    BY <1>3, MotsPlus
  <2> QED
    BY <1>0, <1>1, <2>2, <2>3, <2>4
<1>4. CASE PasserRetourLigne \/ Rediriger \/ Copier
  <2>1. Muette(p) /\ i' \in {p, p + 2} /\ (i' = p + 2 => Muette(p + 1) /\ Muette(p + 2))
    <3>1. CASE PasserRetourLigne
      <4>1. i' = p /\ commande[p] = "\n"
        BY <3>1, RetourPas, Zenon
      <4>2. i' # p + 2
        BY <1>0, <4>1
      <4>3. commande[p] \in Blancs
        BY <4>1 DEF Blancs
      <4> QED
        BY <4>1, <4>2, <4>3, BlancMuet
    <3>2. CASE Rediriger
      <4>1. i' = i + 3
            /\ commande[i + 1] = " " /\ commande[i + 2] = ">" /\ commande[i + 3] = " "
        BY <3>2, RedirigerPas, Zenon
      <4>2. i' = p + 2 /\ i + 2 = p + 1 /\ i + 3 = p + 2
        <5>1. i' = i + 3
          BY <4>1, Zenon
        <5> QED
          BY <1>0, <5>1
      <4>3. commande[p] \in Blancs /\ commande[p + 2] \in Blancs
        <5>1. " " \in Blancs
          BY DEF Blancs
        <5> QED
          BY <4>1, <4>2, <5>1, Zenon
      <4>4. commande[p + 1] \notin Signes
        <5>1. ">" \notin Signes
          BY DEF Signes
        <5> QED
          BY <4>1, <4>2, <5>1, Zenon
      <4>5. Muette(p + 1)
        BY <4>4, CoupesPlaces, Zenon DEF Muette
      <4> QED
        BY <4>2, <4>3, <4>5, BlancMuet
    <3>3. CASE Copier
      <4>1. i' = p
        BY <3>3, CopierPas, Zenon
      <4>2. p \notin Paires \cup Tubes \cup Points
        BY <3>3, CopierSeul
      <4>3. i' # p + 2
        BY <1>0, <4>1
      <4> QED
        BY <4>1, <4>2, <4>3 DEF Muette, Coupes
    <3> QED
      BY <1>4, <3>1, <3>2, <3>3
  <2>2. /\ Jusqua(Points, i') = Jusqua(Points, i)
        /\ Jusqua(Coupes, i') = Jusqua(Coupes, i)
    <3>1. i' >= p + 1 => i' = p + 2
      BY <1>0, <2>1
    <3>2. /\ Jusqua(Points, i) \in Nat /\ Jusqua(Coupes, i) \in Nat
          /\ Jusqua(Points, i') = Jusqua(Points, i) + (IF p \in Points THEN 1 ELSE 0)
          /\ Jusqua(Coupes, i') = Jusqua(Coupes, i) + (IF p \in Coupes THEN 1 ELSE 0)
      <4>1. i' >= p + 2 => i' = p + 2
        BY <1>0, <2>1
      <4> QED
        BY <2>1, <3>1, <4>1, JusquaUn
    <3> QED
      BY <2>1, <3>2 DEF Muette
  <2>3. indexCommandes' = indexCommandes
    BY <1>4 DEF PasserRetourLigne, Rediriger, Copier
  <2>4. SepLus' = SepLus
    BY <1>4, MotsMemes
  <2> QED
    BY <1>0, <1>1, <2>2, <2>3, <2>4
<1>5. CASE Finir \/ UNCHANGED vars
  <2>1. i' = i /\ indexCommandes' = indexCommandes
    BY <1>5 DEF Finir, vars
  <2>2. SepLus' = SepLus
    BY <1>5, MotsMemes
  <2> QED
    BY <1>0, <1>1, <2>1, <2>2
<1> QED
  BY <1>2, <1>3, <1>4, <1>5 DEF Next, Etape

Coupee == Ordinaire /\ Aere => Tete /\ Compte

LEMMA CoupeeInit == Init => Coupee
<1> SUFFICES ASSUME Init PROVE Tete /\ Compte
  BY DEF Coupee
<1>1. Bornes /\ Curseur
  BY InitEtat
<1>2. i = 0 /\ j = 0 /\ indexCommandes = 0
      /\ commandeSansEspaces = [k \in Rangs |-> <<>>]
  BY DEF Init
<1>3. Tete
  <2>1. \A m \in 0 + 1 .. (i + 1) - 1 : FALSE
    BY <1>2
  <2>2. Vide(0, i + 1)
    BY <2>1 DEF Vide
  <2> QED
    BY <1>2, <2>2 DEF Tete
<1>4. Jusqua(Points, 0) = 0 /\ Jusqua(Coupes, 0) = 0
  <2>1. \A q \in Places : ~(q <= 0)
    BY <1>1, DansLigne DEF Places
  <2>2. {q \in Points : q <= 0} = {} /\ {q \in Coupes : q <= 0} = {}
    BY <2>1, CoupesPlaces
  <2> QED
    BY <2>2, FS_EmptySet DEF Jusqua
<1>5. Cardinality(SepLus) = 0
  <2>1. \A k \in 1 .. sizelgcmd : k - 1 \in Rangs
    BY ChaineAssumption DEF Rangs
  <2>2. \A k \in Rangs : Lus[k] = <<>>
    <3>1. Chaine(<<>>) = <<>>
      BY EmptySeq, ChaineEntiere
    <3> QED
      BY <1>1, <1>2, <3>1, LusEst
  <2>3. <<>> \notin Separateurs
    BY PasSeparateur
  <2>4. SepLus = {}
    BY <2>1, <2>2, <2>3 DEF SepLus
  <2> QED
    BY <2>4, FS_EmptySet
<1> QED
  BY <1>2, <1>3, <1>4, <1>5 DEF Compte

LEMMA CoupeePas == Bornes /\ Curseur /\ Aucune /\ Coupee /\ [Next]_vars => Coupee'
<1> SUFFICES ASSUME Bornes, Curseur, Aucune, Coupee, [Next]_vars PROVE Coupee'
  OBVIOUS
<1>1. CASE Next
  <2>1. commande' = commande
    BY <1>1, LigneFixe
  <2>2. Ordinaire' = Ordinaire /\ Aere' = Aere
    BY <2>1, LigneInchangee
  <2> SUFFICES ASSUME Ordinaire, Aere PROVE Tete' /\ Compte'
    BY <2>2 DEF Coupee
  <2>3. HorsPaire /\ Tete /\ Compte
    BY DEF Aucune, Coupee
  <2>4. Tete'
    BY <1>1, <2>3, TetePas
  <2> QED
    BY <1>1, <2>3, <2>4, ComptePas
<1>2. CASE UNCHANGED vars
  <2>1. /\ commande' = commande /\ i' = i /\ j' = j /\ indexCommandes' = indexCommandes
        /\ Lus' = Lus /\ Courant' = Courant
    BY <1>2 DEF vars, Lus, Courant
  <2>2. /\ Ordinaire' = Ordinaire /\ Aere' = Aere /\ Points' = Points /\ Coupes' = Coupes
        /\ SignesEn' = SignesEn /\ \A d : Vide(d, i + 1)' <=> Vide(d, i + 1)
    BY <2>1, LigneInchangee DEF Coupes, SignesEn, Places, Signes, Vide
  <2>3. SepLus' = SepLus
    BY <2>1 DEF SepLus, Separateurs
  <2>4. Tete => Tete'
    BY <2>1, <2>2 DEF Tete, Signes
  <2>5. Compte => Compte'
    BY <2>1, <2>2, <2>3 DEF Compte, Jusqua
  <2> QED
    BY <2>2, <2>4, <2>5 DEF Coupee
<1> QED
  BY <1>1, <1>2

LEMMA DecoupeEst == Bornes /\ Curseur /\ Coupee => Decoupe
<1> SUFFICES ASSUME Bornes, Curseur, Coupee, Fini, Ordinaire, Aere
             PROVE  /\ nbCommandes = 1 + Cardinality(Points)
                                       + 2 * Cardinality(Tubes \cup Paires)
                    /\ Cardinality({k \in 1 .. nbCommandes :
                                        Mots[k] \in Doubles \cup {Tube}})
                           = Cardinality(Tubes \cup Paires)
  BY DEF Decoupe
<1>1. /\ nbCommandes = indexCommandes + 1 /\ i = Len(commande)
      /\ nbCommandes \in Nat /\ nbCommandes <= sizelgcmd /\ sizelgcmd \in Nat
      /\ indexCommandes \in Nat
  BY DansLigne DEF Bornes, Rangs
<1>2. Jusqua(Points, i) = Cardinality(Points) /\ Jusqua(Coupes, i) = Cardinality(Coupes)
  <2>1. \A q \in Places : q <= i
    BY <1>1, DansLigne DEF Places
  <2>2. {q \in Points : q <= i} = Points /\ {q \in Coupes : q <= i} = Coupes
    BY <2>1, CoupesPlaces
  <2> QED
    BY <2>2 DEF Jusqua
<1>3. Compte
  BY DEF Coupee
<1>4. Jusqua(Points, i) \in Nat /\ Jusqua(Coupes, i) \in Nat
  BY DansLigne, CoupesPlaces, JusquaSuivant
<1>5. nbCommandes = 1 + Cardinality(Points) + 2 * Cardinality(Coupes)
  BY <1>1, <1>2, <1>3, <1>4 DEF Compte
<1>6. {k \in 1 .. nbCommandes : Mots[k] \in Separateurs} = SepLus
  <2>1. \A k \in 1 .. nbCommandes : k \in 1 .. sizelgcmd /\ k - 1 \in Rangs
    BY <1>1 DEF Rangs
  <2>2. \A k \in 1 .. nbCommandes : Mots[k] = Lus[k - 1]
    BY <2>1, LusEst DEF Mots
  <2>3. \A k \in 1 .. sizelgcmd : k \notin 1 .. nbCommandes =>
            k - 1 \in Rangs /\ k - 1 > indexCommandes
    BY <1>1 DEF Rangs
  <2>4. \A k \in 1 .. sizelgcmd : k \notin 1 .. nbCommandes => Lus[k - 1] \notin Separateurs
    BY <2>3, LusEst, PasSeparateur
  <2> QED
    BY <2>1, <2>2, <2>4 DEF SepLus
<1> QED
  BY <1>2, <1>3, <1>5, <1>6 DEF Compte, Separateurs, Coupes

(* An ordinary line is cut at its separators and nowhere else: one command *)
(* for each ; and one on each side of &&, || and |, which are words of     *)
(* their own, and no word of a command can be taken for one of them.       *)
THEOREM BienDecoupee == Spec => []Decoupe
<1>1. Init => Bornes /\ Curseur /\ Aucune /\ Coupee
  BY InitEtat, AucuneInit, CoupeeInit
<1>2. Bornes /\ Curseur /\ Aucune /\ Coupee /\ [Next]_vars
      => (Bornes /\ Curseur /\ Aucune /\ Coupee)'
  BY PasEtat, AucunePas, CoupeePas
<1>3. Bornes /\ Curseur /\ Coupee => Decoupe
  BY DecoupeEst
<1> QED
  BY <1>1, <1>2, <1>3, PTL DEF Spec

-----------------------------------------------------------------------------
(* Arguments: a line without |, whose commands have one at most.           *)
Simple == Ordinaire /\ Serree /\ Detachees /\ Tubes = {} /\ UnArgument

\* The cursor is on no side of an operator of redirection.
HorsDirection == /\ i + 1 \in Places => commande[i + 1] # ">"
                 /\ i \in Places => commande[i] # ">"

\* The blank that was counted is the one before the argument.
Separateur == Points \cup Paires \cup Tubes
Espaces == nbEspace > 0 =>
    \E q \in Separants : q <= i /\ \A m \in Separateur : ~(q < m /\ m <= i)

\* Beside a separator and at the end of a line, there is no blank.
LEMMA SansBlanc ==
  ASSUME Simple, NEW p \in Places, p + 1 \in Places,
         commande[p] \in Signes, commande[p + 1] \in Blancs
  PROVE  ~Garde(commande[p + 1])
<1>0. p \in Nat /\ (p + 1) - 1 = p
  BY DEF Places
<1>1. commande[p + 1] # " "
  <2> SUFFICES ASSUME commande[p + 1] = " " PROVE FALSE
    OBVIOUS
  <2>1. p + 1 \in BlancsEn
    BY DEF BlancsEn
  <2>2. commande[(p + 1) - 1] \notin Signes
    BY <2>1 DEF Simple, Serree
  <2> QED
    BY <1>0, <2>2, Zenon
<1>2. commande[p + 1] = "\n"
  BY <1>1 DEF Blancs
<1> QED
  BY <1>2 DEF Garde

LEMMA PlaceAvant == \A p \in Places : p \in Nat /\ (p + 1) - 1 = p
  BY DEF Places

\* The character after one that is not a blank is not >.
LEMMA ApresPlein ==
  ASSUME Simple, NEW p \in Places, commande[p] # " "
  PROVE  p + 1 \in Places => commande[p + 1] # ">"
<1>0. (p + 1) - 1 = p
  BY PlaceAvant
<1> SUFFICES ASSUME p + 1 \in Places, commande[p + 1] = ">" PROVE FALSE
  OBVIOUS
<1>1. commande[(p + 1) - 1] = " "
  BY DEF Simple, Detachees
<1> QED
  BY <1>0, <1>1, Zenon

LEMMA ApresSeparateur ==
  ASSUME Bornes, Simple, commande' = commande, NEW p \in Places, commande[p] \in Signes,
         i' = p \/ (i' = p + 1 /\ p + 1 \in Places /\ commande[p + 1] \in Blancs)
  PROVE  HorsDirection'
<1>0. p \in Nat
  BY DEF Places
<1>1. commande[p] # " " /\ commande[p] # ">"
  BY DEF Signes
<1>2. p + 1 \in Places => commande[p + 1] # ">"
  BY <1>1, ApresPlein
<1>3. Places' = Places
  BY DEF Places
<1>4. CASE i' = p
  BY <1>1, <1>2, <1>3, <1>4, Zenon DEF HorsDirection
<1>5. CASE i' = p + 1 /\ p + 1 \in Places /\ commande[p + 1] \in Blancs
  <2> PICK q : q = p + 1
    OBVIOUS
  <2>1. ~Garde(commande[q])
    BY <1>5, SansBlanc, Zenon
  <2>2. commande[q] # " " /\ commande[q] # ">"
    BY <2>1 DEF Garde
  <2>3. q + 1 \in Places => commande[q + 1] # ">"
    BY <1>5, <2>2, ApresPlein
  <2> QED
    BY <1>3, <1>5, <2>2, <2>3, Zenon DEF HorsDirection
<1> QED
  BY <1>4, <1>5

LEMMA ApresLettre ==
  ASSUME Bornes, Curseur, Simple, HorsDirection, Copier
  PROVE  i + 1 \in Places /\ i + 2 \in Places => commande[i + 2] # ">"
<1> PICK p : p = i + 2
  OBVIOUS
<1>0. i \in Nat /\ p - 1 = i + 1 /\ p + 1 = i + 3 /\ Len(commande) \in Nat
  BY DansLigne
<1> SUFFICES ASSUME p \in Places, commande[p] = ">" PROVE FALSE
  OBVIOUS
<1>1. commande[p - 1] = " " /\ p + 1 \in Places /\ commande[p + 1] = " "
  BY DEF Simple, Detachees
<1>2. i + 3 <= Len(commande)
  <2>1. p + 1 \in Places
    BY <1>1
  <2> QED
    BY <1>0, <2>1 DEF Places
<1>3. commande[i + 1] = " " /\ commande[i + 2] = ">" /\ commande[i + 3] = " "
  BY <1>0, <1>1, Zenon
<1>4. Suit(Direction)
  BY <1>2, <1>3, Comparaisons, Zenon DEF Bornes
<1> QED
  BY <1>4, CopierPas, Zenon

LEMMA HorsDirectionPas ==
  ASSUME Bornes, Curseur, Simple, HorsPaire, HorsDirection, Next
  PROVE  HorsDirection'
<1>0. i \in Nat /\ Len(commande) \in Nat /\ commande' = commande /\ Places' = Places
  BY LigneFixe, DansLigne DEF Places
<1> PICK p : p = i + 1
  OBVIOUS
<1>1. CASE PasserRetourLigne
  <2>1. i < Len(commande) /\ i' = p /\ commande[p] = "\n"
    BY <1>1, RetourPas, Zenon
  <2>2. p \in Places
    <3>1. i < Len(commande)
      BY <2>1
    <3> QED
      BY <1>0, <3>1 DEF Places
  <2>3. commande[p] # " " /\ commande[p] # ">"
    BY <2>1
  <2>4. p + 1 \in Places => commande[p + 1] # ">"
    BY <2>2, <2>3, ApresPlein
  <2> QED
    BY <1>0, <2>1, <2>3, <2>4, Zenon DEF HorsDirection
<1>2. CASE Couper
  <2>1. /\ i < Len(commande) /\ commande[i + 1] = ";"
        /\ i' = i + 1 \/ (i' = i + 2 /\ i + 2 <= Len(commande) /\ commande[i + 2] \in Blancs)
    BY <1>2, CouperPas, Zenon
  <2>2. i < Len(commande)
    BY <2>1
  <2>3. p \in Places /\ p + 1 = i + 2 /\ (i + 2 <= Len(commande) => i + 2 \in Places)
    BY <1>0, <2>2 DEF Places
  <2>4. commande[p] \in Signes
    BY <2>1 DEF Signes
  <2>5. i' = p \/ (i' = p + 1 /\ p + 1 \in Places /\ commande[p + 1] \in Blancs)
    BY <2>1, <2>3, Zenon
  <2> QED
    BY <1>0, <2>3, <2>4, <2>5, ApresSeparateur
<1>3. CASE CouperDouble
  <2>1. /\ i + 2 <= Len(commande)
        /\ commande[i + 1] \in {"|", "&"} /\ commande[i + 2] = commande[i + 1]
        /\ i' = i + 2 \/ (i' = i + 3 /\ i + 3 <= Len(commande) /\ commande[i + 3] \in Blancs)
    BY <1>3, DoublePas, Zenon
  <2>2. i + 2 <= Len(commande)
    BY <2>1
  <2> PICK q : q = i + 2
    OBVIOUS
  <2>3. q \in Places /\ q + 1 = i + 3 /\ (i + 3 <= Len(commande) => i + 3 \in Places)
    BY <1>0, <2>2 DEF Places
  <2>4. commande[q] \in Signes
    <3>1. \A c \in {"|", "&"} : c \in Signes
      BY DEF Signes
    <3> QED
      BY <2>1, <3>1, Zenon
  <2>5. i' = q \/ (i' = q + 1 /\ q + 1 \in Places /\ commande[q + 1] \in Blancs)
    BY <2>1, <2>3, Zenon
  <2> QED
    BY <1>0, <2>3, <2>4, <2>5, ApresSeparateur
<1>4. CASE CouperTube
  <2>1. p \in Tubes
    BY <1>4, TubeEst
  <2> QED
    BY <2>1 DEF Simple
<1>5. CASE Rediriger
  <2>1. /\ i + 3 <= Len(commande) /\ i' = i + 3
        /\ commande[i + 2] = ">" /\ commande[i + 3] = " "
    BY <1>5, RedirigerPas, Zenon
  <2>2. i + 3 <= Len(commande)
    BY <2>1
  <2>3. i + 2 \in Places /\ (i + 2) + 2 = i + 4 /\ (i + 3) + 1 = i + 4
    BY <1>0, <2>2 DEF Places
  <2>4. (i + 2) + 2 \in Places => commande[(i + 2) + 2] # ">"
    BY <2>1, <2>3, Zenon DEF Simple, Detachees
  <2>5. commande[i + 3] # ">"
    BY <2>1
  <2> QED
    BY <1>0, <2>1, <2>3, <2>4, <2>5, Zenon DEF HorsDirection
<1>6. CASE Copier
  <2>1. i' = p /\ i < Len(commande)
    BY <1>6, CopierPas, Zenon
  <2>2. p \in Places /\ p + 1 = i + 2
    BY <1>0, <2>1 DEF Places
  <2>3. commande[p] # ">"
    BY <2>2, Zenon DEF HorsDirection
  <2>4. p + 1 \in Places => commande[p + 1] # ">"
    BY <1>6, <2>2, ApresLettre, Zenon
  <2> QED
    BY <1>0, <2>1, <2>3, <2>4, Zenon DEF HorsDirection
<1>7. CASE Finir
  BY <1>0, <1>7 DEF Finir, HorsDirection
<1>8. CASE UNCHANGED vars
  BY <1>0, <1>8 DEF vars, HorsDirection
<1> QED
  BY <1>1, <1>2, <1>3, <1>4, <1>5, <1>6, <1>7, <1>8 DEF Next, Etape

\* A blank that is copied, or that would be passed, is before an argument.
LEMMA BlancSepare ==
  ASSUME Bornes, Curseur, Simple, HorsDirection, Copier, commande[i + 1] \in Blancs
  PROVE  i + 1 \in Separants /\ ~AvantDouble
<1> PICK p : p = i + 1
  OBVIOUS
<1>0. i < Len(commande) /\ commande[p] # "\n" /\ commande[p] # "|"
  BY CopierPas, CopierSeul DEF Simple
<1>1. i < Len(commande) /\ i \in Nat /\ Len(commande) \in Nat
  BY <1>0, DansLigne
<1>2. p \in Places /\ p - 1 = i /\ p + 1 = i + 2 /\ (p > 1 => i \in Places)
  BY <1>1 DEF Places
<1>3. commande[p] = " "
  BY <1>0 DEF Blancs
<1>4. p \in BlancsEn
  BY <1>2, <1>3 DEF BlancsEn
<1>5. p > 1 /\ p + 1 \in Places /\ commande[p + 1] \notin Signes
  BY <1>4 DEF Simple, Serree
<1>6. commande[p - 1] # ">"
  BY <1>2, <1>5, Zenon DEF HorsDirection
<1>7. commande[p + 1] # ">"
  BY <1>2, <1>5, ApresLettre, Zenon
<1>8. p \in Separants
  BY <1>4, <1>6, <1>7 DEF Separants
<1>9. ASSUME NEW s \in Doubles, Suit(<<" ">> \o s) PROVE FALSE
  <2>1. commande[i + 2] = s[1]
    BY <1>9, AvantSigne
  <2>2. s[1] \in {"|", "&"}
    BY DEF Doubles
  <2>3. s[1] \in Signes
    BY <2>2 DEF Signes
  <2> QED
    BY <1>2, <1>5, <2>1, <2>3, Zenon
<1> QED
  BY <1>0, <1>8, <1>9, Zenon DEF AvantDouble, Car

LEMMA LignePareille ==
  ASSUME commande' = commande
  PROVE  /\ Places' = Places /\ Simple' = Simple
         /\ Separants' = Separants /\ Separateur' = Separateur
<1>1. /\ Ordinaire' = Ordinaire /\ Paires' = Paires /\ Tubes' = Tubes /\ Points' = Points
  BY LigneInchangee
<1>2. /\ Places' = Places /\ BlancsEn' = BlancsEn /\ Separants' = Separants
      /\ Detachees' = Detachees /\ Serree' = Serree
  BY DEF Places, BlancsEn, Separants, Detachees, Serree, Signes, Blancs
<1>3. Separateur' = Separateur /\ UnArgument' = UnArgument
  BY <1>1, <1>2 DEF Separateur, UnArgument
<1> QED
  BY <1>1, <1>2, <1>3 DEF Simple

LEMMA EnNombres == /\ \A p \in Separants : p \in Places /\ p \in Nat
                   /\ \A m \in Separateur : m \in Places /\ m \in Nat
<1>1. Separants \subseteq Places
  BY Zenon DEF Separants, BlancsEn
<1>2. Separateur \subseteq Places
  BY Zenon DEF Separateur, Points, Tubes, Paires, SignesEn
<1> QED
  BY <1>1, <1>2, PlaceAvant, Zenon

LEMMA SansSigne == \A p : commande[p] \notin Signes => p \notin Separateur
BY DEF Separateur, Points, Tubes, Paires, SignesEn

\* No character is passed: a second blank would be a second argument.
LEMMA PasseJamais ==
  ASSUME Bornes, Curseur, Simple, HorsDirection, Espaces, Copier
  PROVE  ~Passe
<1>1. ASSUME AvantDouble PROVE FALSE
  <2>1. commande[i + 1] # "|"
    BY CopierSeul DEF Simple
  <2> PICK s \in Doubles : Suit(<<" ">> \o s)
    BY <1>1, <2>1 DEF AvantDouble, Car
  <2>2. commande[i + 1] = " "
    BY AvantSigne
  <2>3. commande[i + 1] \in Blancs
    BY <2>2 DEF Blancs
  <2> QED
    BY <1>1, <2>3, BlancSepare
<1>2. ASSUME nbEspace > 0, commande[i + 1] \in Blancs PROVE FALSE
  <2> PICK p : p = i + 1
    OBVIOUS
  <2>1. p \in Separants
    BY <1>2, BlancSepare
  <2>2. PICK q \in Separants : q <= i /\ \A m \in Separateur : ~(q < m /\ m <= i)
    BY <1>2 DEF Espaces
  <2>3. q < p
    BY <2>2, DansLigne, EnNombres
  <2>4. PICK m \in Separateur : q < m /\ m < p
    BY <2>1, <2>3 DEF Simple, UnArgument, Separateur
  <2>5. m <= i
    <3>1. m \in Nat
      BY EnNombres
    <3> QED
      BY <2>4, <3>1, DansLigne
  <2> QED
    BY <2>2, <2>4, <2>5
<1> QED
  BY <1>1, <1>2 DEF Passe

LEMMA EspacesSuite ==
  ASSUME Bornes, Espaces, commande' = commande, nbEspace' = nbEspace, i' \in Nat, i' >= i,
         \A m \in Separateur : ~(i < m /\ m <= i')
  PROVE  Espaces'
<1> SUFFICES ASSUME nbEspace > 0
             PROVE  \E q \in Separants : q <= i' /\ \A m \in Separateur : ~(q < m /\ m <= i')
  BY LignePareille DEF Espaces
<1>1. PICK q \in Separants : q <= i /\ \A m \in Separateur : ~(q < m /\ m <= i)
  BY DEF Espaces
<1>2. q \in Nat /\ i \in Nat /\ \A m \in Separateur : m \in Nat
  BY DansLigne, EnNombres
<1> QED
  BY <1>1, <1>2

LEMMA EspacesPas ==
  ASSUME Bornes, Curseur, Simple, HorsPaire, HorsDirection, Espaces, Next
  PROVE  Espaces'
<1>0. i \in Nat /\ commande' = commande /\ \A m \in Separateur : m \in Nat
  BY DansLigne, LigneFixe, EnNombres
<1>1. CASE PasserRetourLigne
  <2>1. i' = i + 1 /\ commande[i + 1] = "\n"
    BY <1>1, RetourPas
  <2>2. i + 1 \notin Separateur
    <3>1. commande[i + 1] \notin Signes
      BY <2>1 DEF Signes
    <3> QED
      BY <3>1, SansSigne
  <2>3. nbEspace' = nbEspace /\ i' = i + 1
    BY <1>1 DEF PasserRetourLigne
  <2>4. /\ i' \in Nat /\ i' >= i /\ \A m \in Separateur : ~(i < m /\ m <= i')
    BY <1>0, <2>2, <2>3
  <2> QED
    BY <1>0, <2>3, <2>4, EspacesSuite
<1>2. CASE Couper \/ CouperDouble
  <2>1. nbEspace' = 0
    BY <1>2 DEF Couper, CouperDouble
  <2> QED
    BY <2>1 DEF Espaces
<1>3. CASE CouperTube
  BY <1>3, TubeEst DEF Simple
<1>4. CASE Rediriger
  <2>1. i' = i + 3 /\ nbEspace' = nbEspace
    BY <1>4 DEF Rediriger
  <2>2. commande[i + 1] = " " /\ commande[i + 2] = ">" /\ commande[i + 3] = " "
    BY <1>4, RedirigerPas, Zenon
  <2>3. i + 1 \notin Separateur /\ i + 2 \notin Separateur /\ i + 3 \notin Separateur
    <3>1. /\ commande[i + 1] \notin Signes /\ commande[i + 2] \notin Signes
          /\ commande[i + 3] \notin Signes
      BY <2>2 DEF Signes
    <3> QED
      BY <3>1, SansSigne
  <2>4. /\ i' \in Nat /\ i' >= i /\ \A m \in Separateur : ~(i < m /\ m <= i')
    BY <1>0, <2>1, <2>3
  <2> QED
    BY <1>0, <2>1, <2>4, EspacesSuite
<1>5. CASE Copier
  <2>1. i' = i + 1 /\ Ecrit
    BY <1>5, CopierPas, PasseJamais, Zenon
  <2>2. i + 1 \notin Separateur
    BY <1>5, CopierSeul DEF Simple, Separateur
  <2>3. i' = i + 1
    BY <2>1
  <2>4. /\ i' \in Nat /\ i' >= i /\ \A m \in Separateur : ~(i < m /\ m <= i')
    BY <1>0, <2>2, <2>3
  <2>5. CASE nbEspace' = 0
    BY <2>5 DEF Espaces
  <2>6. CASE nbEspace' = nbEspace
    BY <1>0, <2>4, <2>6, EspacesSuite
  <2>7. CASE commande[i + 1] \in Blancs
    <3>1. i + 1 \in Separants
      BY <1>5, <2>7, BlancSepare
    <3>2. i + 1 <= i' /\ \A m \in Separateur : ~(i + 1 < m /\ m <= i')
      BY <1>0, <2>3
    <3> QED
      BY <1>0, <3>1, <3>2, LignePareille DEF Espaces
  <2> QED
    BY <2>1, <2>5, <2>6, <2>7, Zenon DEF Ecrit
<1>6. CASE Finir \/ UNCHANGED vars
  <2>1. i' = i /\ nbEspace' = nbEspace
    BY <1>6 DEF Finir, vars
  <2>2. /\ i' \in Nat /\ i' >= i /\ \A m \in Separateur : ~(i < m /\ m <= i')
    BY <1>0, <2>1
  <2> QED
    BY <1>0, <2>1, <2>2, EspacesSuite
<1> QED
  BY <1>1, <1>2, <1>3, <1>4, <1>5, <1>6 DEF Next, Etape

LEMMA EntierPas ==
  ASSUME Bornes, Curseur, Simple, HorsPaire, HorsDirection, Espaces, Contenu({}), Next
  PROVE  Contenu({})'
<1>0. i \in Nat /\ Len(commande) \in Nat
  BY DansLigne
<1>1. CASE PasserRetourLigne
  BY <1>1, ContenuRetour
<1>2. CASE Couper
  <2>1. i' = i + 2 => ~Garde(commande[i + 2])
    <3> SUFFICES ASSUME i' = i + 2 PROVE ~Garde(commande[i + 2])
      OBVIOUS
    <3>1. i + 1 # i + 2
      BY <1>0
    <3>2. i + 2 <= Len(commande) /\ commande[i + 1] = ";" /\ commande[i + 2] \in Blancs
      BY <1>2, <3>1, CouperPas, Zenon
    <3> PICK p : p = i + 1
      OBVIOUS
    <3>3. p \in Places /\ p + 1 \in Places /\ p + 1 = i + 2
      <4>1. i + 2 <= Len(commande)
        BY <3>2
      <4> QED
        BY <1>0, <4>1 DEF Places
    <3>4. commande[p] \in Signes
      BY <3>2 DEF Signes
    <3> QED
      BY <3>2, <3>3, <3>4, SansBlanc, Zenon
  <2> QED
    BY <1>2, <2>1, ContenuCouper, Zenon
<1>3. CASE CouperDouble
  <2>1. i' = i + 3 => ~Garde(commande[i + 3])
    <3> SUFFICES ASSUME i' = i + 3 PROVE ~Garde(commande[i + 3])
      OBVIOUS
    <3>1. i + 2 # i + 3
      BY <1>0
    <3>2. /\ i + 3 <= Len(commande) /\ commande[i + 1] \in {"|", "&"}
          /\ commande[i + 2] = commande[i + 1] /\ commande[i + 3] \in Blancs
      BY <1>3, <3>1, DoublePas, Zenon
    <3> PICK p : p = i + 2
      OBVIOUS
    <3>3. p \in Places /\ p + 1 \in Places /\ p + 1 = i + 3
      <4>1. i + 3 <= Len(commande)
        BY <3>2
      <4> QED
        BY <1>0, <4>1 DEF Places
    <3>4. commande[p] \in Signes
      <4>1. \A c \in {"|", "&"} : c \in Signes
        BY DEF Signes
      <4> QED
        BY <3>2, <4>1, Zenon
    <3> QED
      BY <3>2, <3>3, <3>4, SansBlanc, Zenon
  <2> QED
    BY <1>3, <2>1, ContenuDouble, Zenon
<1>4. CASE CouperTube
  BY <1>4, TubeEst DEF Simple
<1>5. CASE Rediriger
  BY <1>5, ContenuRediriger
<1>6. CASE Copier
  BY <1>6, PasseJamais, ContenuCopier, Zenon
<1>7. CASE Finir \/ UNCHANGED vars
  <2>1. /\ Lus' = Lus /\ i' = i /\ indexCommandes' = indexCommandes /\ commande' = commande
    BY <1>7 DEF Finir, vars, Lus
  <2> QED
    BY <2>1 DEF Contenu, Table, Tient
<1> QED
  BY <1>1, <1>2, <1>3, <1>4, <1>5, <1>6, <1>7 DEF Next, Etape

\* The invariant: one blank has been counted at most, and all is kept.
Gardee == Simple => HorsDirection /\ Espaces /\ Contenu({})

LEMMA GardeeInit == Init => Gardee
<1> SUFFICES ASSUME Init, Simple PROVE HorsDirection /\ Espaces /\ Contenu({})
  BY DEF Gardee
<1>1. i = 0 /\ nbEspace = 0
  BY DEF Init
<1>2. HorsDirection
  <2>1. 0 \notin Places /\ ~(1 > 1)
    BY DEF Places
  <2>2. 1 \in Places => commande[1] # ">"
    BY <2>1, Zenon DEF Simple, Detachees
  <2>3. 0 + 1 = 1
    OBVIOUS
  <2> QED
    BY <1>1, <2>1, <2>2, <2>3, Zenon DEF HorsDirection
<1>3. Espaces
  BY <1>1 DEF Espaces
<1> QED
  BY <1>2, <1>3, ContenuInit

LEMMA GardeePas == Bornes /\ Curseur /\ Aucune /\ Gardee /\ [Next]_vars => Gardee'
<1> SUFFICES ASSUME Bornes, Curseur, Aucune, Gardee, [Next]_vars PROVE Gardee'
  OBVIOUS
<1>1. CASE Next
  <2>1. commande' = commande
    BY <1>1, LigneFixe
  <2>2. Simple' = Simple
    BY <2>1, LignePareille
  <2> SUFFICES ASSUME Simple PROVE HorsDirection' /\ Espaces' /\ Contenu({})'
    BY <2>2 DEF Gardee
  <2>3. HorsPaire /\ HorsDirection /\ Espaces /\ Contenu({})
    BY DEF Aucune, Gardee, Simple
  <2> QED
    BY <1>1, <2>3, HorsDirectionPas, EspacesPas, EntierPas
<1>2. CASE UNCHANGED vars
  <2>1. /\ Lus' = Lus /\ i' = i /\ indexCommandes' = indexCommandes /\ commande' = commande
        /\ nbEspace' = nbEspace
    BY <1>2 DEF vars, Lus
  <2>2. /\ Places' = Places /\ Simple' = Simple
        /\ Separants' = Separants /\ Separateur' = Separateur
    BY <2>1, LignePareille
  <2>3. HorsDirection' = HorsDirection /\ Espaces' = Espaces
    BY <2>1, <2>2 DEF HorsDirection, Espaces
  <2>4. Contenu({}) => Contenu({})'
    BY <2>1 DEF Contenu, Table, Tient
  <2> QED
    BY <2>2, <2>3, <2>4 DEF Gardee
<1> QED
  BY <1>1, <1>2

LEMMA ArgumentEst == Bornes /\ Curseur /\ Gardee => ArgumentGarde
<1> SUFFICES ASSUME Bornes, Curseur, Gardee, Fini, Ordinaire, Serree, Detachees,
                    Tubes = {}, UnArgument
             PROVE  FlattenSeq(Mots) = Sans(commande, {";", "\n"})
  BY DEF ArgumentGarde
<1>1. Contenu({})
  BY DEF Gardee, Simple
<1>2. /\ Sans(FlattenSeq(Mots), {}) = Sans(commande, {} \cup {";", "\n"})
      /\ FlattenSeq(Mots) \in Seq(Caracteres)
  BY <1>1, ContenuFin
<1>3. {} \cup {";", "\n"} = {";", "\n"}
  OBVIOUS
<1>4. Sans(FlattenSeq(Mots), {}) = FlattenSeq(Mots)
  BY <1>2, SansRienOter
<1> QED
  BY <1>2, <1>3, <1>4, Zenon

(* Commands that have an argument at most keep the blank before it, and    *)
(* the ones around an operator of redirection: the words are the line      *)
(* without its ; and its end, so execvp gets the name and the argument     *)
(* apart, however many commands && and || and ; have put on the line.      *)
THEOREM ArgumentEntier == Spec => []ArgumentGarde
<1>1. Init => Bornes /\ Curseur /\ Aucune /\ Gardee
  BY InitEtat, AucuneInit, GardeeInit
<1>2. Bornes /\ Curseur /\ Aucune /\ Gardee /\ [Next]_vars
      => (Bornes /\ Curseur /\ Aucune /\ Gardee)'
  BY PasEtat, AucunePas, GardeePas
<1>3. Bornes /\ Curseur /\ Gardee => ArgumentGarde
  BY ArgumentEst
<1> QED
  BY <1>1, <1>2, <1>3, PTL DEF Spec

=============================================================================
