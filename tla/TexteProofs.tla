----------------------------- MODULE TexteProofs -----------------------------
(***************************************************************************)
(* Theorems about sessions, for every set of lines that fit into a word:   *)
(* what gererChaine gives for each line of one, the types, of what a shell *)
(* dies, and what the commands of a line do.                               *)
(***************************************************************************)
EXTENDS Texte, ChaineProofs

-----------------------------------------------------------------------------
(* Pieces of a text.                                                       *)

\* The least of some places.
LEMMA PremierePlace ==
  ASSUME NEW n \in Nat, NEW I, I \subseteq 1 .. n, I # {}
  PROVE  \E m \in I : m = Min(I) /\ m \in 1 .. n /\ \A k \in 1 .. m - 1 : k \notin I
<1>1. I \subseteq Nat
  OBVIOUS
<1>2. Min(I) \in I /\ \A k \in I : Min(I) <= k
  BY <1>1, Moindre
<1> PICK m \in I : m = Min(I)
  BY <1>2
<1>3. \A k \in I : m <= k
  BY <1>2
<1>4. \A k \in 1 .. m - 1 : k \notin I
  BY <1>3
<1> QED
  BY <1>4

LEMMA ChaineType ==
  ASSUME NEW w \in Seq(Octets)
  PROVE  Chaine(w) \in Seq(Caracteres)
<1> DEFINE I == {n \in 1 .. Len(w) : EstNul(w[n])}
<1>1. \A n \in 1 .. Len(w) : w[n] \in Caracteres \/ n \in I
  BY ElementOfSeq DEF Octets, EstNul
<1>2. CASE I = {}
  <2>1. Chaine(w) = w
    BY <1>2 DEF Chaine, SelectInSeq
  <2>2. \A n \in 1 .. Len(w) : w[n] \in Caracteres
    BY <1>1, <1>2
  <2> QED
    BY <2>1, <2>2
<1>3. CASE I # {}
  <2>0. Len(w) \in Nat /\ I \subseteq 1 .. Len(w)
    BY LenProperties
  <2>1. PICK m \in I : m = Min(I) /\ m \in 1 .. Len(w) /\ \A k \in 1 .. m - 1 : k \notin I
    BY <1>3, <2>0, PremierePlace, Zenon
  <2> HIDE DEF I
  <2>2. m \in 1 .. Len(w) /\ \A n \in 1 .. m - 1 : n \in 1 .. Len(w) /\ n \notin I
    BY <2>0, <2>1
  <2>3. Chaine(w) = SubSeq(w, 1, m - 1)
    <3>1. SelectInSeq(w, EstNul) = m
      BY <1>3, <2>1, Zenon DEF SelectInSeq, I
    <3>2. m # 0
      BY <2>2
    <3> QED
      BY <3>1, <3>2 DEF Chaine
  <2>4. \A n \in 1 .. m - 1 : w[n] \in Caracteres
    BY <1>1, <2>2
  <2>5. SubSeq(w, 1, m - 1) \in Seq(Caracteres)
    BY <2>2, <2>4, SubSeqProperties
  <2> QED
    BY <2>3, <2>5
<1> QED
  BY <1>2, <1>3

\* The place of the first c, 0 if there is none.
Premier(s, c) == SelectInSeq(s, LAMBDA x : x = c)

LEMMA AvantApres ==
  ASSUME NEW s, NEW c
  PROVE  /\ Avant(s, c) = IF Premier(s, c) = 0 THEN s ELSE SubSeq(s, 1, Premier(s, c) - 1)
         /\ Apres(s, c) = IF Premier(s, c) = 0 THEN <<>>
                          ELSE SubSeq(s, Premier(s, c) + 1, Len(s))
  BY DEF Avant, Apres, Premier

LEMMA PremierEst ==
  ASSUME NEW T, NEW s \in Seq(T), NEW c
  PROVE  /\ Premier(s, c) \in 0 .. Len(s) /\ Premier(s, c) \in Nat
         /\ Premier(s, c) = 0 => \A k \in 1 .. Len(s) : s[k] # c
         /\ Premier(s, c) # 0 => /\ Premier(s, c) \in 1 .. Len(s) /\ s[Premier(s, c)] = c
                                 /\ \A k \in 1 .. Premier(s, c) - 1 : s[k] # c
<1> DEFINE I == {n \in 1 .. Len(s) : s[n] = c}
<1>1. Premier(s, c) = IF I # {} THEN Min(I) ELSE 0
  BY DEF Premier, SelectInSeq
<1>2. Len(s) \in Nat
  BY LenProperties
<1>3. CASE I = {}
  BY <1>1, <1>2, <1>3
<1>4. CASE I # {}
  <2>1. PICK m \in I : m = Min(I) /\ m \in 1 .. Len(s) /\ \A k \in 1 .. m - 1 : k \notin I
    BY <1>2, <1>4, PremierePlace
  <2>2. Premier(s, c) = m /\ s[m] = c
    BY <1>1, <1>4, <2>1
  <2>3. \A k \in 1 .. m - 1 : s[k] # c
    BY <1>2, <2>1
  <2> QED
    BY <1>2, <2>1, <2>2, <2>3
<1> QED
  BY <1>3, <1>4

\* What is before and after the first c.
LEMMA Morceaux ==
  ASSUME NEW T, NEW s \in Seq(T), NEW c, NEW n, n = Premier(s, c)
  PROVE  /\ Avant(s, c) \in Seq(T) /\ Apres(s, c) \in Seq(T)
         /\ n = 0 => Avant(s, c) = s /\ Apres(s, c) = <<>>
         /\ n # 0 => /\ Len(Avant(s, c)) = n - 1
                     /\ \A k \in 1 .. n - 1 : Avant(s, c)[k] = s[k]
                     /\ Len(Apres(s, c)) = Len(s) - n
                     /\ \A k \in 1 .. Len(s) - n : Apres(s, c)[k] = s[n + k]
<1>1. /\ n \in Nat /\ Len(s) \in Nat /\ n <= Len(s)
  BY PremierEst, LenProperties
<1>2. CASE n = 0
  BY <1>2, AvantApres, EmptySeq
<1>3. CASE n # 0
  <2>1. n \in 1 .. Len(s)
    BY <1>1, <1>3
  <2>2. Avant(s, c) = SubSeq(s, 1, n - 1) /\ Apres(s, c) = SubSeq(s, n + 1, Len(s))
    BY <1>3, AvantApres
  <2>3. /\ SubSeq(s, 1, n - 1) \in Seq(T) /\ Len(SubSeq(s, 1, n - 1)) = n - 1
        /\ \A k \in 1 .. n - 1 : SubSeq(s, 1, n - 1)[k] = s[k]
    BY <2>1, SubSeqProperties
  <2> PICK m : m = n + 1
    OBVIOUS
  <2>4. /\ SubSeq(s, m, Len(s)) \in Seq(T) /\ Len(SubSeq(s, m, Len(s))) = Len(s) - n
        /\ \A k \in 1 .. Len(s) - n : SubSeq(s, m, Len(s))[k] = s[n + k]
    <3>1. /\ m \in 1 .. Len(s) + 1 /\ Len(s) \in m - 1 .. Len(s)
          /\ (IF m <= Len(s) THEN Len(s) - m + 1 ELSE 0) = Len(s) - n
          /\ \A k \in 1 .. Len(s) - n : m + k - 1 = n + k
      BY <1>1, <2>1
    <3> QED
      BY <2>1, <3>1, SubSeqProperties
  <2> QED
    BY <1>3, <2>2, <2>3, <2>4
<1> QED
  BY <1>2, <1>3

-----------------------------------------------------------------------------
(* Variables in a word.                                                    *)
EstBlanc(c) == c = " "
EstDollar(c) == c = "$"
Dollar == "$"

\* The schema at a place, and a place the search stops at.
Vue(m, q) == EstBlanc(m[q]) /\ EstDollar(m[q + 1]) /\ Lettre(m[q + 2])
Devant(c) == c \in Blancs \cup {"$"}
Appelable(m, p) == EstDollar(m[p]) /\ (p = 1 \/ Devant(m[p - 1]))

LEMMA SchemaEst == \A m : Schema(m) <=> \E q \in 1 .. Len(m) - 2 : Vue(m, q)
  BY DEF Schema, Vue, EstBlanc, EstDollar

LEMMA Signes3 == \A c : /\ EstBlanc(c) => Devant(c) /\ ~EstDollar(c)
                        /\ EstDollar(c) <=> c = Dollar
  BY DEF EstBlanc, EstDollar, Devant, Blancs, Dollar

\* No part of a word without the schema has it.
LEMMA SchemaPartie ==
  ASSUME NEW s, NEW u, Len(s) \in Nat, Len(u) \in Nat, ~Schema(s),
         NEW d \in Nat, d + Len(u) <= Len(s), \A k \in 1 .. Len(u) : u[k] = s[d + k]
  PROVE  ~Schema(u)
<1> SUFFICES ASSUME NEW q \in 1 .. Len(u) - 2, Vue(u, q) PROVE FALSE
  BY SchemaEst
<1>1. u[q] = s[d + q] /\ u[q + 1] = s[d + (q + 1)] /\ u[q + 2] = s[d + (q + 2)]
  OBVIOUS
<1> PICK r : r = d + q
  OBVIOUS
<1>2. r \in 1 .. Len(s) - 2 /\ d + q = r /\ d + (q + 1) = r + 1 /\ d + (q + 2) = r + 2
  OBVIOUS
<1>3. Vue(s, r)
  BY <1>1, <1>2, Zenon DEF Vue
<1> QED
  BY <1>2, <1>3, SchemaEst

LEMMA SchemaMorceaux ==
  ASSUME NEW T, NEW s \in Seq(T), NEW c, ~Schema(s)
  PROVE  ~Schema(Avant(s, c)) /\ ~Schema(Apres(s, c))
<1> PICK n : n = Premier(s, c)
  OBVIOUS
<1>1. n \in 0 .. Len(s) /\ Len(s) \in Nat
  BY PremierEst, LenProperties
<1>2. CASE n = 0
  <2>1. Avant(s, c) = s /\ Apres(s, c) = <<>>
    BY <1>2, Morceaux
  <2>2. Len(<<>>) = 0
    OBVIOUS
  <2>3. ~Schema(<<>>)
    BY <2>2, SchemaEst
  <2> QED
    BY <2>1, <2>3
<1>3. CASE n # 0
  <2> PICK a, b : a = Avant(s, c) /\ b = Apres(s, c)
    OBVIOUS
  <2>1. /\ Len(a) = n - 1 /\ \A k \in 1 .. n - 1 : a[k] = s[k]
        /\ Len(b) = Len(s) - n /\ \A k \in 1 .. Len(s) - n : b[k] = s[n + k]
    BY <1>3, Morceaux
  <2>2. ~Schema(a)
    <3>1. \A k \in 1 .. Len(a) : a[k] = s[0 + k]
      BY <1>1, <2>1
    <3>2. Len(a) \in Nat /\ 0 + Len(a) <= Len(s)
      BY <1>1, <1>3, <2>1
    <3> QED
      BY <1>1, <3>1, <3>2, SchemaPartie
  <2>3. ~Schema(b)
    <3>1. Len(b) \in Nat /\ n + Len(b) <= Len(s) /\ n \in Nat
      BY <1>1, <2>1
    <3> QED
      BY <1>1, <2>1, <3>1, SchemaPartie
  <2> QED
    BY <2>2, <2>3
<1> QED
  BY <1>2, <1>3

\* Where the variable is, when there is one.
LEMMA PlaceEst ==
  ASSUME NEW T, NEW m \in Seq(T), Schema(m)
  PROVE  \E p \in 1 .. Len(m) - 1, q \in 1 .. Len(m) - 2 :
            /\ p = PlaceVariable(m) /\ Appelable(m, p)
            /\ \A k \in 1 .. p - 1 : ~Appelable(m, k)
            /\ Vue(m, q) /\ q + 1 >= p
<1>0. Len(m) \in Nat
  BY LenProperties
<1> PICK q \in 1 .. Len(m) - 2 : Vue(m, q)
  BY SchemaEst
<1> DEFINE I == {p \in 1 .. Len(m) : Appelable(m, p)}
<1>1. PlaceVariable(m) = Min(I)
  BY DEF PlaceVariable, Appelable, EstDollar, Devant
<1>2. q + 1 \in I
  <2>1. Appelable(m, q + 1)
    <3>1. EstDollar(m[q + 1]) /\ Devant(m[q])
      BY Signes3 DEF Vue
    <3>2. (q + 1) - 1 = q
      OBVIOUS
    <3> QED
      BY <3>1, <3>2, Zenon DEF Appelable
  <2> QED
    BY <1>0, <2>1
<1>3. PICK p \in I : p = Min(I) /\ p \in 1 .. Len(m) /\ \A k \in 1 .. p - 1 : k \notin I
  BY <1>0, <1>2, PremierePlace
<1>4. Appelable(m, p) /\ \A k \in 1 .. p - 1 : ~Appelable(m, k)
  <2>1. \A k \in 1 .. Len(m) : Appelable(m, k) <=> k \in I
    OBVIOUS
  <2> HIDE DEF I
  <2>2. \A k \in 1 .. p - 1 : k \in 1 .. Len(m)
    BY <1>0, <1>3
  <2> QED
    BY <1>3, <2>1, <2>2
<1> HIDE DEF I
<1>5. q + 1 >= p /\ p \in 1 .. Len(m) - 1
  BY <1>0, <1>2, <1>3
<1> QED
  BY <1>1, <1>3, <1>4, <1>5

\* What follows it is its name.
LEMMA NomEst ==
  ASSUME NEW T, NEW m \in Seq(T), NEW p \in 1 .. Len(m) - 1, p = PlaceVariable(m)
  PROVE  /\ NomVariable(m) \in Seq(T) /\ Len(NomVariable(m)) = Len(m) - p
         /\ \A k \in 1 .. Len(m) - p : NomVariable(m)[k] = m[p + k]
<1> PICK r : r = p + 1
  OBVIOUS
<1>1. NomVariable(m) = SubSeq(m, r, Len(m))
  BY DEF NomVariable
<1>2. /\ Len(m) \in Nat /\ r \in 1 .. Len(m) /\ Len(m) - r + 1 = Len(m) - p
      /\ \A k \in 1 .. Len(m) - p : r + k - 1 = p + k
  BY LenProperties
<1>3. \A k \in r .. Len(m) : k \in 1 .. Len(m) /\ m[k] \in T
  BY <1>2, ElementOfSeq
<1> QED
  BY <1>1, <1>2, <1>3, SubSeqProperties

\* A name has no variable: the one before the search has just met its blank.
LEMMA NomSeul ==
  ASSUME NEW T, NEW m \in Seq(T), Schema(m), ~Schema(NomVariable(m)),
         NEW p, p = PlaceVariable(m)
  PROVE  p \in 2 .. Len(m) - 1 /\ Vue(m, p - 1)
<1>1. PICK q \in 1 .. Len(m) - 2 :
          p \in 1 .. Len(m) - 1 /\ Appelable(m, p) /\ Vue(m, q) /\ q + 1 >= p
  BY PlaceEst
<1>2. Len(m) \in Nat /\ p \in Nat /\ q \in Nat
  BY <1>1, LenProperties
<1>3. ~(q > p)
  <2> SUFFICES ASSUME q > p PROVE FALSE
    OBVIOUS
  <2> PICK u, d : u = NomVariable(m) /\ d = q - p
    OBVIOUS
  <2>1. Len(u) = Len(m) - p /\ \A k \in 1 .. Len(m) - p : u[k] = m[p + k]
    BY <1>1, NomEst
  <2>2. /\ d \in 1 .. Len(u) - 2 /\ p + d = q /\ p + (d + 1) = q + 1 /\ p + (d + 2) = q + 2
        /\ d \in 1 .. Len(m) - p /\ d + 1 \in 1 .. Len(m) - p /\ d + 2 \in 1 .. Len(m) - p
    <3>1. d = q - p /\ Len(u) = Len(m) - p /\ q > p /\ q <= Len(m) - 2
      BY <1>2, <2>1
    <3> QED
      BY ONLY <1>1, <1>2, <3>1
  <2>3. u[d] = m[q] /\ u[d + 1] = m[q + 1] /\ u[d + 2] = m[q + 2]
    BY <2>1, <2>2, Zenon
  <2>4. Vue(u, d)
    BY <1>1, <2>3, Zenon DEF Vue
  <2> QED
    BY <2>2, <2>4, SchemaEst
<1>4. q # p
  BY <1>1, Signes3 DEF Vue, Appelable
<1>5. q = p - 1
  BY <1>1, <1>2, <1>3, <1>4
<1> QED
  BY <1>1, <1>2, <1>5

LEMMA ApresColle ==
  ASSUME NEW T, NEW a \in Seq(T), NEW b \in Seq(T), NEW c, \A k \in 1 .. Len(a) : a[k] # c
  PROVE  Apres(a \o b, c) = Apres(b, c)
<1> PICK s, n, r : s = a \o b /\ n = Premier(s, c) /\ r = Premier(b, c)
  OBVIOUS
<1>1. /\ s \in Seq(T) /\ Len(s) = Len(a) + Len(b) /\ Len(a) \in Nat /\ Len(b) \in Nat
      /\ \A k \in 1 .. Len(a) : s[k] = a[k]
      /\ \A k \in 1 .. Len(b) : s[Len(a) + k] = b[k]
  <2>1. /\ s \in Seq(T) /\ Len(s) = Len(a) + Len(b)
        /\ \A k \in 1 .. Len(a) + Len(b) :
               s[k] = IF k <= Len(a) THEN a[k] ELSE b[k - Len(a)]
    BY ConcatProperties
  <2>2. Len(a) \in Nat /\ Len(b) \in Nat
    BY LenProperties
  <2> QED
    BY <2>1, <2>2
<1>2. /\ n \in 0 .. Len(s)
      /\ n = 0 => \A k \in 1 .. Len(s) : s[k] # c
      /\ n # 0 => s[n] = c /\ \A k \in 1 .. n - 1 : s[k] # c
  <2>1. s \in Seq(T) /\ n = Premier(s, c)
    BY <1>1
  <2> QED
    BY ONLY <2>1, PremierEst
<1>20. Len(s) = Len(a) + Len(b) /\ Len(a) \in Nat /\ Len(b) \in Nat /\ n \in 0 .. Len(s)
  BY <1>1, <1>2
<1>3. /\ r \in 0 .. Len(b)
      /\ r = 0 => \A k \in 1 .. Len(b) : b[k] # c
      /\ r # 0 => b[r] = c /\ \A k \in 1 .. r - 1 : b[k] # c
  BY PremierEst
<1>4. CASE r = 0
  <2>1. n = 0
    <3> SUFFICES ASSUME n # 0 PROVE FALSE
      OBVIOUS
    <3>1. CASE n <= Len(a)
      <4>1. n \in 1 .. Len(a)
        BY <1>1, <1>2, <3>1
      <4> QED
        BY <1>1, <1>2, <4>1
    <3>2. CASE n > Len(a)
      <4> PICK k : k = n - Len(a)
        OBVIOUS
      <4>1. k \in 1 .. Len(b) /\ Len(a) + k = n
        BY <1>20, <3>2
      <4> QED
        BY <1>1, <1>2, <1>3, <1>4, <4>1, Zenon
    <3> QED
      BY <1>1, <1>2, <3>1, <3>2
  <2>2. Apres(s, c) = <<>> /\ Apres(b, c) = <<>>
    <3>1. s \in Seq(T) /\ n = Premier(s, c)
      BY <1>1
    <3> QED
      BY ONLY <3>1, <1>4, <2>1, Morceaux, r = Premier(b, c), b \in Seq(T)
  <2> QED
    BY <2>2
<1>5. CASE r # 0
  <2>1. n = Len(a) + r
    <3>1. Len(a) + r \in 1 .. Len(s) /\ s[Len(a) + r] = c
      BY <1>1, <1>3, <1>5
    <3>2. n # 0 /\ n <= Len(a) + r
      BY <1>1, <1>2, <3>1
    <3>3. n > Len(a)
      <4> SUFFICES ASSUME n <= Len(a) PROVE FALSE
        BY <1>1, <1>2
      <4>1. n \in 1 .. Len(a)
        BY <1>1, <1>2, <3>2
      <4> QED
        BY <1>1, <1>2, <3>2, <4>1
    <3> PICK k : k = n - Len(a)
      OBVIOUS
    <3>4. k \in 1 .. Len(b) /\ Len(a) + k = n
      BY <1>20, <3>3
    <3>5. b[k] = c
      BY <1>1, <1>2, <3>2, <3>4, Zenon
    <3>6. ~(k < r)
      BY <1>3, <1>5, <3>4, <3>5
    <3> QED
      BY <1>1, <1>3, <3>2, <3>4, <3>6
  <2> PICK x, y : x = Apres(s, c) /\ y = Apres(b, c)
    OBVIOUS
  <2>2. n # 0
    BY <1>1, <1>3, <1>5, <2>1
  <2>3. /\ x \in Seq(T) /\ Len(x) = Len(s) - n
        /\ \A k \in 1 .. Len(s) - n : x[k] = s[n + k]
    <3>1. s \in Seq(T) /\ n = Premier(s, c) /\ x = Apres(s, c)
      BY <1>1
    <3> QED
      BY ONLY <3>1, <2>2, Morceaux
  <2>4. /\ y \in Seq(T) /\ Len(y) = Len(b) - r
        /\ \A k \in 1 .. Len(b) - r : y[k] = b[r + k]
    BY <1>5, Morceaux
  <2>5. Len(s) - n = Len(b) - r
    BY <1>1, <1>3, <2>1
  <2>6. ASSUME NEW k \in 1 .. Len(x) PROVE x[k] = y[k]
    <3> PICK h : h = r + k
      OBVIOUS
    <3>1. k \in 1 .. Len(b) - r /\ h \in 1 .. Len(b) /\ Len(a) + h = n + k
      BY <1>1, <1>3, <2>1, <2>3, <2>5
    <3>2. x[k] = s[n + k] /\ y[k] = b[h] /\ s[Len(a) + h] = b[h]
      BY <1>1, <2>3, <2>4, <2>5, <3>1
    <3> QED
      BY <3>1, <3>2, Zenon
  <2>7. Len(x) = Len(y)
    BY <2>3, <2>4, <2>5
  <2> QED
    BY <2>3, <2>4, <2>6, <2>7, SeqEqual
<1> QED
  BY <1>4, <1>5

LEMMA UsageDollar == \A m : Usage(m) = Apres(m, Dollar) /\ Avant(m, Dollar) = Avant(m, "$")
  BY DEF Usage, Dollar

\* The first $ of a word is that of its variable, unless what follows it has
\* the schema of one.
LEMMA UsageSeule ==
  ASSUME NEW T, NEW m \in Seq(T), Schema(m), ~Schema(Usage(m))
  PROVE  /\ NomVariable(m) = Usage(m) /\ Usage(m) # <<>>
         /\ \A k \in 1 .. PlaceVariable(m) - 1 : m[k] # Dollar
<1> PICK d : d = Premier(m, Dollar)
  OBVIOUS
<1>1. PICK p \in 1 .. Len(m) - 1, q \in 1 .. Len(m) - 2 :
          p = PlaceVariable(m) /\ Appelable(m, p) /\ Vue(m, q) /\ q + 1 >= p
  BY PlaceEst
<1>2. Len(m) \in Nat
  BY LenProperties
<1>3. /\ d \in 0 .. Len(m)
      /\ d = 0 => \A k \in 1 .. Len(m) : m[k] # Dollar
      /\ d # 0 => m[d] = Dollar /\ \A k \in 1 .. d - 1 : m[k] # Dollar
  BY PremierEst
<1>4. m[p] = Dollar
  BY <1>1, Signes3 DEF Appelable
<1>5. d # 0 /\ d <= p
  BY <1>2, <1>3, <1>4
<1>6. d = p
  <2> SUFFICES ASSUME d < p PROVE FALSE
    BY <1>2, <1>3, <1>5
  <2>1. q # d
    BY <1>1, <1>3, <1>5, Signes3 DEF Vue
  <2> PICK u, e : u = Usage(m) /\ e = q - d
    OBVIOUS
  <2>2. Len(u) = Len(m) - d /\ \A k \in 1 .. Len(m) - d : u[k] = m[d + k]
    BY <1>5, UsageDollar, Morceaux
  <2>3. /\ e \in 1 .. Len(u) - 2 /\ d + e = q /\ d + (e + 1) = q + 1 /\ d + (e + 2) = q + 2
        /\ e \in 1 .. Len(m) - d /\ e + 1 \in 1 .. Len(m) - d /\ e + 2 \in 1 .. Len(m) - d
    <3>1. e = q - d /\ Len(u) = Len(m) - d /\ q > d /\ q \in Nat /\ q <= Len(m) - 2
      BY <1>1, <1>2, <1>3, <2>1, <2>2
    <3> QED
      BY ONLY <1>2, <1>3, <3>1
  <2>4. u[e] = m[q] /\ u[e + 1] = m[q + 1] /\ u[e + 2] = m[q + 2]
    BY <2>2, <2>3, Zenon
  <2>5. Vue(u, e)
    BY <1>1, <2>4, Zenon DEF Vue
  <2> QED
    BY <2>3, <2>5, SchemaEst
<1>7. NomVariable(m) = Usage(m)
  <2>1. NomVariable(m) = SubSeq(m, d + 1, Len(m))
    BY <1>1, <1>6 DEF NomVariable
  <2>2. Apres(m, Dollar) = SubSeq(m, d + 1, Len(m))
    BY <1>5, AvantApres
  <2> QED
    BY <2>1, <2>2, UsageDollar, Zenon
<1>8. Usage(m) # <<>>
  <2>1. Len(NomVariable(m)) = Len(m) - p
    BY <1>1, NomEst
  <2>2. Len(m) - p # 0 /\ Len(<<>>) = 0
    BY <1>2
  <2> QED
    BY <1>7, <2>1, <2>2
<1> QED
  BY <1>1, <1>3, <1>5, <1>6, <1>7, <1>8

\* A word that a reader sees use a variable has the schema, and that name.
LEMMA UsageAppelee ==
  ASSUME NEW T, NEW m \in Seq(T), Appelle(m)
  PROVE  /\ Schema(m) /\ NomVariable(m) = Usage(m)
         /\ PlaceVariable(m) = Premier(m, Dollar) /\ Premier(m, Dollar) # 0
<1> PICK d, a, u : d = Premier(m, Dollar) /\ a = Avant(m, Dollar) /\ u = Usage(m)
  OBVIOUS
<1>1. u # <<>> /\ Lettre(u[1]) /\ a # <<>> /\ EstBlanc(Last(a))
  BY UsageDollar DEF Appelle, EstBlanc
<1>2. /\ d \in 0 .. Len(m) /\ Len(m) \in Nat
      /\ d # 0 => m[d] = Dollar
      /\ d # 0 => \A k \in 1 .. d - 1 : m[k] # Dollar
  BY PremierEst, LenProperties
<1>3. /\ a \in Seq(T) /\ u \in Seq(T)
      /\ d = 0 => u = <<>>
      /\ d # 0 => /\ Len(a) = d - 1 /\ \A k \in 1 .. d - 1 : a[k] = m[k]
                  /\ Len(u) = Len(m) - d /\ \A k \in 1 .. Len(m) - d : u[k] = m[d + k]
  BY Morceaux, UsageDollar
<1>4. d # 0
  BY <1>1, <1>3
<1>5. Len(a) # 0 /\ Len(u) # 0
  BY <1>1, <1>3, EmptySeq
<1>6. /\ d - 1 \in 1 .. Len(m) - 2 /\ (d - 1) + 1 = d /\ (d - 1) + 2 = d + 1
      /\ 1 \in 1 .. Len(m) - d /\ d - 1 \in 1 .. d - 1 /\ d \in 1 .. Len(m) /\ d # 1
  BY <1>2, <1>3, <1>4, <1>5
<1>7. EstBlanc(m[d - 1]) /\ m[d] = Dollar /\ Lettre(m[d + 1])
  <2>1. Last(a) = a[d - 1] /\ a[d - 1] = m[d - 1]
    BY <1>3, <1>4, <1>6 DEF Last
  <2>2. u[1] = m[d + 1]
    BY <1>3, <1>4, <1>6
  <2> QED
    BY <1>1, <1>2, <1>4, <2>1, <2>2, Zenon
<1>8. Schema(m)
  <2>1. Vue(m, d - 1)
    BY <1>6, <1>7, Signes3, Zenon DEF Vue
  <2> QED
    BY <1>6, <2>1, SchemaEst
<1>9. PICK p \in 1 .. Len(m) - 1 :
          /\ p = PlaceVariable(m) /\ Appelable(m, p)
          /\ \A k \in 1 .. p - 1 : ~Appelable(m, k)
  BY <1>8, PlaceEst
<1>10. p = d
  <2>1. m[p] = Dollar
    BY <1>9, Signes3 DEF Appelable
  <2>2. ~(p < d)
    BY <1>2, <1>4, <1>9, <2>1
  <2>3. Appelable(m, d)
    BY <1>7, Signes3, Zenon DEF Appelable
  <2>4. ~(d < p)
    BY <1>6, <1>9, <2>3
  <2> QED
    BY <1>6, <1>9, <2>2, <2>4
<1>11. NomVariable(m) = Usage(m)
  <2>1. NomVariable(m) = SubSeq(m, d + 1, Len(m))
    BY <1>9, <1>10 DEF NomVariable
  <2>2. Apres(m, Dollar) = SubSeq(m, d + 1, Len(m))
    BY <1>4, AvantApres
  <2> QED
    BY <2>1, <2>2, UsageDollar, Zenon
<1> QED
  BY <1>4, <1>8, <1>9, <1>10, <1>11

\* The word once its variable is replaced: what was before, and the value.
Remplace(m, v, a, b) ==
    /\ ParValeur(m, v) = a \o b
    /\ Len(a) = PlaceVariable(m) - 1 /\ Len(a) >= 1 /\ Len(b) >= 1
    /\ \A k \in 1 .. Len(a) : a[k] = m[k]
    /\ b = v \/ Len(b) = 1

LEMMA ParValeurEst ==
  ASSUME NEW T, NEW m \in Seq(T), Schema(m), ~Schema(NomVariable(m)), NEW v \in Seq(T)
  PROVE  \E a, b \in Seq(T) : Remplace(m, v, a, b)
<1> PICK p : p = PlaceVariable(m)
  OBVIOUS
<1>1. p \in 2 .. Len(m) - 1 /\ Len(m) \in Nat
  BY NomSeul, LenProperties
<1> DEFINE a == SubSeq(m, 1, p - 1)
           b == IF v = <<>> THEN <<Last(m)>> ELSE v
<1>2. ParValeur(m, v) = a \o b
  BY DEF ParValeur
<1>3. a \in Seq(T) /\ Len(a) = p - 1 /\ \A k \in 1 .. p - 1 : a[k] = m[k]
  BY <1>1, SubSeqProperties, ElementOfSeq
<1>4. b \in Seq(T) /\ (b = v \/ Len(b) = 1) /\ Len(b) >= 1
  <2>1. CASE v = <<>>
    <3>1. Last(m) \in T
      BY <1>1, ElementOfSeq DEF Last
    <3>2. <<Last(m)>> \in Seq(T) /\ Len(<<Last(m)>>) = 1
      BY <3>1, Tuples
    <3> QED
      BY <2>1, <3>2
  <2>2. CASE v # <<>>
    <3>1. Len(v) # 0 /\ Len(v) \in Nat
      BY <2>2, EmptySeq, LenProperties
    <3> QED
      BY <2>2, <3>1
  <2> QED
    BY <2>1, <2>2
<1>5. Len(a) >= 1
  BY <1>1, <1>3
<1> HIDE DEF a, b
<1>6. Remplace(m, v, a, b)
  BY <1>2, <1>3, <1>4, <1>5 DEF Remplace
<1> QED
  BY <1>3, <1>4, <1>6

LEMMA ParValeurType ==
  ASSUME NEW T, NEW m \in Seq(T), Schema(m), ~Schema(NomVariable(m)), NEW v \in Seq(T)
  PROVE  ParValeur(m, v) \in Seq(T) /\ Len(ParValeur(m, v)) >= 2
<1> PICK a, b \in Seq(T) : Remplace(m, v, a, b)
  BY ParValeurEst
<1>1. ParValeur(m, v) = a \o b /\ Len(a) >= 1 /\ Len(b) >= 1
  BY DEF Remplace
<1>2. a \o b \in Seq(T) /\ Len(a \o b) = Len(a) + Len(b)
  BY ConcatProperties
<1>3. Len(a) \in Nat /\ Len(b) \in Nat
  BY LenProperties
<1> QED
  BY <1>1, <1>2, <1>3

\* No variable comes but from the value.
LEMMA UsageSuite ==
  ASSUME NEW T, NEW m \in Seq(T), Schema(m), ~Schema(NomVariable(m)), ~Schema(Usage(m)),
         NEW v \in Seq(T)
  PROVE  Usage(ParValeur(m, v)) = <<>> \/ Usage(ParValeur(m, v)) = Usage(v)
<1> PICK a, b \in Seq(T) : Remplace(m, v, a, b)
  BY ParValeurEst
<1>1. /\ ParValeur(m, v) = a \o b
      /\ Len(a) = PlaceVariable(m) - 1
      /\ \A k \in 1 .. Len(a) : a[k] = m[k]
      /\ b = v \/ Len(b) = 1
  BY DEF Remplace
<1>2. \A k \in 1 .. Len(a) : a[k] # Dollar
  BY <1>1, UsageSeule
<1>3. Usage(ParValeur(m, v)) = Apres(b, Dollar)
  BY <1>1, <1>2, ApresColle, UsageDollar
<1>4. CASE b = v
  BY <1>3, <1>4, UsageDollar
<1>5. CASE Len(b) = 1
  <2> PICK n : n = Premier(b, Dollar)
    OBVIOUS
  <2>1. n \in 0 .. Len(b)
    BY PremierEst
  <2>2. CASE n = 0
    BY <1>3, <2>2, Morceaux
  <2>3. CASE n # 0
    <3>1. Len(Apres(b, Dollar)) = Len(b) - n /\ Apres(b, Dollar) \in Seq(T)
      BY <2>3, Morceaux
    <3>2. Len(b) - n = 0
      BY <1>5, <2>1, <2>3
    <3> QED
      BY <1>3, <3>1, <3>2, EmptySeq
  <2> QED
    BY <2>2, <2>3
<1> QED
  BY <1>1, <1>4, <1>5

-----------------------------------------------------------------------------
(* The characters of the words are the line's, but for those that cut it.  *)
Coupants == {";", "\n"}
Communs == Caracteres \ Coupants
Paroles == Seq(Communs)
Provenance == \A k \in Rangs : Lus[k] \in Seq(Range(commande) \ Coupants)

LEMMA LettreDeLigne ==
  ASSUME commande \in Seq(Caracteres), NEW p \in 1 .. Len(commande)
  PROVE  commande[p] \in Range(commande)
<1>1. DOMAIN commande = 1 .. Len(commande)
  BY LenProperties
<1> QED
  BY <1>1 DEF Range

LEMMA ProvenanceInit == Init => Provenance
<1> SUFFICES ASSUME Init, NEW k \in Rangs PROVE Lus[k] \in Seq(Range(commande) \ Coupants)
  BY DEF Provenance
<1>1. Lus[k] = Chaine(<<>>)
  BY DEF Init, Lus
<1>2. Chaine(<<>>) = <<>> /\ <<>> \in Seq(Range(commande) \ Coupants)
  BY EmptySeq, ChaineEntiere
<1> QED
  BY <1>1, <1>2

LEMMA ProvenancePas == Bornes /\ Curseur /\ Provenance /\ [Next]_vars => Provenance'
<1> SUFFICES ASSUME Bornes, Curseur, Provenance, [Next]_vars PROVE Provenance'
  OBVIOUS
<1> DEFINE S == Range(commande) \ Coupants
<1>0. commande' = commande
  BY LigneFixe DEF vars
<1>1. /\ commande \in Seq(Caracteres) /\ i \in Nat /\ Len(commande) \in Nat
      /\ indexCommandes \in Rangs
  BY DansLigne DEF Bornes, Ligne
<1>2. \A p \in 1 .. Len(commande) : commande[p] \notin Coupants => commande[p] \in S
  BY <1>1, LettreDeLigne
<1>3. Courant \in Seq(S) /\ Lus[indexCommandes] = Courant
  BY LusEst DEF Provenance
<1> HIDE DEF S
<1> SUFFICES \A k \in Rangs : Lus'[k] \in Seq(S)
  BY <1>0 DEF Provenance, S
<1>4. \A k \in Rangs : Lus[k] \in Seq(S)
  BY DEF Provenance, S
<1>5. CASE CouperDouble
  <2> PICK x, s : x = indexCommandes + 1 /\ s = <<commande[i + 1], commande[i + 2]>>
    OBVIOUS
  <2>1. Lus'[x] = s /\ \A k \in Rangs : k # x => Lus'[k] = Lus[k]
    BY <1>5, LusDouble
  <2>2. i + 2 <= Len(commande)
    BY <1>5, DoublePas, Zenon
  <2>3. i + 1 \in 1 .. Len(commande) /\ i + 2 \in 1 .. Len(commande)
    BY <1>1, <2>2
  <2>4. commande[i + 1] \in S /\ commande[i + 2] \in S
    <3>1. commande[i + 1] \in {"|", "&"} /\ commande[i + 2] \in {"|", "&"}
      BY <1>5, DoublePas, Zenon
    <3>2. commande[i + 1] \notin Coupants /\ commande[i + 2] \notin Coupants
      BY ONLY <3>1 DEF Coupants
    <3> QED
      BY <1>2, <2>3, <3>2
  <2>5. s \in Seq(S)
    BY <2>4, Tuples
  <2> QED
    BY <1>4, <2>1, <2>5
<1>6. CASE CouperTube
  <2> PICK n : n = indexCommandes
    OBVIOUS
  <2>1. /\ Lus'[n + 1] = Tube
        /\ \/ Lus'[n] = Courant
           \/ i > 0 /\ j = i /\ Lus'[n] = SubSeq(Courant, 1, i - 1)
        /\ \A k \in Rangs : k # n /\ k # n + 1 => Lus'[k] = Lus[k]
    BY <1>6, LusTube
  <2>2. Tube \in Seq(S)
    <3>1. Tube = <<commande[i + 1]>> /\ i + 2 <= Len(commande)
      BY <1>6, TubePas DEF Tube
    <3>2. i + 1 \in 1 .. Len(commande)
      <4>1. i + 2 <= Len(commande)
        BY <3>1
      <4> QED
        BY <1>1, <4>1
    <3>3. commande[i + 1] \notin Coupants
      BY <1>6, TubePas, Zenon DEF Coupants
    <3>4. commande[i + 1] \in S
      BY <1>2, <3>2, <3>3
    <3> QED
      BY <3>1, <3>4, Tuples
  <2>3. Lus'[n] \in Seq(S)
    <3>1. CASE i > 0 /\ j = i /\ Lus'[n] = SubSeq(Courant, 1, i - 1)
      <4>1. i - 1 \in 0 .. Len(Courant) /\ 1 \in 1 .. Len(Courant) + 1
        BY <1>1, <3>1 DEF Curseur
      <4>2. \A k \in 1 .. i - 1 : Courant[k] \in S
        <5>1. \A k \in 1 .. i - 1 : k \in 1 .. Len(Courant)
          BY <4>1
        <5> QED
          BY <1>3, <5>1, ElementOfSeq
      <4>3. SubSeq(Courant, 1, i - 1) \in Seq(S)
        BY <1>3, <4>1, <4>2, SubSeqProperties
      <4> QED
        BY <3>1, <4>3
    <3> QED
      BY <1>3, <2>1, <3>1
  <2> QED
    BY <1>4, <2>1, <2>2, <2>3, Zenon
<1>7. ASSUME NEW mot \in Seq(Caracteres), Grandit(mot), mot \in Seq(S)
      PROVE  \A k \in Rangs : Lus'[k] \in Seq(S)
  BY <1>4, <1>7, LusGrandit
<1>8. CASE Rediriger
  <2>1. Grandit(Courant \o Direction) /\ i + 3 <= Len(commande)
    BY <1>8, RedirigerPas, Zenon
  <2>2. Suit(Direction)
    BY <1>8 DEF Rediriger
  <2>3. /\ Direction \in Seq(Caracteres) /\ Direction = <<commande[i + 1], commande[i + 2], commande[i + 3]>>
    BY <2>2, DirectionEst DEF Direction
  <2>4. i + 1 \in 1 .. Len(commande) /\ i + 2 \in 1 .. Len(commande) /\ i + 3 \in 1 .. Len(commande)
    BY <1>1, <2>1
  <2>5. Direction \in Seq(S)
    <3>1. commande[i + 1] = " " /\ commande[i + 2] = ">" /\ commande[i + 3] = " "
      BY <2>2, DirectionEst
    <3>2. /\ commande[i + 1] \notin Coupants /\ commande[i + 2] \notin Coupants
          /\ commande[i + 3] \notin Coupants
      BY ONLY <3>1 DEF Coupants
    <3>3. commande[i + 1] \in S /\ commande[i + 2] \in S /\ commande[i + 3] \in S
      BY <1>2, <2>4, <3>2
    <3> QED
      BY <2>3, <3>3, Tuples
  <2>6. Courant \o Direction \in Seq(S)
    BY <1>3, <2>5, ConcatProperties
  <2>7. Courant \o Direction \in Seq(Caracteres)
    BY <2>3, ConcatProperties DEF Curseur
  <2> QED
    BY <1>7, <2>1, <2>6, <2>7
<1>9. CASE Copier
  <2>1. i < Len(commande) /\ (Passe \/ Ecrit)
    BY <1>9, CopierPas, Zenon
  <2>2. CASE Passe
    <3>1. Lus' = Lus
      BY <2>2 DEF Passe, Lus
    <3> QED
      BY <1>4, <3>1
  <2>3. CASE Ecrit
    <3>1. i + 1 \in 1 .. Len(commande)
      BY <1>1, <2>1
    <3>2. commande[i + 1] \in S /\ commande[i + 1] \in Caracteres
      <4>1. commande[i + 1] \notin Coupants
        BY <1>9, CopierPas, Zenon DEF Coupants
      <4> QED
        BY <1>1, <1>2, <3>1, <4>1, ElementOfSeq
    <3>3. Append(Courant, commande[i + 1]) \in Seq(S)
      BY <1>3, <3>2, AppendProperties
    <3>4. Append(Courant, commande[i + 1]) \in Seq(Caracteres)
      BY <3>2, AppendProperties DEF Curseur
    <3> QED
      BY <1>7, <2>3, <3>3, <3>4 DEF Ecrit
  <2> QED
    BY <2>1, <2>2, <2>3
<1>10. CASE PasserRetourLigne \/ Couper \/ Finir \/ UNCHANGED vars
  <2>1. Lus' = Lus
    BY <1>10 DEF PasserRetourLigne, Couper, Finir, vars, Lus
  <2> QED
    BY <1>4, <2>1
<1> QED
  BY <1>5, <1>6, <1>8, <1>9, <1>10 DEF Next, Etape

\* A line that is typed.
LEMMA InitLigne ==
  Init' => (Bornes /\ Curseur /\ Aucune /\ Coupee /\ Gardee /\ Provenance)'
<1>1. Init => Bornes /\ Curseur /\ Aucune /\ Coupee /\ Gardee /\ Provenance
  BY InitEtat, AucuneInit, CoupeeInit, GardeeInit, ProvenanceInit
<1> QED
  BY <1>1, PTL

-----------------------------------------------------------------------------
(* The invariant of a session.  What a variable is called is a piece of a  *)
(* word that has none left to replace.                                     *)
Noms == {n \in Paroles : ~Schema(n)}
Environs == UNION {[D -> Paroles] : D \in SUBSET Noms}
Etats == [env : Environs, rep : Repertoires]
Sous == <<"ts">>

Session ==
    /\ phase \in {"demande", "coupe", "remplace", "execute", "attend", "fini", "mort"}
    /\ environ \in Environs /\ repertoire \in Repertoires /\ debut \in Etats
    /\ pile \in Seq(Etats) /\ Len(pile) <= MaxPile
    /\ fils # <<>> => fils[1] \in Etats /\ Len(pile) < MaxPile
    /\ nbCommandes \in Nat /\ rang \in 0 .. nbCommandes
    /\ DOMAIN commandeSansEspaces = Rangs

\* Nothing of the line has been executed.
Neuve == debut = Etat /\ fils = <<>> /\ appels = <<>>

Vierge ==
    /\ commande = <<>> /\ i = 0 /\ j = 0 /\ nbEspace = 0 /\ indexCommandes = 0
    /\ commandeSansEspaces = [k \in Rangs |-> <<>>] /\ nbCommandes = 0 /\ rang = 0

\* The invariants of gererChaine.
Tapee ==
    /\ Bornes /\ Curseur /\ Aucune /\ Coupee /\ Gardee /\ Provenance
    /\ Sous[1] \in Range(commande) => Len(pile) < MaxPile
    /\ rang = 0

\* The words, and that there is room for the shells they start.
Lue ==
    /\ commandeSansEspaces \in [Rangs -> Seq(Octets)] /\ nbCommandes \in 1 .. sizelgcmd
    /\ lus \in Seq(Paroles) /\ Len(lus) = nbCommandes
    /\ \A k \in Rangs : Lus[k] \in Paroles
    /\ \A k \in Rangs : k >= nbCommandes => Lus[k] = <<>>
    /\ \A k \in Rangs : Lus[k] = Sous => Len(pile) < MaxPile

Definie(mot, env) == Appelle(mot) => Usage(mot) \in DOMAIN env
Toutes == Nommees \ {<<>>} \subseteq DOMAIN environ

\* The words before rang are done, those after it are as they were read, and
\* the one at rang has only the variables that are named in the line or by
\* the value of another.
Remplacees ==
    /\ \A k \in Rangs : k < rang => ~Schema(Lus[k]) /\ Definie(lus[k + 1], environ)
    /\ \A k \in Rangs : rang < k /\ k < nbCommandes => Lus[k] = lus[k + 1]
    /\ rang < nbCommandes =>
           /\ Lus[rang] = lus[rang + 1] \/ Definie(lus[rang + 1], environ)
           /\ Toutes => Usage(Lus[rang]) \in Nommees \cup {<<>>}

Executables ==
    /\ \A k \in Rangs : ~Schema(Lus[k])
    /\ \A k \in 1 .. Len(lus) : Definie(lus[k], debut.env)

SessionInv ==
    /\ Session
    /\ phase = "demande" => Vierge /\ Neuve
    /\ phase = "coupe" => Tapee /\ Neuve
    /\ phase \in {"remplace", "execute", "attend"} => Lue
    /\ phase = "remplace" => Remplacees /\ Neuve
    /\ phase = "mort" => Neuve /\ ~Toutes
    /\ phase \in {"execute", "attend"} => Executables

LEMMA ParolesTextes == \A m \in Paroles : m \in Seq(Caracteres)
  BY SeqMonotonic DEF Paroles, Communs

LEMMA EnvironEst ==
  \A e : e \in Environs <=> /\ e = [n \in DOMAIN e |-> e[n]] /\ DOMAIN e \subseteq Noms
                            /\ \A n \in DOMAIN e : e[n] \in Paroles
<1> TAKE e
<1>1. ASSUME e \in Environs
      PROVE  /\ e = [n \in DOMAIN e |-> e[n]] /\ DOMAIN e \subseteq Noms
             /\ \A n \in DOMAIN e : e[n] \in Paroles
  BY <1>1 DEF Environs
<1>2. ASSUME e = [n \in DOMAIN e |-> e[n]], DOMAIN e \subseteq Noms,
             \A n \in DOMAIN e : e[n] \in Paroles
      PROVE  e \in Environs
  <2>1. e \in [DOMAIN e -> Paroles]
    BY <1>2
  <2> QED
    BY <1>2, <2>1, Zenon DEF Environs
<1> QED
  BY <1>1, <1>2

LEMMA VideSansSchema == <<>> \in Paroles /\ ~Schema(<<>>) /\ Usage(<<>>) = <<>>
<1>1. <<>> \in Paroles
  BY EmptySeq DEF Paroles
<1>2. Len(<<>>) = 0
  OBVIOUS
<1>3. ~Schema(<<>>)
  BY <1>2, SchemaEst
<1>4. Apres(<<>>, Dollar) = <<>>
  <2>1. Premier(<<>>, Dollar) = 0
    <3>1. Premier(<<>>, Dollar) \in 0 .. 0
      BY <1>1, <1>2, PremierEst DEF Paroles
    <3> QED
      BY <3>1
  <2> QED
    BY <2>1, AvantApres
<1> QED
  BY <1>1, <1>3, <1>4, UsageDollar

LEMMA SetenvEst ==
  ASSUME environ \in Environs, NEW nom \in Noms, NEW v \in Paroles
  PROVE  Setenv(nom, v) \in Environs
<1>1. /\ DOMAIN environ \subseteq Noms /\ \A n \in DOMAIN environ : environ[n] \in Paroles
  BY EnvironEst, Zenon
<1>2. CASE nom = <<>>
  BY <1>2 DEF Setenv
<1>3. CASE nom # <<>>
  <2> PICK D : D = DOMAIN environ \cup {nom}
    OBVIOUS
  <2> DEFINE e == [n \in D |-> IF n = nom THEN v ELSE environ[n]]
  <2>1. Setenv(nom, v) = e
    BY <1>3, Zenon DEF Setenv
  <2>2. DOMAIN e = D /\ e = [n \in DOMAIN e |-> e[n]] /\ D \subseteq Noms
    BY <1>1
  <2>3. \A n \in D : e[n] \in Paroles
    BY <1>1
  <2> HIDE DEF e
  <2> QED
    BY <2>1, <2>2, <2>3, EnvironEst, Zenon
<1> QED
  BY <1>2, <1>3

LEMMA DelEst ==
  ASSUME environ \in Environs, NEW nom
  PROVE  [n \in DOMAIN environ \ {nom} |-> environ[n]] \in Environs
<1>1. /\ DOMAIN environ \subseteq Noms /\ \A n \in DOMAIN environ : environ[n] \in Paroles
  BY EnvironEst, Zenon
<1> PICK D : D = DOMAIN environ \ {nom}
  OBVIOUS
<1> DEFINE e == [n \in D |-> environ[n]]
<1>2. DOMAIN e = D /\ e = [n \in DOMAIN e |-> e[n]] /\ D \subseteq Noms
      /\ \A n \in D : e[n] \in Paroles
  BY <1>1
<1> HIDE DEF e
<1>3. e \in Environs
  BY <1>2, EnvironEst, Zenon
<1> QED
  BY <1>3, Zenon DEF e

LEMMA MotsDeLigne ==
  ASSUME Lue
  PROVE  \A k \in Rangs : Lus[k] \in Paroles /\ Lus[k] = Chaine(commandeSansEspaces[k])
  BY DEF Lus, Lue

\* The name and the value of set are pieces of a word.
LEMMA SansAppelEst ==
  ASSUME Lue, Executables, rang \in Nat
  PROVE  SansAppel \in Noms
<1>1. CASE Ici = {}
  BY <1>1, VideSansSchema DEF SansAppel, Noms
<1>2. CASE Ici # {}
  <2>1. Ici \subseteq Rangs /\ Rangs \subseteq Nat
    <3>1. Ici \subseteq Rangs
      BY Zenon DEF Ici
    <3>2. Rangs \subseteq Nat
      BY ChaineAssumption DEF Rangs
    <3> QED
      BY <3>1, <3>2
  <2>2. Ici \subseteq Nat
    BY <2>1
  <2>3. Min(Ici) \in Ici
    BY <1>2, <2>2, Moindre, Zenon
  <2> PICK k : k = Min(Ici)
    OBVIOUS
  <2>4. k \in Rangs
    BY <2>1, <2>3
  <2>5. Lus[k] \in Seq(Communs) /\ ~Schema(Lus[k])
    BY <2>4, MotsDeLigne DEF Executables, Paroles
  <2> PICK c : c = " "
    OBVIOUS
  <2>6. SansAppel = Apres(Lus[k], c)
    BY <1>2, <2>4, MotsDeLigne, Zenon DEF SansAppel
  <2>7. Apres(Lus[k], c) \in Seq(Communs) /\ ~Schema(Apres(Lus[k], c))
    <3> PICK n : n = Premier(Lus[k], c)
      OBVIOUS
    <3> QED
      BY <2>5, Morceaux, SchemaMorceaux, Zenon
  <2> QED
    BY <2>6, <2>7 DEF Noms, Paroles
<1> QED
  BY <1>1, <1>2

LEMMA MorceauNom ==
  ASSUME NEW s \in Noms, NEW c
  PROVE  Avant(s, c) \in Noms /\ Apres(s, c) \in Noms
<1> PICK n : n = Premier(s, c)
  OBVIOUS
<1>1. s \in Seq(Communs) /\ ~Schema(s)
  BY DEF Noms, Paroles
<1>2. /\ Avant(s, c) \in Seq(Communs) /\ Apres(s, c) \in Seq(Communs)
      /\ ~Schema(Avant(s, c)) /\ ~Schema(Apres(s, c))
  BY <1>1, Morceaux, SchemaMorceaux, Zenon
<1> QED
  BY <1>2 DEF Noms, Paroles

-----------------------------------------------------------------------------
(* Each step of a session.                                                 *)
LEMMA SessionDepart == SessionInit => SessionInv
<1> SUFFICES ASSUME SessionInit PROVE SessionInv
  OBVIOUS
<1>1. environ \in Environs
  <2>1. DOMAIN << >> = {} /\ << >> = [n \in {} |-> << >>[n]]
    OBVIOUS
  <2>2. << >> \in Environs
    BY <2>1, EnvironEst, Zenon
  <2> QED
    BY <2>2 DEF SessionInit
<1>2. Etat \in Etats /\ repertoire \in Repertoires
  BY <1>1, TexteAssumption DEF SessionInit, Etat, Etats
<1>3. Session
  <2>1. pile \in Seq(Etats) /\ Len(pile) <= MaxPile
    BY EmptySeq, TexteAssumption DEF SessionInit
  <2>2. nbCommandes \in Nat /\ rang \in 0 .. nbCommandes
    BY DEF SessionInit
  <2>3. DOMAIN commandeSansEspaces = Rangs
    BY DEF SessionInit
  <2> QED
    BY <1>1, <1>2, <2>1, <2>2, <2>3, Zenon DEF Session, SessionInit
<1>4. Vierge /\ Neuve
  BY DEF SessionInit, Vierge, Neuve
<1> QED
  BY <1>3, <1>4 DEF SessionInv, SessionInit

LEMMA EtatMeme == UNCHANGED <<environ, repertoire>> => Etat' = Etat
  BY DEF Etat

LEMMA DemanderPas ==
  ASSUME SessionInv, Demander
  PROVE  SessionInv'
<1>1. phase = "demande" /\ phase' = "coupe" /\ Session /\ Vierge /\ Neuve
  BY DEF Demander, SessionInv
<1>2. /\ UNCHANGED <<i, j, nbEspace, indexCommandes, commandeSansEspaces, nbCommandes>>
      /\ UNCHANGED session
  BY DEF Demander
<1>3. /\ commande' \in Lignes
      /\ "ts" \in Range(commande') => Len(pile) < MaxPile
  BY DEF Demander
<1>4. Init'
  BY <1>1, <1>2, <1>3, Zenon DEF Init, Vierge
<1>5. UNCHANGED <<rang, environ, repertoire, pile, fils, debut, lus, appels>>
  BY <1>2 DEF session
<1>6. Tapee'
  <2>1. Sous[1] = "ts"
    BY DEF Sous
  <2>2. Sous[1] \in Range(commande') => Len(pile') < MaxPile
    BY <1>3, <1>5, <2>1, Zenon
  <2>3. rang' = 0
    BY <1>1, <1>5 DEF Vierge
  <2> QED
    BY <1>4, <2>2, <2>3, InitLigne, Zenon DEF Tapee
<1>7. Neuve'
  BY <1>1, <1>5, EtatMeme, Zenon DEF Neuve
<1>8. Session'
  BY <1>1, <1>2, <1>5 DEF Session
<1> QED
  BY <1>1, <1>6, <1>7, <1>8 DEF SessionInv

LEMMA GererPas ==
  ASSUME SessionInv, Gerer
  PROVE  SessionInv'
<1>1. phase = "coupe" /\ phase' = "coupe" /\ Session /\ Tapee /\ Neuve
  BY DEF Gerer, SessionInv
<1>2. Etape /\ UNCHANGED session
  BY DEF Gerer
<1>3. Next /\ [Next]_vars
  BY <1>2 DEF Next
<1>4. UNCHANGED <<rang, environ, repertoire, pile, fils, debut, lus, appels>>
  BY <1>2 DEF session
<1>5. /\ Bornes /\ Curseur /\ Aucune /\ Coupee /\ Gardee /\ Provenance /\ rang = 0
      /\ Sous[1] \in Range(commande) => Len(pile) < MaxPile
  BY <1>1 DEF Tapee
<1>6. Bornes' /\ Curseur' /\ Aucune' /\ Coupee' /\ Gardee' /\ Provenance'
  BY <1>3, <1>5, PasEtat, AucunePas, CoupeePas, GardeePas, ProvenancePas, Zenon
<1>7. commande' = commande
  BY <1>3, LigneFixe
<1>8. Tapee'
  BY <1>4, <1>5, <1>6, <1>7, Zenon DEF Tapee
<1>9. Neuve'
  BY <1>1, <1>4, EtatMeme, Zenon DEF Neuve
<1>10. Session'
  <2>1. nbCommandes' \in Nat /\ rang' \in 0 .. nbCommandes'
    BY <1>4, <1>5, <1>6 DEF Bornes
  <2>2. DOMAIN commandeSansEspaces' = Rangs
    BY <1>6 DEF Curseur
  <2> QED
    BY <1>1, <1>4, <2>1, <2>2 DEF Session
<1> QED
  BY <1>1, <1>8, <1>9, <1>10 DEF SessionInv

\* What is read of a line that has been cut.
LEMMA MotsLus ==
  ASSUME Bornes, Curseur, Provenance, Fini
  PROVE  /\ nbCommandes \in 1 .. sizelgcmd /\ nbCommandes = indexCommandes + 1
         /\ Mots \in Seq(Paroles) /\ Len(Mots) = nbCommandes
         /\ \A k \in Rangs : k < nbCommandes => Mots[k + 1] = Lus[k]
         /\ \A k \in Rangs : k >= nbCommandes => Lus[k] = <<>>
         /\ \A k \in Rangs : Lus[k] \in Paroles
<1>1. /\ nbCommandes = indexCommandes + 1 /\ nbCommandes \in 1 .. sizelgcmd
      /\ indexCommandes \in Nat /\ sizelgcmd \in Nat
  BY DansLigne DEF Bornes, Rangs
<1>2. \A k \in 1 .. nbCommandes : k - 1 \in Rangs
  BY <1>1 DEF Rangs
<1>7. \A k \in Rangs : Lus[k] \in Paroles
  <2>1. Range(commande) \subseteq Caracteres
    BY ElementOfSeq, LenProperties DEF Bornes, Ligne, Range
  <2>2. Range(commande) \ Coupants \subseteq Communs
    BY <2>1 DEF Communs
  <2> QED
    BY <2>2, SeqMonotonic DEF Provenance, Paroles
<1>3. \A k \in 1 .. nbCommandes : Chaine(commandeSansEspaces[k - 1]) \in Paroles
  <2>1. \A k \in 1 .. nbCommandes : Lus[k - 1] \in Paroles
    BY <1>2, <1>7
  <2> QED
    BY <1>2, <2>1, LusEst
<1>4. Mots \in Seq(Paroles) /\ Len(Mots) = nbCommandes
  <2>1. Mots \in [1 .. nbCommandes -> Paroles]
    BY <1>3 DEF Mots
  <2> QED
    BY <1>1, <2>1, SeqDef
<1>5. ASSUME NEW k \in Rangs, k < nbCommandes PROVE Mots[k + 1] = Lus[k]
  <2>1. k + 1 \in 1 .. nbCommandes /\ (k + 1) - 1 = k
    BY <1>1, <1>5 DEF Rangs
  <2>2. Mots[k + 1] = Chaine(commandeSansEspaces[(k + 1) - 1])
    BY <2>1 DEF Mots
  <2> QED
    BY <2>1, <2>2, LusEst
<1>6. \A k \in Rangs : k >= nbCommandes => Lus[k] = <<>>
  BY <1>1, LusEst DEF Rangs
<1> QED
  BY <1>1, <1>4, <1>5, <1>6, <1>7

LEMMA LirePas ==
  ASSUME SessionInv, Lire
  PROVE  SessionInv'
<1>1. phase = "coupe" /\ Session /\ Tapee /\ Neuve /\ Fini
  BY DEF Lire, SessionInv
<1>2. /\ UNCHANGED vars /\ lus' = Mots /\ phase' \in {"fini", "remplace"}
      /\ UNCHANGED <<rang, environ, repertoire, pile, fils, debut, appels>>
  BY DEF Lire
<1>3. /\ Bornes /\ Curseur /\ Provenance /\ rang = 0
      /\ Sous[1] \in Range(commande) => Len(pile) < MaxPile
  BY <1>1 DEF Tapee
<1>4. UNCHANGED <<commandeSansEspaces, nbCommandes, Lus>>
  BY <1>2 DEF vars, Lus
<1>5. Lue'
  <2>1. ASSUME NEW k \in Rangs, Lus[k] = Sous PROVE Len(pile) < MaxPile
    <3>1. Lus[k] \in Seq(Range(commande) \ Coupants) /\ Len(Sous) = 1
      BY <1>3 DEF Provenance, Sous
    <3>2. Sous[1] \in Range(commande)
      <4>1. 1 \in 1 .. Len(Sous) /\ Sous \in Seq(Range(commande) \ Coupants)
        BY <2>1, <3>1
      <4> QED
        BY <4>1, ElementOfSeq
    <3> QED
      BY <1>3, <3>2
  <2>2. /\ nbCommandes \in 1 .. sizelgcmd /\ Mots \in Seq(Paroles) /\ Len(Mots) = nbCommandes
        /\ \A k \in Rangs : k >= nbCommandes => Lus[k] = <<>>
        /\ \A k \in Rangs : Lus[k] \in Paroles
    BY <1>1, <1>3, MotsLus
  <2>3. commandeSansEspaces \in [Rangs -> Seq(Octets)]
    BY <1>3 DEF Curseur
  <2>4. pile' = pile /\ lus' = Mots
    BY <1>2
  <2> QED
    BY <1>4, <2>1, <2>2, <2>3, <2>4, Zenon DEF Lue
<1>6. Neuve'
  BY <1>1, <1>2, EtatMeme, Zenon DEF Neuve
<1>7. Remplacees'
  <2>1. \A k \in Rangs : k < nbCommandes => Mots[k + 1] = Lus[k]
    BY <1>1, <1>3, MotsLus
  <2>2. lus' = Mots /\ rang' = 0 /\ Lus' = Lus /\ nbCommandes' = nbCommandes
    BY <1>2, <1>3, <1>4
  <2>3. \A k \in Rangs : ~(k < 0)
    BY DEF Rangs
  <2>4. /\ Lus[0] = Mots[0 + 1] /\ 0 + 1 \in 1 .. Len(Mots) /\ 0 + 1 = 1
    <3>1. 0 \in Rangs /\ 0 < nbCommandes /\ 0 + 1 \in 1 .. Len(Mots)
      BY <1>1, <1>3, MotsLus, ChaineAssumption DEF Rangs
    <3> QED
      BY <2>1, <3>1
  <2>5. Usage(Lus[0]) \in Nommees'
    <3>1. Nommees' = {Usage(Mots[k]) : k \in 1 .. Len(Mots)}
                     \cup {Usage(debut'.env[n]) : n \in DOMAIN debut'.env}
      BY <2>2 DEF Nommees
    <3> QED
      BY <2>4, <3>1
  <2>6. \A k \in Rangs : rang' < k /\ k < nbCommandes' => Lus'[k] = lus'[k + 1]
    BY <2>1, <2>2
  <2>7. \A k \in Rangs : k < rang' => ~Schema(Lus'[k]) /\ Definie(lus'[k + 1], environ')
    BY <2>2, <2>3
  <2>8. Lus'[rang'] = lus'[rang' + 1] /\ Usage(Lus'[rang']) \in Nommees' \cup {<<>>}
    BY <2>2, <2>4, <2>5
  <2> QED
    BY <2>6, <2>7, <2>8, Zenon DEF Remplacees
<1>8. Session'
  <2>1. rang' \in 0 .. nbCommandes' /\ nbCommandes' \in Nat
    BY <1>1, <1>2, <1>4 DEF Session
  <2>2. phase' \in {"demande", "coupe", "remplace", "execute", "attend", "fini", "mort"}
    BY <1>2
  <2> QED
    BY <1>1, <1>2, <1>4, <2>1, <2>2, Zenon DEF Session
<1> QED
  BY <1>2, <1>5, <1>6, <1>7, <1>8 DEF SessionInv

\* One word changes.
LEMMA MotEcrit ==
  ASSUME Lue, rang \in 0 .. nbCommandes, rang < nbCommandes,
         NEW mot \in Paroles, EcrireMot(mot)
  PROVE  /\ rang \in Rangs /\ rang + 1 \in 1 .. Len(lus)
         /\ commandeSansEspaces' \in [Rangs -> Seq(Octets)]
         /\ Lus'[rang] = mot /\ \A k \in Rangs : k # rang => Lus'[k] = Lus[k]
         /\ UNCHANGED <<nbCommandes, phase, rang, environ, repertoire, pile, fils,
                        debut, lus, appels>>
<1>1. rang \in Rangs /\ rang + 1 \in 1 .. Len(lus)
  BY ChaineAssumption DEF Lue, Rangs
<1>2. commandeSansEspaces \in [Rangs -> Seq(Octets)]
  BY DEF Lue
<1>3. mot \in Seq(Octets) /\ Chaine(mot) = mot
  BY ParolesTextes, SeqMonotonic, ChaineEntiere DEF Octets
<1>4. commandeSansEspaces' = [commandeSansEspaces EXCEPT ![rang] = mot]
  BY DEF EcrireMot
<1>5. /\ commandeSansEspaces' \in [Rangs -> Seq(Octets)]
      /\ commandeSansEspaces'[rang] = mot
      /\ \A k \in Rangs : k # rang => commandeSansEspaces'[k] = commandeSansEspaces[k]
  BY <1>1, <1>2, <1>3, <1>4
<1>6. Lus'[rang] = mot /\ \A k \in Rangs : k # rang => Lus'[k] = Lus[k]
  BY <1>1, <1>3, <1>5, LusPrime, MotsDeLigne
<1>7. UNCHANGED <<nbCommandes, phase, rang, environ, repertoire, pile, fils,
                  debut, lus, appels>>
  BY DEF EcrireMot, session
<1> QED
  BY <1>1, <1>5, <1>6, <1>7

\* The word that is read, when it has a variable.
LEMMA VariableDeMot ==
  ASSUME SessionInv, phase = "remplace", rang < nbCommandes, Schema(Mot)
  PROVE  /\ Session /\ Lue /\ Remplacees /\ Neuve /\ rang \in Rangs /\ Mot = Lus[rang]
         /\ Mot \in Paroles
         /\ Toutes => /\ ~Schema(Usage(Mot)) /\ NomVariable(Mot) = Usage(Mot)
                      /\ Defini(NomVariable(Mot))
<1>1. Session /\ Lue /\ Remplacees /\ Neuve
  BY DEF SessionInv
<1>2. rang \in Rangs
  BY <1>1, ChaineAssumption DEF Session, Lue, Rangs
<1>3. Mot = Lus[rang] /\ Mot \in Paroles
  BY <1>1, <1>2, MotsDeLigne DEF Mot
<1>4. ASSUME Toutes
      PROVE  /\ ~Schema(Usage(Mot)) /\ NomVariable(Mot) = Usage(Mot)
             /\ Defini(NomVariable(Mot))
  <2>1. DOMAIN environ \subseteq Noms
    BY <1>1, EnvironEst, Zenon DEF Session
  <2>2. Usage(Mot) \in Nommees \cup {<<>>}
    BY <1>1, <1>3, <1>4, Zenon DEF Remplacees
  <2>3. Usage(Mot) = <<>> \/ Usage(Mot) \in DOMAIN environ
    BY <1>4, <2>2 DEF Toutes
  <2>4. ~Schema(Usage(Mot))
    BY <2>1, <2>3, VideSansSchema DEF Noms
  <2>5. NomVariable(Mot) = Usage(Mot) /\ Usage(Mot) # <<>>
    BY <1>3, <2>4, UsageSeule DEF Paroles
  <2> QED
    BY <2>3, <2>4, <2>5 DEF Defini
<1> QED
  BY <1>1, <1>2, <1>3, <1>4

LEMMA SubstituerPas ==
  ASSUME SessionInv, Substituer
  PROVE  SessionInv'
<1>1. phase = "remplace" /\ rang < nbCommandes /\ Schema(Mot)
  BY DEF Substituer
<1>2. /\ Session /\ Lue /\ Remplacees /\ Neuve /\ rang \in Rangs /\ Mot = Lus[rang]
      /\ Mot \in Paroles
      /\ Toutes => /\ ~Schema(Usage(Mot)) /\ NomVariable(Mot) = Usage(Mot)
                   /\ Defini(NomVariable(Mot))
  BY <1>1, VariableDeMot, Zenon
<1> PICK nom : nom = NomVariable(Mot)
  OBVIOUS
<1>3. CASE ~Defini(nom) /\ phase' = "mort" /\ UNCHANGED <<vars, session>>
  <2>1. /\ UNCHANGED <<rang, environ, repertoire, pile, fils, debut, lus, appels>>
        /\ UNCHANGED <<nbCommandes, commandeSansEspaces>>
    BY <1>3 DEF vars, session
  <2>2. ~Toutes
    BY <1>2, <1>3
  <2>3. Neuve' /\ ~Toutes'
    <3>1. Toutes' = Toutes
      BY <2>1, Zenon DEF Toutes, Nommees
    <3>2. Neuve'
      BY <1>2, <2>1, EtatMeme, Zenon DEF Neuve
    <3> QED
      BY <2>2, <3>1, <3>2
  <2>4. Session'
    BY <1>2, <1>3, <2>1, Zenon DEF Session
  <2> QED
    BY <1>3, <2>3, <2>4 DEF SessionInv
<1>4. CASE Defini(nom) /\ EcrireMot(ParValeur(Mot, environ[nom]))
  <2> PICK v, mot : v = environ[nom] /\ mot = ParValeur(Mot, v)
    OBVIOUS
  <2>1. /\ DOMAIN environ \subseteq Noms /\ v \in Paroles /\ nom \in DOMAIN environ
        /\ ~Schema(nom)
    BY <1>2, <1>4, EnvironEst, Zenon DEF Session, Defini, Noms
  <2>2. mot \in Paroles /\ Len(mot) >= 2
    BY <1>1, <1>2, <2>1, ParValeurType DEF Paroles
  <2>3. /\ rang \in Rangs /\ rang + 1 \in 1 .. Len(lus)
        /\ commandeSansEspaces' \in [Rangs -> Seq(Octets)]
        /\ Lus'[rang] = mot /\ \A k \in Rangs : k # rang => Lus'[k] = Lus[k]
        /\ UNCHANGED <<nbCommandes, phase, rang, environ, repertoire, pile, fils,
                       debut, lus, appels>>
    <3>1. rang \in 0 .. nbCommandes /\ EcrireMot(mot)
      BY <1>2, <1>4 DEF Session
    <3> QED
      BY <1>1, <1>2, <2>2, <3>1, MotEcrit, Zenon
  <2>4. Lue'
    <3>1. mot # Sous
      <4>1. Len(Sous) = 1
        BY DEF Sous
      <4>2. Len(mot) \in Nat /\ Len(mot) >= 2
        <5>1. mot \in Seq(Communs)
          BY <2>2, Zenon DEF Paroles
        <5>2. Len(mot) \in Nat
          BY ONLY <5>1, LenProperties
        <5> QED
          BY <2>2, <5>2, Zenon
      <4> DEFINE n == Len(mot)
      <4>3. n # 1
        <5> HIDE DEF n
        <5>1. n \in Nat /\ n >= 2
          BY <4>2, Zenon DEF n
        <5> QED
          BY ONLY <5>1
      <4> QED
        BY ONLY <4>1, <4>3, Zenon
    <3>2. ASSUME NEW k \in Rangs, Lus'[k] = Sous PROVE Len(pile') < MaxPile
      BY <1>2, <2>3, <3>1, <3>2, Zenon DEF Lue
    <3>3. \A k \in Rangs : k >= nbCommandes' => Lus'[k] = <<>>
      <4>1. \A k \in Rangs : k >= nbCommandes => k # rang
        BY <1>1, <1>2 DEF Session
      <4>2. \A k \in Rangs : k >= nbCommandes => Lus[k] = <<>>
        BY <1>2 DEF Lue
      <4> QED
        BY <2>3, <4>1, <4>2
    <3>4. nbCommandes \in 1 .. sizelgcmd /\ lus \in Seq(Paroles) /\ Len(lus) = nbCommandes
      BY <1>2 DEF Lue
    <3>5. \A k \in Rangs : Lus'[k] \in Paroles
      BY <1>2, <2>2, <2>3 DEF Lue
    <3> QED
      BY <2>3, <3>2, <3>3, <3>4, <3>5, Zenon DEF Lue
  <2>5. Toutes' = Toutes /\ Nommees' = Nommees
    BY <2>3, Zenon DEF Toutes, Nommees
  <2>6. Remplacees'
    <3>1. /\ \A k \in Rangs : k < rang => ~Schema(Lus[k]) /\ Definie(lus[k + 1], environ)
          /\ \A k \in Rangs : rang < k /\ k < nbCommandes => Lus[k] = lus[k + 1]
          /\ Lus[rang] = lus[rang + 1] \/ Definie(lus[rang + 1], environ)
      BY <1>1, <1>2 DEF Remplacees
    <3>2. \A k \in Rangs : (k < rang \/ rang < k) => Lus'[k] = Lus[k]
      <4>1. \A k \in Rangs : (k < rang \/ rang < k) => k # rang
        BY <1>2 DEF Session
      <4> QED
        BY <2>3, <4>1
    <3>3. Definie(lus[rang + 1], environ)
      <4>1. CASE Lus[rang] = lus[rang + 1]
        <5> SUFFICES ASSUME Appelle(Mot) PROVE Usage(Mot) \in DOMAIN environ
          BY <1>2, <4>1 DEF Definie
        <5>1. NomVariable(Mot) = Usage(Mot)
          BY <1>2, UsageAppelee DEF Paroles
        <5> QED
          BY <2>1, <5>1
      <4> QED
        BY <3>1, <4>1
    <3>4. ASSUME Toutes PROVE Usage(mot) \in Nommees \cup {<<>>}
      <4>1. ~Schema(Usage(Mot)) /\ ~Schema(NomVariable(Mot))
        BY <1>2, <2>1, <3>4
      <4>2. Usage(mot) = <<>> \/ Usage(mot) = Usage(v)
        BY <1>1, <1>2, <2>1, <4>1, UsageSuite DEF Paroles
      <4>3. Usage(v) \in Nommees
        <5>1. debut.env = environ
          BY <1>2 DEF Neuve, Etat
        <5> QED
          BY <2>1, <5>1 DEF Nommees
      <4> QED
        BY <4>2, <4>3
    <3>5. \A k \in Rangs : k < rang' => ~Schema(Lus'[k]) /\ Definie(lus'[k + 1], environ')
      BY <2>3, <3>1, <3>2
    <3>6. \A k \in Rangs : rang' < k /\ k < nbCommandes' => Lus'[k] = lus'[k + 1]
      BY <2>3, <3>1, <3>2
    <3>7. /\ Definie(lus'[rang' + 1], environ')
          /\ Toutes' => Usage(Lus'[rang']) \in Nommees' \cup {<<>>}
      <4>1. rang' = rang /\ lus' = lus /\ environ' = environ
        BY <2>3
      <4> QED
        BY <2>3, <2>5, <3>3, <3>4, <4>1
    <3> QED
      BY <3>5, <3>6, <3>7, Zenon DEF Remplacees
  <2>7. Neuve'
    BY <1>2, <2>3, EtatMeme, Zenon DEF Neuve
  <2>8. Session'
    <3>1. DOMAIN commandeSansEspaces' = Rangs
      BY <2>3
    <3> QED
      BY <1>2, <2>3, <3>1, Zenon DEF Session
  <2> QED
    BY <1>1, <2>3, <2>4, <2>6, <2>7, <2>8 DEF SessionInv
<1> QED
  BY <1>3, <1>4 DEF Substituer

LEMMA PasserMotPas ==
  ASSUME SessionInv, PasserMot
  PROVE  SessionInv'
<1>1. phase = "remplace" /\ Session /\ Lue /\ Remplacees /\ Neuve
  BY DEF PasserMot, SessionInv
<1>2. /\ UNCHANGED <<environ, repertoire, pile, fils, debut, lus, appels>>
      /\ UNCHANGED <<nbCommandes, commandeSansEspaces, Lus>>
  BY DEF PasserMot, vars, Lus
<1>3. Lue' /\ Neuve' /\ Toutes' = Toutes /\ Nommees' = Nommees
  <2>1. Lue'
    BY <1>1, <1>2, Zenon DEF Lue
  <2>2. Neuve'
    BY <1>1, <1>2, EtatMeme, Zenon DEF Neuve
  <2>3. Toutes' = Toutes /\ Nommees' = Nommees
    BY <1>2, Zenon DEF Toutes, Nommees
  <2> QED
    BY <2>1, <2>2, <2>3
<1>4. /\ rang \in 0 .. nbCommandes /\ nbCommandes \in Nat /\ nbCommandes \in 1 .. sizelgcmd
      /\ sizelgcmd \in Nat
  BY <1>1, ChaineAssumption DEF Session, Lue
<1>5. /\ \A k \in Rangs : k < rang => ~Schema(Lus[k]) /\ Definie(lus[k + 1], environ)
      /\ \A k \in Rangs : rang < k /\ k < nbCommandes => Lus[k] = lus[k + 1]
      /\ rang < nbCommandes => \/ Lus[rang] = lus[rang + 1]
                               \/ Definie(lus[rang + 1], environ)
  BY <1>1 DEF Remplacees
<1>6. CASE rang < nbCommandes /\ ~Schema(Mot) /\ rang' = rang + 1 /\ UNCHANGED phase
  <2>1. rang \in Rangs /\ rang + 1 \in 1 .. Len(lus)
    BY <1>1, <1>4, <1>6 DEF Rangs, Lue
  <2>2. Mot = Lus[rang] /\ Mot \in Paroles
    BY <1>1, <2>1, MotsDeLigne DEF Mot
  <2>3. Definie(lus[rang + 1], environ)
    <3>1. ~Appelle(Mot)
      BY <1>6, <2>2, UsageAppelee DEF Paroles
    <3> QED
      BY <1>5, <1>6, <2>2, <3>1 DEF Definie
  <2>4. \A k \in Rangs : k < rang' => ~Schema(Lus'[k]) /\ Definie(lus'[k + 1], environ')
    <3> SUFFICES ASSUME NEW k \in Rangs, k < rang'
                 PROVE  ~Schema(Lus[k]) /\ Definie(lus[k + 1], environ)
      BY <1>2
    <3>1. k = rang \/ k < rang
      BY <1>4, <1>6 DEF Rangs
    <3> QED
      BY <1>5, <1>6, <2>2, <2>3, <3>1
  <2>5. \A k \in Rangs : rang' < k /\ k < nbCommandes' => Lus'[k] = lus'[k + 1]
    <3> SUFFICES ASSUME NEW k \in Rangs, rang' < k, k < nbCommandes PROVE Lus[k] = lus[k + 1]
      BY <1>2
    <3>1. rang < k
      BY <1>4, <1>6 DEF Rangs
    <3> QED
      BY <1>5, <3>1
  <2>6. rang' < nbCommandes' => /\ Lus'[rang'] = lus'[rang' + 1]
                                /\ Usage(Lus'[rang']) \in Nommees' \cup {<<>>}
    <3> SUFFICES ASSUME rang' < nbCommandes
                 PROVE  /\ Lus[rang'] = lus[rang' + 1]
                        /\ Usage(Lus[rang']) \in Nommees
      BY <1>2, <1>3
    <3>1. rang' \in Rangs /\ rang < rang' /\ rang' + 1 \in 1 .. Len(lus)
      BY <1>1, <1>4, <1>6 DEF Rangs, Lue
    <3>2. Lus[rang'] = lus[rang' + 1]
      BY <1>5, <3>1
    <3>3. Usage(lus[rang' + 1]) \in Nommees
      BY <3>1 DEF Nommees
    <3> QED
      BY <3>2, <3>3
  <2>7. Remplacees'
    BY <2>4, <2>5, <2>6, Zenon DEF Remplacees
  <2>8. Session'
    <3>1. rang' \in 0 .. nbCommandes'
      BY <1>2, <1>4, <1>6
    <3> QED
      BY <1>1, <1>2, <1>6, <3>1, Zenon DEF Session
  <2> QED
    BY <1>1, <1>3, <1>6, <2>7, <2>8 DEF SessionInv
<1>7. CASE rang = nbCommandes /\ rang' = 0 /\ phase' = "execute"
  <2>1. Executables'
    <3>1. \A k \in Rangs : ~Schema(Lus[k])
      <4> TAKE k \in Rangs
      <4>1. CASE k < nbCommandes
        BY <1>5, <1>7, <4>1
      <4>2. CASE k >= nbCommandes
        BY <1>1, <4>2, VideSansSchema DEF Lue
      <4> QED
        BY <1>4, <4>1, <4>2 DEF Rangs
    <3>2. \A k \in 1 .. Len(lus) : Definie(lus[k], debut.env)
      <4> TAKE k \in 1 .. Len(lus)
      <4> PICK n : n = k - 1
        OBVIOUS
      <4>1. n \in Rangs /\ n < rang /\ n + 1 = k
        BY <1>1, <1>4, <1>7 DEF Rangs, Lue
      <4>2. Definie(lus[n + 1], environ)
        BY <1>5, <4>1
      <4>3. debut.env = environ
        BY <1>1 DEF Neuve, Etat
      <4> QED
        BY <4>1, <4>2, <4>3
    <3> QED
      BY <1>2, <3>1, <3>2 DEF Executables
  <2>2. Session'
    <3>1. rang' \in 0 .. nbCommandes'
      BY <1>2, <1>4, <1>7
    <3>2. phase' \in {"demande", "coupe", "remplace", "execute", "attend", "fini", "mort"}
      BY <1>7
    <3> QED
      BY <1>1, <1>2, <3>1, <3>2, Zenon DEF Session
  <2> QED
    BY <1>3, <1>7, <2>1, <2>2 DEF SessionInv
<1> QED
  BY <1>6, <1>7 DEF PasserMot

\* A word that is executed: the environment, the directory or the shell that
\* will run next are all that changes.
LEMMA MotSuivantPas ==
  ASSUME SessionInv, Execute, MotSuivant, environ' \in Environs, repertoire' \in Repertoires,
         fils' = fils \/ (fils'[1] \in Etats /\ Len(pile) < MaxPile)
  PROVE  SessionInv'
<1>1. phase = "execute" /\ rang < nbCommandes /\ Session /\ Lue /\ Executables
  BY DEF Execute, SessionInv
<1>2. /\ rang' = rang + 1 /\ phase' = phase
      /\ UNCHANGED <<pile, debut, lus, nbCommandes, commandeSansEspaces, Lus>>
  BY DEF MotSuivant, vars, Lus
<1>3. Lue'
  BY <1>1, <1>2, Zenon DEF Lue
<1>4. Executables'
  BY <1>1, <1>2, Zenon DEF Executables
<1>5. Session'
  <2>1. rang' \in 0 .. nbCommandes' /\ nbCommandes' \in Nat
    BY <1>1, <1>2 DEF Session
  <2>2. fils' # <<>> => fils'[1] \in Etats /\ Len(pile') < MaxPile
    BY <1>1, <1>2, Zenon DEF Session
  <2> QED
    BY <1>1, <1>2, <2>1, <2>2, Zenon DEF Session
<1> QED
  BY <1>1, <1>2, <1>3, <1>4, <1>5 DEF SessionInv

LEMMA ExecuterPas ==
  ASSUME SessionInv,
         \/ SeparateurSaute \/ SetVariableLocale \/ DelVariableLocale
         \/ AfficherVariables \/ ExecuterCd \/ Programme
  PROVE  SessionInv'
<1>1. Execute /\ MotSuivant
  BY DEF SeparateurSaute, SetVariableLocale, DelVariableLocale, AfficherVariables,
         ExecuterCd, Programme
<1>2. Session /\ Lue /\ Executables /\ rang \in Rangs
  <2>1. Session /\ Lue /\ Executables /\ rang < nbCommandes
    BY <1>1 DEF SessionInv, Execute
  <2> QED
    BY <2>1, ChaineAssumption DEF Session, Lue, Rangs
<1>3. environ \in Environs /\ repertoire \in Repertoires /\ rang \in Nat
  BY <1>2 DEF Session
<1>4. CASE SeparateurSaute \/ AfficherVariables
  BY <1>1, <1>3, <1>4, MotSuivantPas DEF SeparateurSaute, AfficherVariables
<1>5. CASE SetVariableLocale
  <2>1. /\ environ' = Setenv(Avant(SansAppel, "="), Avant(Apres(SansAppel, "="), ";"))
        /\ UNCHANGED <<repertoire, fils>>
    BY <1>5 DEF SetVariableLocale
  <2> PICK c, d : c = "=" /\ d = ";"
    OBVIOUS
  <2>2. SansAppel \in Noms
    BY <1>2, <1>3, SansAppelEst
  <2>3. Avant(SansAppel, c) \in Noms /\ Avant(Apres(SansAppel, c), d) \in Noms
    BY <2>2, MorceauNom, Zenon
  <2>4. Avant(Apres(SansAppel, c), d) \in Paroles
    BY <2>3 DEF Noms
  <2>5. environ' \in Environs
    BY <1>3, <2>1, <2>3, <2>4, SetenvEst, Zenon
  <2> QED
    BY <1>1, <1>3, <2>1, <2>5, MotSuivantPas
<1>6. CASE DelVariableLocale
  <2>1. /\ environ' = [n \in DOMAIN environ \ {SansAppel} |-> environ[n]]
        /\ UNCHANGED <<repertoire, fils>>
    BY <1>6 DEF DelVariableLocale
  <2>2. environ' \in Environs
    BY <1>3, <2>1, DelEst
  <2> QED
    BY <1>1, <1>3, <2>1, <2>2, MotSuivantPas
<1>7. CASE ExecuterCd
  <2>1. UNCHANGED <<environ, fils>> /\ repertoire' \in Repertoires
    BY <1>3, <1>7 DEF ExecuterCd
  <2> QED
    BY <1>1, <1>3, <2>1, MotSuivantPas
<1>8. CASE Programme
  <2>1. /\ UNCHANGED <<environ, repertoire>>
        /\ fils' = IF Mot = Sous THEN <<Etat>> ELSE fils
    BY <1>8 DEF Programme, Sous
  <2>2. Mot = Lus[rang]
    BY <1>2, MotsDeLigne DEF Mot
  <2>3. Mot = Sous => Len(pile) < MaxPile
    BY <1>2, <2>2 DEF Lue
  <2>4. Etat \in Etats
    BY <1>3 DEF Etat, Etats
  <2>5. fils' = fils \/ (fils'[1] \in Etats /\ Len(pile) < MaxPile)
    <3>1. <<Etat>>[1] = Etat
      OBVIOUS
    <3> QED
      BY <2>1, <2>3, <2>4, <3>1
  <2> QED
    BY <1>1, <1>3, <2>1, <2>5, MotSuivantPas
<1> QED
  BY <1>4, <1>5, <1>6, <1>7, <1>8

LEMMA FinLignePas ==
  ASSUME SessionInv, FinLigne
  PROVE  SessionInv'
<1>1. phase = "execute" /\ phase' = "attend" /\ Session /\ Lue /\ Executables
  BY DEF FinLigne, SessionInv
<1>2. /\ UNCHANGED <<rang, environ, repertoire, pile, fils, debut, lus, appels>>
      /\ UNCHANGED <<nbCommandes, commandeSansEspaces, Lus>>
  BY DEF FinLigne, vars, session, Lus
<1>3. Lue' /\ Executables'
  BY <1>1, <1>2, Zenon DEF Lue, Executables
<1>4. Session'
  <2>1. phase' \in {"demande", "coupe", "remplace", "execute", "attend", "fini", "mort"}
    BY <1>1
  <2> QED
    BY <1>1, <1>2, <2>1, Zenon DEF Session
<1> QED
  BY <1>1, <1>3, <1>4 DEF SessionInv

\* The end of a line, whatever shell comes next.
LEMMA ViderPas ==
  ASSUME SessionInv, Vider, environ' \in Environs, repertoire' \in Repertoires,
         pile' \in Seq(Etats), Len(pile') <= MaxPile
  PROVE  SessionInv'
<1>1. Session
  BY DEF SessionInv
<1>2. /\ commande' = <<>> /\ i' = 0 /\ j' = 0 /\ nbEspace' = 0
      /\ indexCommandes' = 0 /\ nbCommandes' = 0 /\ rang' = 0
      /\ commandeSansEspaces' = [k \in Rangs |-> <<>>]
      /\ debut' = Etat' /\ appels' = <<>> /\ fils' = <<>>
      /\ phase' = "demande"
  BY <1>1 DEF Vider, Session, Etat
<1>3. Vierge' /\ Neuve'
  BY <1>2, Zenon DEF Vierge, Neuve
<1>4. Session'
  <2>1. debut' \in Etats
    BY <1>2 DEF Etat, Etats
  <2>2. phase' \in {"demande", "coupe", "remplace", "execute", "attend", "fini", "mort"}
    BY <1>2
  <2>3. nbCommandes' \in Nat /\ rang' \in 0 .. nbCommandes'
    BY <1>2
  <2>4. DOMAIN commandeSansEspaces' = Rangs
    BY <1>2
  <2> QED
    BY <1>2, <2>1, <2>2, <2>3, <2>4, Zenon DEF Session
<1> QED
  BY <1>2, <1>3, <1>4 DEF SessionInv

LEMMA FinPas ==
  ASSUME SessionInv, Rendre \/ Descendre \/ Remonter
  PROVE  SessionInv'
<1>1. /\ environ \in Environs /\ repertoire \in Repertoires
      /\ pile \in Seq(Etats) /\ Len(pile) <= MaxPile /\ Len(pile) \in Nat /\ MaxPile \in Nat
      /\ fils # <<>> => fils[1] \in Etats /\ Len(pile) < MaxPile
  BY LenProperties, TexteAssumption DEF SessionInv, Session
<1>2. CASE Rendre
  BY <1>1, <1>2, ViderPas DEF Rendre
<1>3. CASE Descendre
  <2>1. /\ Vider /\ environ' = fils[1].env /\ repertoire' = fils[1].rep
        /\ pile' = Append(pile, Etat) /\ fils # <<>>
    BY <1>3 DEF Descendre
  <2>2. Etat \in Etats
    BY <1>1 DEF Etat, Etats
  <2>3. pile' \in Seq(Etats) /\ Len(pile') = Len(pile) + 1
    BY <1>1, <2>1, <2>2, AppendProperties
  <2>4. environ' \in Environs /\ repertoire' \in Repertoires
    BY <1>1, <2>1 DEF Etats
  <2>5. Len(pile') <= MaxPile
    BY <1>1, <2>1, <2>3
  <2> QED
    BY <2>1, <2>3, <2>4, <2>5, ViderPas
<1>4. CASE Remonter
  <2>1. /\ Vider /\ environ' = Last(pile).env /\ repertoire' = Last(pile).rep
        /\ pile' = Front(pile) /\ pile # <<>>
    BY <1>4 DEF Remonter
  <2>2. Len(pile) >= 1
    BY <1>1, <2>1, EmptySeq
  <2>3. Last(pile) \in Etats
    <3>1. Len(pile) \in 1 .. Len(pile)
      BY <1>1, <2>2
    <3> QED
      BY <1>1, <3>1, ElementOfSeq DEF Last
  <2>4. pile' \in Seq(Etats) /\ Len(pile') = Len(pile) - 1
    <3> PICK n : n = Len(pile)
      OBVIOUS
    <3>1. n \in 1 .. Len(pile) /\ pile' = SubSeq(pile, 1, n - 1)
      BY <1>1, <2>1, <2>2 DEF Front
    <3>2. \A k \in 1 .. n - 1 : pile[k] \in Etats
      BY <1>1, ElementOfSeq
    <3>3. SubSeq(pile, 1, n - 1) \in Seq(Etats) /\ Len(SubSeq(pile, 1, n - 1)) = n - 1
      BY <1>1, <3>1, <3>2, SubSeqProperties
    <3> QED
      BY <3>1, <3>3
  <2>5. environ' \in Environs /\ repertoire' \in Repertoires
    BY <2>1, <2>3 DEF Etats
  <2>6. Len(pile') <= MaxPile
    BY <1>1, <2>4
  <2> QED
    BY <2>1, <2>4, <2>5, <2>6, ViderPas
<1> QED
  BY <1>2, <1>3, <1>4

LEMMA SessionPas == SessionInv /\ [NextTexte]_varsTexte => SessionInv'
<1> SUFFICES ASSUME SessionInv, [NextTexte]_varsTexte PROVE SessionInv'
  OBVIOUS
<1>1. CASE UNCHANGED varsTexte
  <2>1. /\ UNCHANGED <<phase, rang, environ, repertoire, pile, fils, debut, lus, appels>>
        /\ UNCHANGED <<commande, i, j, nbEspace, indexCommandes, commandeSansEspaces,
                       nbCommandes>>
    BY <1>1 DEF varsTexte, vars, session
  <2>2. [Next]_vars /\ UNCHANGED Lus /\ Etat' = Etat
    BY <2>1 DEF vars, Lus, Etat
  <2>3. Session' = Session /\ Vierge' = Vierge /\ Neuve' = Neuve
    BY <2>1, <2>2, Zenon DEF Session, Vierge, Neuve
  <2>4. Tapee => Tapee'
    <3> SUFFICES ASSUME Tapee PROVE Tapee'
      OBVIOUS
    <3>1. /\ Bornes /\ Curseur /\ Aucune /\ Coupee /\ Gardee /\ Provenance
      BY DEF Tapee
    <3>2. Bornes' /\ Curseur' /\ Aucune' /\ Coupee' /\ Gardee' /\ Provenance'
      BY <2>2, <3>1, PasEtat, AucunePas, CoupeePas, GardeePas, ProvenancePas, Zenon
    <3> QED
      BY <2>1, <3>2, Zenon DEF Tapee
  <2>5. Lue' = Lue /\ Toutes' = Toutes /\ Nommees' = Nommees
    BY <2>1, <2>2, Zenon DEF Lue, Toutes, Nommees
  <2>6. Remplacees' = Remplacees /\ Executables' = Executables
    BY <2>1, <2>2, <2>5, Zenon DEF Remplacees, Executables
  <2> QED
    BY <2>1, <2>3, <2>4, <2>5, <2>6 DEF SessionInv
<1>2. CASE Demander
  BY <1>2, DemanderPas
<1>3. CASE Shell
  BY <1>3, GererPas, LirePas, SubstituerPas, PasserMotPas, ExecuterPas, FinLignePas, FinPas
     DEF Shell
<1> QED
  BY <1>1, <1>2, <1>3 DEF NextTexte

LEMMA SessionInvariant == SpecTexte => []SessionInv
<1> QED
  BY SessionDepart, SessionPas, PTL DEF SpecTexte

(* In every state of a session the directory exists, the variables are     *)
(* texts, no word is used beyond the last one, and no more shells wait     *)
(* than the lines asked for: the words that start one are the line's, none *)
(* comes out of the value of a variable.                                   *)
THEOREM TypesDeSession == SpecTexte => []TypeTexte
<1>1. SessionInv => TypeTexte
  <2> SUFFICES ASSUME SessionInv PROVE TypeTexte
    OBVIOUS
  <2>1. Session /\ (phase = "demande" => Neuve)
    BY DEF SessionInv
  <2>2. ASSUME NEW x \in Etats PROVE TypeEtat(x)
    <3>1. x.env \in Environs /\ x.rep \in Repertoires
      BY DEF Etats
    <3>2. /\ DOMAIN x.env \subseteq Noms
          /\ \A n \in DOMAIN x.env : x.env[n] \in Paroles
      BY <3>1, EnvironEst, Zenon
    <3> QED
      BY <3>1, <3>2, ParolesTextes DEF TypeEtat, Noms, Textes
  <2>3. Etat \in Etats
    BY <2>1 DEF Session, Etat, Etats
  <2>4. \A k \in 1 .. Len(pile) : pile[k] \in Etats
    BY <2>1, ElementOfSeq DEF Session
  <2> QED
    BY <2>1, <2>2, <2>3, <2>4, Zenon DEF TypeTexte, Session, Neuve
<1> QED
  BY <1>1, SessionInvariant, PTL

(* A shell dies of a line only when the line, or the value of one of its   *)
(* variables, names one that is not set; nothing of the line has then been *)
(* executed.  A line that names one itself is never executed.              *)
THEOREM MortDIndefinie == SpecTexte => []MortSiIndefinie
<1>1. SessionInv => MortSiIndefinie
  <2> SUFFICES ASSUME SessionInv PROVE MortSiIndefinie
    OBVIOUS
  <2>1. phase = "mort" => /\ ~ Nommees \ {<<>>} \subseteq DOMAIN environ
                          /\ Etat = debut /\ appels = <<>>
    BY DEF SessionInv, Neuve, Toutes
  <2>2. phase \in {"execute", "attend"} =>
            \A k \in 1 .. Len(lus) : Appelle(lus[k]) => Usage(lus[k]) \in DOMAIN debut.env
    BY DEF SessionInv, Executables, Definie
  <2> QED
    BY <2>1, <2>2 DEF MortSiIndefinie
<1> QED
  BY <1>1, SessionInvariant, PTL

(* What is proved of gererChaine on its own is true of each line of a      *)
(* session, whatever the lines before it left behind: viderCommande gives  *)
(* it the state it starts from.                                            *)
THEOREM LignesDeSession ==
  SpecTexte => [](phase = "coupe" =>
                      TypeOK /\ CurseurEnFin /\ RienPerdu /\ Decoupe /\ ArgumentGarde)
<1>1. SessionInv =>
          (phase = "coupe" =>
               TypeOK /\ CurseurEnFin /\ RienPerdu /\ Decoupe /\ ArgumentGarde)
  <2> SUFFICES ASSUME Tapee
               PROVE  TypeOK /\ CurseurEnFin /\ RienPerdu /\ Decoupe /\ ArgumentGarde
    BY DEF SessionInv
  <2>1. Bornes /\ Curseur /\ Aucune /\ Coupee /\ Gardee
    BY DEF Tapee
  <2> QED
    BY <2>1, TypesEst, CurseurEst, RienEst, DecoupeEst, ArgumentEst, Zenon
<1> QED
  BY <1>1, SessionInvariant, PTL

-----------------------------------------------------------------------------
(* What a line should do, word after word.                                 *)
Commence(d) == [env |-> d.env, rep |-> d.rep, appels |-> <<>>]
Suite(x, mot) == IF mot \in Doubles \cup {Tube} THEN x ELSE Resultat(x, mot)
Lit(f, n, d, l) ==
    f = [k \in 0 .. n |-> IF k = 0 THEN Commence(d) ELSE Suite(f[k - 1], l[k])]
Lectures(n, d, l) == CHOOSE f : Lit(f, n, d, l)

LEMMA LitEst ==
  ASSUME NEW n \in Nat, NEW d, NEW l, NEW f, Lit(f, n, d, l)
  PROVE  f[0] = Commence(d) /\ \A k \in 1 .. n : f[k] = Suite(f[k - 1], l[k])
<1>1. \A k \in 0 .. n : f[k] = IF k = 0 THEN Commence(d) ELSE Suite(f[k - 1], l[k])
  BY Zenon DEF Lit
<1>2. 0 \in 0 .. n /\ \A k \in 1 .. n : k \in 0 .. n /\ k # 0
  OBVIOUS
<1> QED
  BY ONLY <1>1, <1>2, Zenon

LEMMA LectureExiste ==
  ASSUME NEW n \in Nat, NEW d, NEW l
  PROVE  Lit(Lectures(n, d, l), n, d, l)
<1> DEFINE S == {m \in 0 .. n : \E f : Lit(f, m, d, l)}
<1>1. 0 \in S
  <2> DEFINE f == [k \in 0 .. 0 |-> Commence(d)]
  <2>1. \A k \in 0 .. 0 : k = 0
    OBVIOUS
  <2>2. f = [k \in 0 .. 0 |-> IF k = 0 THEN Commence(d) ELSE Suite(f[k - 1], l[k])]
    BY <2>1
  <2>3. Lit(f, 0, d, l)
    BY <2>2, Zenon DEF Lit
  <2> HIDE DEF f
  <2> QED
    BY <2>3
<1>2. ASSUME NEW m \in 1 .. n, m - 1 \in S PROVE m \in S
  <2> PICK h : h = m - 1
    OBVIOUS
  <2>1. h \in Nat /\ h + 1 = m /\ m \in Nat
    BY <1>2
  <2>2. PICK f : Lit(f, h, d, l)
    BY <1>2
  <2>3. /\ f[0] = Commence(d) /\ \A k \in 1 .. h : f[k] = Suite(f[k - 1], l[k])
    BY ONLY <2>1, <2>2, LitEst
  <2> DEFINE g == [k \in 0 .. m |-> IF k = m THEN Suite(f[h], l[m]) ELSE f[k]]
  <2>4. g[m] = Suite(f[h], l[m]) /\ \A k \in 0 .. h : g[k] = f[k]
    <3>1. m \in 0 .. m /\ \A k \in 0 .. h : k \in 0 .. m /\ k # m
      BY <2>1
    <3> QED
      BY ONLY <3>1, Zenon
  <2>5. g = [k \in 0 .. m |-> g[k]]
    OBVIOUS
  <2> HIDE DEF g
  <2>6. ASSUME NEW k \in 0 .. m
        PROVE  g[k] = IF k = 0 THEN Commence(d) ELSE Suite(g[k - 1], l[k])
    <3>1. CASE k = 0
      <4>1. 0 \in 0 .. h
        BY <2>1
      <4> QED
        BY <2>3, <2>4, <3>1, <4>1, Zenon
    <3>2. CASE k = m
      <4>1. k # 0 /\ k - 1 = h /\ h \in 0 .. h
        BY <2>1, <3>2
      <4> QED
        BY <2>4, <3>2, <4>1, Zenon
    <3>3. CASE k # 0 /\ k # m
      <4>1. k \in 1 .. h /\ k \in 0 .. h /\ k - 1 \in 0 .. h
        BY <2>1, <3>3
      <4> QED
        BY <2>3, <2>4, <3>3, <4>1, Zenon
    <3> QED
      BY <3>1, <3>2, <3>3
  <2>7. Lit(g, m, d, l)
    BY <2>5, <2>6, Zenon DEF Lit
  <2> QED
    BY <2>1, <2>7
<1>3. n \in S
  <2> HIDE DEF S
  <2> QED
    BY <1>1, <1>2, ParRecurrence
<1> QED
  BY <1>3, Zenon DEF Lectures

LEMMA LectureSuit ==
  ASSUME NEW n \in Nat, NEW d, NEW l, NEW m, m = n + 1
  PROVE  /\ Lectures(0, d, l)[0] = Commence(d)
         /\ Lectures(m, d, l)[m] = Suite(Lectures(n, d, l)[n], l[m])
<1> PICK f, g, z : f = Lectures(n, d, l) /\ g = Lectures(m, d, l) /\ z = Lectures(0, d, l)
  OBVIOUS
<1>1. m \in Nat /\ 0 \in Nat
  OBVIOUS
<1>2. Lit(f, n, d, l) /\ Lit(g, m, d, l) /\ Lit(z, 0, d, l)
  BY <1>1, LectureExiste, Zenon
<1>3. /\ f[0] = Commence(d) /\ \A k \in 1 .. n : f[k] = Suite(f[k - 1], l[k])
      /\ g[0] = Commence(d) /\ \A k \in 1 .. m : g[k] = Suite(g[k - 1], l[k])
      /\ z[0] = Commence(d)
  BY ONLY n \in Nat, <1>1, <1>2, LitEst
<1>4. f[0] = g[0] /\ \A k \in 1 .. n : f[k - 1] = g[k - 1] => f[k] = g[k]
  <2>1. \A k \in 1 .. n : k \in 1 .. m
    OBVIOUS
  <2> QED
    BY <1>3, <2>1, Zenon
<1>5. \A k \in 0 .. n : f[k] = g[k]
  BY ONLY <1>4, n \in Nat, RecurrenteUnique, ZenonT(40)
<1>6. m \in 1 .. m /\ m - 1 = n /\ n \in 0 .. n
  OBVIOUS
<1> QED
  BY <1>3, <1>5, <1>6, Zenon

LEMMA LectureEst == \A n : Lecture(n) = Lectures(n, debut, lus)[n]
  BY Zenon DEF Lecture, Lectures, Lit, Suite, Commence

-----------------------------------------------------------------------------
(* The arguments of a program.                                             *)
Separe(c) == c \in Blancs
Ajoute(x, c) == IF Separe(c) THEN Append(x, <<>>) ELSE [x EXCEPT ![Len(x)] = Append(@, c)]
Args(f, m) == f = [k \in 0 .. Len(m) |-> IF k = 0 THEN << <<>> >> ELSE Ajoute(f[k - 1], m[k])]

LEMMA ArgumentsArgs == \A m : Arguments(m) = (CHOOSE f : Args(f, m))[Len(m)]
  BY Zenon DEF Arguments, Args, Ajoute, Separe

\* A piece of a text, and its next character.
LEMMA MorceauSuivant ==
  ASSUME NEW T, NEW m \in Seq(T), NEW p \in Nat, p >= 1, NEW k \in 1 .. Len(m), p <= k,
         NEW h, h = k - 1
  PROVE  Append(SubSeq(m, p, h), m[k]) = SubSeq(m, p, k)
<1>1. /\ Len(m) \in Nat /\ p \in Int /\ k \in Int /\ h \in Int /\ h + 1 = k
      /\ \A q \in p .. k : q \in 1 .. Len(m)
  BY LenProperties
<1>2. \A q \in p .. k : m[q] \in T
  BY <1>1, ElementOfSeq
<1>3. \A q \in p .. h : m[q] \in T
  BY <1>1, <1>2
<1> PICK a, b : a = SubSeq(m, p, h) /\ b = SubSeq(m, p, k)
  OBVIOUS
<1>4. /\ a \in Seq(T) /\ Len(a) = (IF p <= h THEN h - p + 1 ELSE 0)
      /\ \A q \in 1 .. h - p + 1 : a[q] = m[p + q - 1]
  BY <1>1, <1>3, SubSeqProperties
<1>5. /\ b \in Seq(T) /\ Len(b) = (IF p <= k THEN k - p + 1 ELSE 0)
      /\ \A q \in 1 .. k - p + 1 : b[q] = m[p + q - 1]
  BY <1>1, <1>2, SubSeqProperties
<1>6. Len(a) = k - p /\ Len(b) = k - p + 1 /\ Len(a) \in Nat
  BY <1>1, <1>4, <1>5
<1>7. m[k] \in T
  BY ElementOfSeq
<1> PICK c : c = Append(a, m[k])
  OBVIOUS
<1>8. /\ c \in Seq(T) /\ Len(c) = Len(a) + 1 /\ c[Len(a) + 1] = m[k]
      /\ \A q \in 1 .. Len(a) : c[q] = a[q]
  <2> PICK x : x = m[k]
    OBVIOUS
  <2>1. a \in Seq(T) /\ x \in T
    BY <1>4, <1>7
  <2>2. /\ Append(a, x) \in Seq(T) /\ Len(Append(a, x)) = Len(a) + 1
        /\ Append(a, x)[Len(a) + 1] = x
        /\ \A q \in 1 .. Len(a) : Append(a, x)[q] = a[q]
    BY ONLY <2>1, AppendProperties
  <2> QED
    BY <2>2, Zenon
<1>9. ASSUME NEW q \in 1 .. Len(c) PROVE c[q] = b[q]
  <2>1. b[q] = m[p + q - 1]
    BY <1>5, <1>6, <1>8
  <2>2. CASE q = Len(a) + 1
    <3>1. p + q - 1 = k
      BY <1>1, <1>6, <2>2
    <3> QED
      BY <1>8, <2>1, <2>2, <3>1
  <2>3. CASE q # Len(a) + 1
    <3>1. q \in 1 .. Len(a) /\ q \in 1 .. h - p + 1
      BY <1>1, <1>6, <1>8, <2>3
    <3> QED
      BY <1>4, <1>8, <2>1, <3>1
  <2> QED
    BY <2>2, <2>3
<1>10. Len(c) = Len(b)
  BY <1>6, <1>8
<1> QED
  BY <1>5, <1>8, <1>9, <1>10, SeqEqual

\* The arguments of the first k characters, when the only blank is at n.
Coupe(m, n, k) == IF n = 0 \/ k < n THEN <<SubSeq(m, 1, k)>>
                  ELSE <<SubSeq(m, 1, n - 1), SubSeq(m, n + 1, k)>>

LEMMA CoupeSuit ==
  ASSUME NEW T, NEW m \in Seq(T), NEW n \in 0 .. Len(m), NEW k \in 1 .. Len(m),
         Separe(m[k]) <=> k = n, NEW h, h = k - 1
  PROVE  Coupe(m, n, k) = Ajoute(Coupe(m, n, h), m[k])
<1>1. Len(m) \in Nat /\ h \in Nat /\ h + 1 = k /\ k \in Nat /\ n \in Nat
  BY LenProperties
<1>2. CASE n = 0 \/ k < n
  <2> PICK a, b, c : a = SubSeq(m, 1, h) /\ b = SubSeq(m, 1, k) /\ c = m[k]
    OBVIOUS
  <2>1. Append(a, c) = b
    <3>1. 1 \in Nat /\ 1 >= 1 /\ 1 <= k
      BY <1>1
    <3> QED
      BY <3>1, MorceauSuivant
  <2>2. Coupe(m, n, h) = <<a>> /\ Coupe(m, n, k) = <<b>>
    <3>1. n = 0 \/ h < n
      BY <1>1, <1>2
    <3> QED
      BY <1>2, <3>1, Zenon DEF Coupe
  <2>3. ~Separe(c)
    BY <1>1, <1>2
  <2>4. Len(<<a>>) = 1 /\ <<a>>[1] = a
    OBVIOUS
  <2>5. [<<a>> EXCEPT ![1] = b] = <<b>>
    OBVIOUS
  <2> HIDE DEF Coupe
  <2>6. Ajoute(<<a>>, c) = [<<a>> EXCEPT ![1] = Append(<<a>>[1], c)]
    BY <2>3, <2>4 DEF Ajoute
  <2> QED
    BY <2>1, <2>2, <2>4, <2>5, <2>6
<1>3. CASE n # 0 /\ k = n
  <2> PICK a, b : a = SubSeq(m, 1, h) /\ b = SubSeq(m, n + 1, k)
    OBVIOUS
  <2>1. b = <<>>
    BY <1>1, <1>3, SubSeqEmpty
  <2>2. Coupe(m, n, h) = <<a>> /\ Coupe(m, n, k) = <<a, b>>
    <3>1. h < n /\ ~(k < n) /\ n # 0 /\ n - 1 = h
      BY <1>1, <1>3
    <3> QED
      BY <3>1, Zenon DEF Coupe
  <2>3. Separe(m[k])
    BY <1>3
  <2>4. Ajoute(<<a>>, m[k]) = Append(<<a>>, <<>>)
    BY <2>3, Zenon DEF Ajoute
  <2>5. Append(<<a>>, b) = <<a, b>>
    <3> PICK S : S = {a, b}
      OBVIOUS
    <3>1. a \in S /\ b \in S /\ <<a>> \in Seq(S) /\ <<a, b>> \in Seq(S)
      BY Tuples
    <3>2. /\ Append(<<a>>, b) \in Seq(S) /\ Len(Append(<<a>>, b)) = 2
          /\ Append(<<a>>, b)[1] = a /\ Append(<<a>>, b)[2] = b
      BY <3>1, AppendProperties
    <3> PICK x, y : x = Append(<<a>>, b) /\ y = <<a, b>>
      OBVIOUS
    <3>3. Len(y) = 2 /\ y[1] = a /\ y[2] = b
      OBVIOUS
    <3>4. x \in Seq(S) /\ y \in Seq(S) /\ Len(x) = 2 /\ x[1] = a /\ x[2] = b
      BY <3>1, <3>2, Zenon
    <3>5. Len(x) = Len(y) /\ \A q \in 1 .. Len(x) : x[q] = y[q]
      BY ONLY <3>3, <3>4
    <3>6. x = y
      BY ONLY <3>4, <3>5, SeqEqual
    <3> QED
      BY <3>6
  <2> QED
    BY <2>1, <2>2, <2>4, <2>5
<1>4. CASE n # 0 /\ k > n
  <2> PICK p : p = n + 1
    OBVIOUS
  <2> PICK e, a, b, c : e = SubSeq(m, 1, n - 1) /\ a = SubSeq(m, p, h)
                        /\ b = SubSeq(m, p, k) /\ c = m[k]
    OBVIOUS
  <2>1. Append(a, c) = b
    <3>1. p \in Nat /\ p >= 1 /\ p <= k
      BY <1>1, <1>4
    <3> QED
      BY <3>1, MorceauSuivant
  <2>2. Coupe(m, n, h) = <<e, a>> /\ Coupe(m, n, k) = <<e, b>>
    <3>1. ~(h < n) /\ ~(k < n) /\ n # 0
      BY <1>1, <1>4
    <3> QED
      BY <3>1, Zenon DEF Coupe
  <2>3. ~Separe(c)
    BY <1>1, <1>4
  <2>4. Len(<<e, a>>) = 2 /\ <<e, a>>[2] = a
    OBVIOUS
  <2>5. [<<e, a>> EXCEPT ![2] = b] = <<e, b>>
    OBVIOUS
  <2>6. Ajoute(<<e, a>>, c) = [<<e, a>> EXCEPT ![2] = Append(<<e, a>>[2], c)]
    BY <2>3, <2>4 DEF Ajoute
  <2> QED
    BY <2>1, <2>2, <2>4, <2>5, <2>6
<1> QED
  BY <1>1, <1>2, <1>3, <1>4

LEMMA ArgumentsEst ==
  ASSUME NEW T, NEW m \in Seq(T), NEW n \in 0 .. Len(m),
         \A k \in 1 .. Len(m) : Separe(m[k]) <=> k = n
  PROVE  /\ n = 0 => Arguments(m) = <<m>>
         /\ n # 0 => Arguments(m) = <<SubSeq(m, 1, n - 1), SubSeq(m, n + 1, Len(m))>>
<1> PICK l : l = Len(m)
  OBVIOUS
<1>0. l \in Nat
  BY LenProperties
<1> DEFINE h == [k \in 0 .. l |-> Coupe(m, n, k)]
           c == CHOOSE f : Args(f, m)
<1>1. \A k \in 0 .. l : h[k] = Coupe(m, n, k)
  OBVIOUS
<1>2. h = [k \in 0 .. l |-> h[k]]
  OBVIOUS
<1> HIDE DEF h
<1>3. h[0] = << <<>> >>
  <2>1. SubSeq(m, 1, 0) = <<>>
    BY SubSeqEmpty
  <2>2. n = 0 \/ 0 < n
    OBVIOUS
  <2>3. 0 \in 0 .. l
    BY <1>0
  <2> QED
    BY <1>1, <2>1, <2>2, <2>3, Zenon DEF Coupe
<1>4. ASSUME NEW k \in 1 .. l PROVE h[k] = Ajoute(h[k - 1], m[k])
  <2> PICK p : p = k - 1
    OBVIOUS
  <2>1. p \in 0 .. l /\ k \in 0 .. l
    BY <1>0
  <2>2. Coupe(m, n, k) = Ajoute(Coupe(m, n, p), m[k])
    BY CoupeSuit
  <2> QED
    BY <1>1, <2>1, <2>2, Zenon
<1>5. Args(h, m)
  <2>1. ASSUME NEW k \in 0 .. l
        PROVE  h[k] = IF k = 0 THEN << <<>> >> ELSE Ajoute(h[k - 1], m[k])
    <3>1. CASE k = 0
      BY <1>3, <3>1, Zenon
    <3>2. CASE k # 0
      <4>1. k \in 1 .. l
        BY <1>0, <3>2
      <4> QED
        BY <1>4, <3>2, <4>1, Zenon
    <3> QED
      BY <3>1, <3>2
  <2> QED
    BY <1>2, <2>1, Zenon DEF Args
<1>6. Args(c, m)
  BY <1>5
<1> HIDE DEF c
<1>7. c[0] = << <<>> >> /\ \A k \in 1 .. l : c[k] = Ajoute(c[k - 1], m[k])
  <2>1. \A k \in 0 .. l : c[k] = IF k = 0 THEN << <<>> >> ELSE Ajoute(c[k - 1], m[k])
    BY <1>6, Zenon DEF Args
  <2>2. 0 \in 0 .. l /\ \A k \in 1 .. l : k \in 0 .. l /\ k # 0
    BY <1>0
  <2> QED
    BY ONLY <2>1, <2>2, Zenon
<1>8. c[0] = h[0] /\ \A k \in 1 .. l : c[k - 1] = h[k - 1] => c[k] = h[k]
  BY <1>3, <1>4, <1>7, Zenon
<1>9. \A k \in 0 .. l : c[k] = h[k]
  BY ONLY <1>0, <1>8, RecurrenteUnique, ZenonT(40)
<1>10. Arguments(m) = Coupe(m, n, l)
  <2>1. l \in 0 .. l
    BY <1>0
  <2> QED
    BY <1>1, <1>9, <2>1, ArgumentsArgs, Zenon DEF c
<1>11. CASE n = 0
  <2>1. SubSeq(m, 1, l) = m
    BY SubSeqFull
  <2> QED
    BY <1>10, <1>11, <2>1, Zenon DEF Coupe
<1>12. CASE n # 0
  <2>1. ~(l < n)
    BY <1>0
  <2> QED
    BY <1>10, <1>12, <2>1, Zenon DEF Coupe
<1> QED
  BY <1>11, <1>12

-----------------------------------------------------------------------------
(* Proper words.                                                           *)
Blanc == " "
Egal == "="
Fin == ";"
Nu(s) == \A k \in 1 .. Len(s) : s[k] \notin {Blanc, Dollar, Egal}
EstSet(m) == m[1] = "set"
EstUnset(m) == m[1] = "unset"
EstCd(m) == m[1] = "cd"
Un(m) == \A p, q \in 1 .. Len(m) : EstBlanc(m[p]) /\ EstBlanc(m[q]) => p = q

\* A name, one argument at most.
Propre(m) ==
    /\ m \in Paroles /\ m # <<>> /\ ~EstBlanc(Last(m)) /\ Un(m)
    /\ EstSet(m) => Avant(Apres(m, Blanc), Egal) # <<>>
    /\ EstUnset(m) => \E k \in 1 .. Len(m) : EstBlanc(m[k])
    /\ EstCd(m) /\ Len(m) > 1 => EstBlanc(m[2])

Variable(w) == Dollar \in Range(w)

LEMMA ReguliereEst ==
  ASSUME NEW w \in Paroles, Reguliere(w)
  PROVE  /\ Propre(w)
         /\ Variable(w) => /\ Appelle(w) /\ Usage(w) \in DOMAIN debut.env
                           /\ debut.env[Usage(w)] # <<>>
                           /\ Range(debut.env[Usage(w)]) \cap {Blanc, Dollar, Egal} = {}
<1>1. /\ w # <<>> /\ ~EstBlanc(Last(w)) /\ Un(w)
      /\ EstSet(w) => Avant(Apres(w, Blanc), Egal) # <<>>
      /\ EstCd(w) /\ Len(w) > 1 => EstBlanc(w[2])
      /\ EstUnset(w) => Blanc \in Range(w)
      /\ Variable(w) => /\ Appelle(w) /\ Usage(w) \in DOMAIN debut.env
                        /\ debut.env[Usage(w)] # <<>>
                        /\ Range(debut.env[Usage(w)]) \cap {Blanc, Dollar, Egal} = {}
  BY Zenon DEF Reguliere, EstBlanc, Un, EstSet, EstUnset, EstCd, Blanc, Egal, Dollar, Variable
<1>2. ASSUME Blanc \in Range(w) PROVE \E k \in 1 .. Len(w) : EstBlanc(w[k])
  <2>1. DOMAIN w = 1 .. Len(w)
    BY LenProperties DEF Paroles
  <2> QED
    BY <1>2, <2>1 DEF Range, EstBlanc, Blanc
<1> QED
  BY <1>1, <1>2 DEF Propre

LEMMA RangeNu ==
  ASSUME NEW T, NEW s \in Seq(T), Range(s) \cap {Blanc, Dollar, Egal} = {}
  PROVE  Nu(s)
<1>1. DOMAIN s = 1 .. Len(s)
  BY LenProperties
<1>2. \A k \in 1 .. Len(s) : s[k] \in Range(s)
  BY <1>1 DEF Range
<1> QED
  BY <1>2 DEF Nu

LEMMA ClairEst ==
  \A w, env : Clair(w, env) = IF Variable(w) THEN Avant(w, Dollar) \o env[Usage(w)] ELSE w
  BY Zenon DEF Clair, Variable, Dollar

LEMMA SansVariable ==
  ASSUME NEW T, NEW w \in Seq(T)
  PROVE  /\ Variable(w) <=> Premier(w, Dollar) # 0
         /\ ~Variable(w) => \A k \in 1 .. Len(w) : w[k] # Dollar
<1>1. DOMAIN w = 1 .. Len(w)
  BY LenProperties
<1>2. Variable(w) <=> \E k \in 1 .. Len(w) : w[k] = Dollar
  BY <1>1 DEF Variable, Range
<1> QED
  BY <1>2, PremierEst

\* Such a word with its variable replaced by v.
Remplacant(n, w, v, m) ==
    /\ n = Premier(w, Dollar) - 1 /\ EstBlanc(w[n])
    /\ m \in Paroles /\ Len(m) = n + Len(v) /\ Len(v) \in Nat \ {0}
    /\ \A k \in 1 .. n : m[k] = w[k]
    /\ \A k \in 1 .. Len(v) : m[n + k] = v[k]

LEMMA AppelRemplace ==
  ASSUME NEW w \in Paroles, Propre(w), Variable(w), Appelle(w),
         NEW v \in Paroles, v # <<>>, Nu(v), NEW m, m = Avant(w, Dollar) \o v
  PROVE  \E n \in 1 .. Len(w) : Remplacant(n, w, v, m)
<1> PICK d, a, u : d = Premier(w, Dollar) /\ a = Avant(w, Dollar) /\ u = Usage(w)
  OBVIOUS
<1>0. w \in Seq(Communs) /\ v \in Seq(Communs)
  BY DEF Paroles
<1>1. u # <<>> /\ a # <<>> /\ EstBlanc(Last(a))
  BY UsageDollar DEF Appelle, EstBlanc
<1>2. d \in 1 .. Len(w) /\ Len(w) \in Nat
  BY <1>0, SansVariable, PremierEst, LenProperties
<1>3. a \in Seq(Communs) /\ Len(a) = d - 1 /\ \A k \in 1 .. d - 1 : a[k] = w[k]
  BY <1>0, <1>2, Morceaux
<1>4. Len(a) # 0 /\ Len(v) # 0 /\ Len(v) \in Nat
  BY <1>0, <1>1, <1>3, EmptySeq, LenProperties
<1> PICK n : n = d - 1
  OBVIOUS
<1>5. n \in 1 .. Len(w) /\ Len(a) = n /\ n \in Nat /\ n >= 1
  BY <1>2, <1>3, <1>4
<1>6. EstBlanc(w[n])
  <2>1. Last(a) = a[n] /\ a[n] = w[n]
    BY <1>3, <1>5 DEF Last
  <2> QED
    BY <1>1, <2>1, Zenon
<1>7. /\ m \in Seq(Communs) /\ Len(m) = Len(a) + Len(v)
      /\ \A k \in 1 .. Len(a) + Len(v) : m[k] = IF k <= Len(a) THEN a[k] ELSE v[k - Len(a)]
  BY <1>0, <1>3, ConcatProperties
<1>8. \A k \in 1 .. n : m[k] = w[k]
  BY <1>3, <1>4, <1>5, <1>7
<1>9. \A k \in 1 .. Len(v) : m[n + k] = v[k]
  BY <1>4, <1>5, <1>7
<1>10. Remplacant(n, w, v, m)
  BY <1>4, <1>5, <1>6, <1>7, <1>8, <1>9 DEF Paroles, Remplacant
<1> QED
  BY <1>5, <1>10

LEMMA ClairPropre ==
  ASSUME NEW w \in Paroles, Propre(w), Variable(w), Appelle(w),
         NEW v \in Paroles, v # <<>>, Nu(v), NEW m, m = Avant(w, Dollar) \o v
  PROVE  Propre(m) /\ m[1] = w[1] /\ ~Variable(m) /\ \E k \in 1 .. Len(m) : EstBlanc(m[k])
<1> PICK n \in 1 .. Len(w) : Remplacant(n, w, v, m)
  BY AppelRemplace, Zenon
<1>a. /\ n = Premier(w, Dollar) - 1 /\ EstBlanc(w[n])
      /\ m \in Paroles /\ Len(m) = n + Len(v) /\ Len(v) \in Nat \ {0}
      /\ \A k \in 1 .. n : m[k] = w[k]
      /\ \A k \in 1 .. Len(v) : m[n + k] = v[k]
  BY DEF Remplacant
<1>0. m \in Seq(Communs) /\ v \in Seq(Communs) /\ w \in Seq(Communs) /\ Len(w) \in Nat
  BY <1>a, LenProperties DEF Paroles
<1>1. /\ n \in Nat /\ n >= 1 /\ Len(m) = n + Len(v) /\ Len(m) \in Nat /\ n \in 1 .. Len(m)
      /\ n < Len(m) /\ Len(v) \in Nat
  BY <1>0, <1>a
<1>2. Un(w) /\ (EstCd(w) /\ Len(w) > 1 => EstBlanc(w[2]))
  BY DEF Propre
<1>3. \A k \in 1 .. Len(v) : ~EstBlanc(v[k]) /\ v[k] # Dollar /\ v[k] # Egal
  BY DEF Nu, EstBlanc, Blanc
<1>4. ASSUME NEW k \in 1 .. Len(m), k > n
      PROVE  ~EstBlanc(m[k]) /\ m[k] # Dollar
  <2> PICK h : h = k - n
    OBVIOUS
  <2>1. h \in 1 .. Len(v) /\ n + h = k
    <3>1. h = k - n /\ k \in Nat /\ k <= Len(m) /\ k > n
      BY <1>1, <1>4
    <3> QED
      BY ONLY <1>1, <3>1
  <2>2. m[k] = v[h]
    BY <1>a, <2>1
  <2> QED
    BY <1>3, <2>1, <2>2, Zenon
<1>5. EstBlanc(m[n]) /\ m[1] = w[1]
  BY <1>1, <1>a
<1>6. ASSUME NEW k \in 1 .. Len(m), EstBlanc(m[k]) PROVE k = n
  <2>1. k \in 1 .. n
    <3>1. ~(k > n) /\ k \in Nat /\ k >= 1
      BY <1>1, <1>4, <1>6
    <3> QED
      BY ONLY <1>1, <3>1
  <2>2. EstBlanc(w[k]) /\ k \in 1 .. Len(w)
    BY <1>0, <1>6, <1>a, <2>1
  <2> QED
    BY <1>2, <1>a, <2>2 DEF Un
<1>7. Un(m)
  BY <1>6 DEF Un
<1>8. ~Variable(m)
  <2>1. \A k \in 1 .. n : w[k] # Dollar
    <3>1. \A k \in 1 .. Premier(w, Dollar) - 1 : w[k] # Dollar
      <4>1. Premier(w, Dollar) # 0
        BY <1>0, SansVariable
      <4> QED
        BY <1>0, <4>1, PremierEst
    <3> QED
      BY <1>a, <3>1
  <2>2. \A k \in 1 .. Len(m) : m[k] # Dollar
    <3> TAKE k \in 1 .. Len(m)
    <3>1. CASE k \in 1 .. n
      BY <1>a, <2>1, <3>1
    <3>2. CASE k > n
      BY <1>4, <3>2
    <3> QED
      BY <1>1, <3>1, <3>2
  <2>3. DOMAIN m = 1 .. Len(m)
    BY <1>0, LenProperties
  <2> QED
    BY <2>2, <2>3 DEF Variable, Range
<1>9. ~EstBlanc(Last(m)) /\ m # <<>>
  <2>1. Last(m) = m[Len(m)] /\ Len(m) \in 1 .. Len(m) /\ Len(m) > n
    BY <1>1 DEF Last
  <2>2. Len(<<>>) = 0
    OBVIOUS
  <2> QED
    BY <1>1, <1>4, <2>1, <2>2
<1>10. Apres(m, Blanc) = v
  <2> PICK p, s : p = Premier(m, Blanc) /\ s = Apres(m, Blanc)
    OBVIOUS
  <2>1. p = n
    <3>1. /\ p \in 0 .. Len(m)
          /\ p = 0 => \A k \in 1 .. Len(m) : m[k] # Blanc
          /\ p # 0 => p \in 1 .. Len(m) /\ m[p] = Blanc
      <4>1. /\ Premier(m, Blanc) \in 0 .. Len(m)
            /\ Premier(m, Blanc) = 0 => \A k \in 1 .. Len(m) : m[k] # Blanc
            /\ Premier(m, Blanc) # 0 =>
                   Premier(m, Blanc) \in 1 .. Len(m) /\ m[Premier(m, Blanc)] = Blanc
        BY ONLY <1>0, PremierEst
      <4> QED
        BY <4>1, Zenon
    <3>2. p # 0
      BY <1>1, <1>5, <3>1 DEF EstBlanc, Blanc
    <3>3. EstBlanc(m[p]) /\ p \in 1 .. Len(m)
      BY <3>1, <3>2, Zenon DEF EstBlanc, Blanc
    <3> QED
      BY <1>6, <3>3
  <2>2. /\ s \in Seq(Communs) /\ Len(s) = Len(m) - n
        /\ \A k \in 1 .. Len(m) - n : s[k] = m[n + k]
    <3>1. n = Premier(m, Blanc) /\ n # 0
      BY <1>1, <2>1
    <3>2. /\ Apres(m, Blanc) \in Seq(Communs) /\ Len(Apres(m, Blanc)) = Len(m) - n
          /\ \A k \in 1 .. Len(m) - n : Apres(m, Blanc)[k] = m[n + k]
      BY ONLY <1>0, <3>1, Morceaux
    <3> QED
      BY <3>2, Zenon
  <2>3. Len(s) = Len(v) /\ \A k \in 1 .. Len(s) : s[k] = v[k]
    <3>1. Len(m) - n = Len(v)
      BY ONLY <1>1
    <3>2. \A k \in 1 .. Len(v) : m[n + k] = v[k]
      BY <1>a
    <3> QED
      BY ONLY <2>2, <3>1, <3>2
  <2> QED
    BY <1>0, <2>2, <2>3, SeqEqual
<1>11. Avant(v, Egal) = v
  <2>1. Premier(v, Egal) = 0
    BY ONLY <1>0, <1>3, PremierEst
  <2> QED
    BY <2>1, AvantApres
<1>12. EstCd(m) /\ Len(m) > 1 => EstBlanc(m[2])
  <2> SUFFICES ASSUME EstCd(m) PROVE EstBlanc(m[2])
    OBVIOUS
  <2>1. EstCd(w)
    BY <1>5 DEF EstCd
  <2>2. ~EstBlanc(w[1])
    BY <2>1, Zenon DEF EstCd, EstBlanc
  <2>3. n # 1
    BY <1>a, <2>2
  <2>4. Len(w) > 1
    BY ONLY n \in 1 .. Len(w), <1>0, <1>1, <2>3
  <2>5. EstBlanc(w[2]) /\ 2 \in 1 .. Len(w)
    BY <1>0, <1>2, <2>1, <2>4
  <2>6. n = 2
    BY <1>2, <1>a, <2>5 DEF Un
  <2> QED
    BY <1>5, <2>6
<1>13. \E k \in 1 .. Len(m) : EstBlanc(m[k])
  BY <1>1, <1>5
<1>14. Avant(Apres(m, Blanc), Egal) # <<>>
  BY <1>10, <1>11
<1> QED
  BY <1>5, <1>7, <1>8, <1>9, <1>12, <1>13, <1>14, <1>a DEF Propre

LEMMA Signes4 == \A c \in Communs : c # Fin /\ (Separe(c) <=> EstBlanc(c))
  BY Zenon DEF Communs, Coupants, Fin, Separe, EstBlanc, Blancs

LEMMA PropreEst ==
  ASSUME NEW m, Propre(m), NEW n, n = Premier(m, Blanc), NEW arg, arg = Apres(m, Blanc)
  PROVE  /\ n \in 0 .. Len(m) /\ Len(m) \in Nat /\ arg \in Paroles
         /\ arg = <<>> <=> n = 0
         /\ Arguments(m) = IF arg = <<>> THEN <<m>> ELSE <<Avant(m, Blanc), arg>>
         /\ Avant(Apres(arg, Egal), Fin) = Apres(arg, Egal)
         /\ EstCd(m) => IF Len(m) <= 2 THEN arg = <<>>
                        ELSE arg # <<>> /\ arg = SubSeq(m, 3, Len(m))
<1>0. /\ m \in Seq(Communs) /\ m # <<>> /\ ~EstBlanc(Last(m)) /\ Un(m) /\ Len(m) \in Nat
      /\ EstCd(m) /\ Len(m) > 1 => EstBlanc(m[2])
      /\ \A k \in 1 .. Len(m) : m[k] \in Communs
  BY ElementOfSeq, LenProperties DEF Propre, Paroles
<1>1. /\ Premier(m, Blanc) \in 0 .. Len(m)
      /\ Premier(m, Blanc) = 0 => \A k \in 1 .. Len(m) : m[k] # Blanc
      /\ Premier(m, Blanc) # 0 =>
             Premier(m, Blanc) \in 1 .. Len(m) /\ m[Premier(m, Blanc)] = Blanc
  BY ONLY <1>0, PremierEst
<1>2. /\ n \in 0 .. Len(m) /\ n \in Nat
      /\ n = 0 => \A k \in 1 .. Len(m) : ~EstBlanc(m[k])
      /\ n # 0 => n \in 1 .. Len(m) /\ EstBlanc(m[n])
  <2>1. /\ n \in 0 .. Len(m)
        /\ n = 0 => \A k \in 1 .. Len(m) : ~EstBlanc(m[k])
        /\ n # 0 => n \in 1 .. Len(m) /\ EstBlanc(m[n])
    BY <1>1, Zenon DEF EstBlanc, Blanc
  <2> QED
    BY <1>0, <2>1
<1>3. \A k \in 1 .. Len(m) : EstBlanc(m[k]) <=> k = n
  <2> TAKE k \in 1 .. Len(m)
  <2>1. CASE n = 0
    BY <1>2, <2>1
  <2>2. CASE n # 0
    BY <1>0, <1>2, <2>2 DEF Un
  <2> QED
    BY <2>1, <2>2
<1>4. n < Len(m)
  <2>1. Last(m) = m[Len(m)] /\ Len(m) # 0
    BY <1>0, EmptySeq DEF Last
  <2>2. Len(m) \in 1 .. Len(m)
    BY <1>0, <2>1
  <2>3. n # Len(m)
    BY <1>0, <1>2, <2>1, <2>2, Zenon
  <2> QED
    BY ONLY <1>0, <1>2, <2>1, <2>3
<1>5. /\ arg \in Seq(Communs)
      /\ n = 0 => arg = <<>>
      /\ n # 0 => Len(arg) = Len(m) - n
  <2>1. /\ Apres(m, Blanc) \in Seq(Communs)
        /\ n = 0 => Apres(m, Blanc) = <<>>
        /\ n # 0 => Len(Apres(m, Blanc)) = Len(m) - n
    BY ONLY n = Premier(m, Blanc), <1>0, Morceaux
  <2> QED
    BY <2>1, Zenon
<1>6. arg = <<>> <=> n = 0
  <2>1. Len(<<>>) = 0
    OBVIOUS
  <2>2. n # 0 => Len(arg) # 0
    BY <1>0, <1>2, <1>4, <1>5
  <2> QED
    BY <1>5, <2>1, <2>2
<1>7. Arguments(m) = IF arg = <<>> THEN <<m>> ELSE <<Avant(m, Blanc), arg>>
  <2>1. \A k \in 1 .. Len(m) : Separe(m[k]) <=> k = n
    BY <1>0, <1>3, Signes4
  <2>2. /\ n = 0 => Arguments(m) = <<m>>
        /\ n # 0 => Arguments(m) = <<SubSeq(m, 1, n - 1), SubSeq(m, n + 1, Len(m))>>
    BY ONLY <1>0, <1>2, <2>1, ArgumentsEst
  <2>3. n # 0 => /\ Avant(m, Blanc) = SubSeq(m, 1, n - 1)
                 /\ arg = SubSeq(m, n + 1, Len(m))
    <3>1. /\ Avant(m, Blanc) = IF Premier(m, Blanc) = 0 THEN m
                               ELSE SubSeq(m, 1, Premier(m, Blanc) - 1)
          /\ Apres(m, Blanc) = IF Premier(m, Blanc) = 0 THEN <<>>
                               ELSE SubSeq(m, Premier(m, Blanc) + 1, Len(m))
      BY AvantApres, Zenon
    <3> QED
      BY <3>1, Zenon
  <2> QED
    BY <1>6, <2>2, <2>3, Zenon
<1>8. Avant(Apres(arg, Egal), Fin) = Apres(arg, Egal)
  <2> PICK q, v : q = Premier(arg, Egal) /\ v = Apres(arg, Egal)
    OBVIOUS
  <2>1. Apres(arg, Egal) \in Seq(Communs)
    BY ONLY q = Premier(arg, Egal), <1>5, Morceaux
  <2>2. v \in Seq(Communs) /\ \A k \in 1 .. Len(v) : v[k] \in Communs
    BY <2>1, ElementOfSeq
  <2>3. \A k \in 1 .. Len(v) : v[k] # Fin
    BY <2>2, Signes4
  <2>4. Premier(v, Fin) = 0
    BY ONLY <2>2, <2>3, PremierEst
  <2>5. Avant(v, Fin) = v
    BY <2>4, AvantApres
  <2> QED
    BY <2>5, Zenon
<1>9. ASSUME EstCd(m)
      PROVE  IF Len(m) <= 2 THEN arg = <<>> ELSE arg # <<>> /\ arg = SubSeq(m, 3, Len(m))
  <2>1. n # 1
    <3>1. ~EstBlanc(m[1])
      BY <1>9, Zenon DEF EstCd, EstBlanc
    <3> QED
      BY <1>2, <3>1
  <2>2. CASE Len(m) <= 2
    <3>1. n = 0
      BY <1>0, <1>2, <1>4, <2>1, <2>2
    <3> QED
      BY <1>6, <2>2, <3>1
  <2>3. CASE Len(m) > 2
    <3>1. Len(m) > 1 /\ 2 \in 1 .. Len(m) /\ ~(Len(m) <= 2)
      BY <1>0, <2>3
    <3>2. n = 2
      BY <1>0, <1>3, <1>9, <3>1
    <3>3. n # 0 /\ n + 1 = 3
      BY <3>2
    <3>4. Apres(m, Blanc) = SubSeq(m, n + 1, Len(m))
      BY <3>3, AvantApres
    <3>5. arg = SubSeq(m, 3, Len(m))
      BY <3>3, <3>4
    <3> QED
      BY <1>6, <3>1, <3>3, <3>5
  <2> QED
    BY <1>0, <2>2, <2>3
<1> QED
  BY <1>0, <1>2, <1>5, <1>6, <1>7, <1>8, <1>9 DEF Paroles

-----------------------------------------------------------------------------
(* What each command does with its word.                                   *)
Premiere(m) == m[1]

LEMMA EstPremiere ==
  ASSUME NEW T, NEW m \in Seq(T), m # <<>>, NEW x
  PROVE  IsPrefix(<<x>>, m) <=> Premiere(m) = x
<1>1. Len(m) \in Nat /\ 1 <= Len(m) /\ Len(<<x>>) = 1
  BY EmptySeq, LenProperties
<1> PICK a, b : a = SubSeq(<<x>>, 1, 1) /\ b = SubSeq(m, 1, 1)
  OBVIOUS
<1>2. IsPrefix(<<x>>, m) <=> a = b
  BY <1>1 DEF IsPrefix
<1>3. /\ a \in Seq({x}) /\ Len(a) = 1 /\ a[1] = x
  <2>1. <<x>> \in Seq({x}) /\ Len(<<x>>) = 1 /\ <<x>>[1] = x
    BY Tuples
  <2>2. SubSeq(<<x>>, 1, Len(<<x>>)) = <<x>>
    BY <2>1, SubSeqFull
  <2> QED
    BY <2>1, <2>2
<1>4. /\ b \in Seq(T) /\ Len(b) = 1 /\ b[1] = m[1]
  <2>1. \A k \in 1 .. 1 : m[k] \in T
    BY <1>1, ElementOfSeq
  <2> QED
    BY <2>1, SubSeqProperties
<1>5. a = b <=> x = m[1]
  <2>1. ASSUME x = m[1] PROVE a = b
    <3> PICK S : S = T \cup {x}
      OBVIOUS
    <3>1. a \in Seq(S) /\ b \in Seq(S)
      BY <1>3, <1>4, SeqMonotonic
    <3>2. Len(a) = Len(b) /\ \A k \in 1 .. Len(a) : a[k] = b[k]
      BY <1>3, <1>4, <2>1
    <3> QED
      BY <3>1, <3>2, SeqEqual
  <2>2. ASSUME a = b PROVE x = m[1]
    BY <1>3, <1>4, <2>2
  <2> QED
    BY <2>1, <2>2
<1> QED
  BY <1>2, <1>5 DEF Premiere

Cible(arg) == IF arg = <<>> THEN Maison ELSE arg
EstMy(m) == m[1] = "my"
EstSee(m) == m[1] = "see"
Interne(m) == EstSet(m) \/ EstUnset(m) \/ EstSee(m) \/ EstCd(m)
Appel(x, m, arg) == [rep |-> x.rep, args |-> IF EstMy(m) \/ arg = <<>> THEN <<m>>
                                             ELSE <<Avant(m, Blanc), arg>>]
Applique(x, m, arg) ==
    [env |-> IF EstSet(m) THEN Avec(x.env, Avant(arg, Egal), Apres(arg, Egal))
             ELSE IF EstUnset(m) THEN Sauf(x.env, arg)
             ELSE x.env,
     rep |-> IF EstCd(m) /\ Cible(arg) \in Repertoires THEN Cible(arg) ELSE x.rep,
     appels |-> IF Interne(m) THEN x.appels ELSE Append(x.appels, Appel(x, m, arg))]

LEMMA ResultatEst ==
  ASSUME NEW x, NEW w, NEW m, m = Clair(w, x.env)
  PROVE  Resultat(x, w) = Applique(x, m, Apres(m, Blanc))
<1>1. Interne(m) <=> m[1] \in {"set", "unset", "see", "cd"}
  BY Zenon DEF Interne, EstSet, EstUnset, EstSee, EstCd
<1> QED
  BY <1>1, Zenon DEF Resultat, Applique, Cible, Appel, EstSet, EstUnset, EstCd, EstMy, Blanc, Egal

Signe(m) == m \in Doubles \cup {Tube}
Etats3 == [env |-> environ, rep |-> repertoire, appels |-> appels]

LEMMA SigneExterne == \A m : Signe(m) => ~Interne(m) /\ \A k \in 1 .. Len(m) : ~EstBlanc(m[k])
<1> SUFFICES ASSUME NEW m, Signe(m)
             PROVE  ~Interne(m) /\ \A k \in 1 .. Len(m) : ~EstBlanc(m[k])
  OBVIOUS
<1> PICK x, y : x = "|" /\ y = "&"
  OBVIOUS
<1>1. m \in {<<x>>, <<x, x>>, <<y, y>>}
  BY DEF Signe, Doubles, Tube
<1>2. /\ m[1] \in {x, y}
      /\ \A k \in 1 .. Len(m) : m[k] \in {x, y}
  BY ONLY <1>1
<1>3. \A z \in {x, y} : z # "set" /\ z # "unset" /\ z # "see" /\ z # "cd" /\ z # " "
  BY Zenon
<1> QED
  BY <1>2, <1>3, Zenon DEF Interne, EstSet, EstUnset, EstSee, EstCd, EstBlanc

\* retirerAppel finds the blank of a word that has one.
LEMMA SansAppelIci ==
  ASSUME Lue, rang \in Rangs, NEW m, m = Lus[rang], NEW p \in 1 .. Len(m), EstBlanc(m[p])
  PROVE  SansAppel = Apres(m, Blanc)
<1>1. m = Chaine(commandeSansEspaces[rang]) /\ m \in Seq(Communs)
  BY MotsDeLigne DEF Paroles
<1>2. Blanc \in Range(m)
  BY <1>1, LenProperties DEF Range, EstBlanc, Blanc
<1>3. rang \in Nat /\ \A k \in Rangs : k \in Nat
  BY ChaineAssumption DEF Rangs
<1>4. rang \in Ici
  <2>1. rang >= rang
    BY <1>3
  <2> QED
    BY <1>1, <1>2, <2>1, Zenon DEF Ici, Blanc
<1>5. Ici \subseteq Nat /\ \A k \in Ici : k >= rang
  <2>1. Ici \subseteq Rangs /\ \A k \in Ici : k >= rang
    BY Zenon DEF Ici
  <2> QED
    BY <1>3, <2>1
<1> PICK k : k = Min(Ici)
  OBVIOUS
<1>6. k \in Ici /\ k <= rang
  BY <1>4, <1>5, Moindre, Zenon
<1>7. k = rang
  BY <1>3, <1>5, <1>6
<1> QED
  BY <1>1, <1>4, <1>7, Zenon DEF SansAppel, Blanc

LEMMA PropreSet ==
  ASSUME NEW m, Propre(m), EstSet(m) \/ EstUnset(m)
  PROVE  \E p \in 1 .. Len(m) : EstBlanc(m[p])
<1>1. CASE EstUnset(m)
  BY <1>1 DEF Propre
<1>2. CASE EstSet(m)
  <2>1. m \in Seq(Communs) /\ Avant(Apres(m, Blanc), Egal) # <<>>
    BY <1>2 DEF Propre, Paroles
  <2>2. Premier(m, Blanc) # 0
    <3> SUFFICES ASSUME Premier(m, Blanc) = 0 PROVE FALSE
      OBVIOUS
    <3>1. Apres(m, Blanc) = <<>>
      BY AvantApres
    <3>2. <<>> \in Seq(Communs) /\ Len(<<>>) = 0
      BY EmptySeq
    <3>3. Premier(<<>>, Egal) = 0
      <4>1. Premier(<<>>, Egal) \in 0 .. Len(<<>>)
        BY ONLY <3>2, PremierEst
      <4> QED
        BY <3>2, <4>1
    <3>4. Avant(<<>>, Egal) = <<>>
      BY <3>3, AvantApres
    <3> QED
      BY <2>1, <3>1, <3>4
  <2>3. Premier(m, Blanc) \in 1 .. Len(m) /\ m[Premier(m, Blanc)] = Blanc
    BY ONLY <2>1, <2>2, PremierEst
  <2> QED
    BY <2>3, Zenon DEF EstBlanc, Blanc
<1> QED
  BY <1>1, <1>2

LEMMA EstMot ==
  ASSUME Lue, rang \in Rangs, Propre(Lus[rang])
  PROVE  /\ Mot = Lus[rang]
         /\ Est("set") <=> EstSet(Mot)
         /\ Est("unset") <=> EstUnset(Mot)
         /\ Est("see") <=> EstSee(Mot)
         /\ Est("cd") <=> EstCd(Mot)
         /\ Est("my") <=> EstMy(Mot)
<1>1. Mot = Lus[rang] /\ Mot \in Seq(Communs) /\ Mot # <<>>
  BY MotsDeLigne DEF Mot, Propre, Paroles
<1>2. \A x : Est(x) <=> Premiere(Mot) = x
  BY <1>1, EstPremiere, Zenon DEF Est
<1> QED
  BY <1>1, <1>2, Zenon DEF EstSet, EstUnset, EstSee, EstCd, EstMy, Premiere

LEMMA MotFait ==
  ASSUME Lue, rang \in Rangs, NEW m, m = Lus[rang], Propre(m), NEW arg, arg = Apres(m, Blanc),
         \/ SeparateurSaute \/ SetVariableLocale \/ DelVariableLocale
         \/ AfficherVariables \/ ExecuterCd \/ Programme
  PROVE  Etats3' = IF Signe(m) THEN Etats3 ELSE Applique(Etats3, m, arg)
<1>1. /\ Mot = m
      /\ Est("set") <=> EstSet(m)
      /\ Est("unset") <=> EstUnset(m)
      /\ Est("see") <=> EstSee(m)
      /\ Est("cd") <=> EstCd(m)
      /\ Est("my") <=> EstMy(m)
  BY EstMot
<1>2. /\ Arguments(m) = IF arg = <<>> THEN <<m>> ELSE <<Avant(m, Blanc), arg>>
      /\ Avant(Apres(arg, Egal), Fin) = Apres(arg, Egal)
      /\ EstCd(m) => IF Len(m) <= 2 THEN arg = <<>>
                     ELSE arg # <<>> /\ arg = SubSeq(m, 3, Len(m))
  <2> PICK n : n = Premier(m, Blanc)
    OBVIOUS
  <2> QED
    BY PropreEst
<1>3. EstSet(m) \/ EstUnset(m) => SansAppel = arg
  BY PropreSet, SansAppelIci
<1>4. /\ EstSet(m) => ~EstUnset(m) /\ ~EstCd(m) /\ ~EstSee(m)
      /\ EstUnset(m) => ~EstCd(m) /\ ~EstSee(m)
      /\ EstSee(m) => ~EstCd(m)
      /\ EstSet(m) \/ EstUnset(m) \/ EstSee(m) \/ EstCd(m) <=> Interne(m)
  BY Zenon DEF EstSet, EstUnset, EstCd, EstSee, Interne
<1>5. Signe(m) => ~Interne(m)
  BY SigneExterne
<1> DEFINE x == Applique(Etats3, m, arg)
<1>6. /\ x.env = IF EstSet(m) THEN Avec(environ, Avant(arg, Egal), Apres(arg, Egal))
                 ELSE IF EstUnset(m) THEN Sauf(environ, arg)
                 ELSE environ
      /\ x.rep = IF EstCd(m) /\ Cible(arg) \in Repertoires THEN Cible(arg) ELSE repertoire
      /\ x.appels = IF Interne(m) THEN appels ELSE Append(appels, Appel(Etats3, m, arg))
      /\ x = [env |-> x.env, rep |-> x.rep, appels |-> x.appels]
      /\ Etats3.rep = repertoire
  BY DEF Applique, Etats3
<1> HIDE DEF x
<1>7. /\ environ' = x.env /\ repertoire' = x.rep /\ appels' = x.appels => Etats3' = x
      /\ UNCHANGED <<environ, repertoire, appels>> => Etats3' = Etats3
  BY <1>6 DEF Etats3
<1>8. CASE SeparateurSaute
  <2>1. Signe(m) /\ UNCHANGED <<environ, repertoire, appels>>
    BY <1>1, <1>8 DEF SeparateurSaute, Signe
  <2> QED
    BY <1>7, <2>1
<1>9. CASE SetVariableLocale
  <2>1. /\ EstSet(m) /\ UNCHANGED <<repertoire, appels>>
        /\ environ' = Setenv(Avant(SansAppel, Egal), Avant(Apres(SansAppel, Egal), Fin))
    BY <1>1, <1>9, Zenon DEF SetVariableLocale, Egal, Fin
  <2>2. Avant(arg, Egal) # <<>>
    BY <2>1 DEF Propre
  <2>3. environ' = Setenv(Avant(arg, Egal), Apres(arg, Egal))
    BY <1>2, <1>3, <2>1, Zenon
  <2>4. environ' = Avec(environ, Avant(arg, Egal), Apres(arg, Egal))
    BY <2>2, <2>3, Zenon DEF Setenv, Avec
  <2>5. environ' = x.env /\ repertoire' = x.rep /\ appels' = x.appels
    BY <1>4, <1>6, <2>1, <2>4, Zenon
  <2> QED
    BY <1>4, <1>5, <1>7, <2>1, <2>5 DEF x
<1>10. CASE DelVariableLocale
  <2>1. /\ EstUnset(m) /\ UNCHANGED <<repertoire, appels>>
        /\ environ' = [n \in DOMAIN environ \ {SansAppel} |-> environ[n]]
    BY <1>1, <1>10, Zenon DEF DelVariableLocale
  <2>2. environ' = Sauf(environ, arg)
    BY <1>3, <2>1, Zenon DEF Sauf
  <2>3. environ' = x.env /\ repertoire' = x.rep /\ appels' = x.appels
    BY <1>4, <1>6, <2>1, <2>2, Zenon
  <2> QED
    BY <1>4, <1>5, <1>7, <2>1, <2>3 DEF x
<1>11. CASE AfficherVariables
  <2>1. EstSee(m) /\ UNCHANGED <<environ, repertoire, appels>>
    BY <1>1, <1>11, Zenon DEF AfficherVariables
  <2>2. environ' = x.env /\ repertoire' = x.rep /\ appels' = x.appels
    BY <1>4, <1>6, <2>1, Zenon
  <2> QED
    BY <1>4, <1>5, <1>7, <2>1, <2>2 DEF x
<1>12. CASE ExecuterCd
  <2>1. /\ EstCd(m) /\ UNCHANGED <<environ, appels>>
        /\ repertoire' = LET cible == IF Len(m) <= 2 THEN Maison ELSE SubSeq(m, 3, Len(m))
                         IN  IF cible \in Repertoires THEN cible ELSE repertoire
    BY <1>1, <1>12, Zenon DEF ExecuterCd
  <2>2. (IF Len(m) <= 2 THEN Maison ELSE SubSeq(m, 3, Len(m))) = Cible(arg)
    BY <1>2, <2>1, Zenon DEF Cible
  <2>3. repertoire' = x.rep
    BY <1>6, <2>1, <2>2, Zenon
  <2>4. environ' = x.env /\ appels' = x.appels
    BY <1>4, <1>6, <2>1, Zenon
  <2> QED
    BY <1>4, <1>5, <1>7, <2>1, <2>3, <2>4 DEF x
<1>13. CASE Programme
  <2>1. /\ ~Signe(m) /\ ~Interne(m) /\ UNCHANGED <<environ, repertoire>>
        /\ appels' = Append(appels, [rep |-> repertoire,
                         args |-> IF EstMy(m) THEN <<m>> ELSE Arguments(m)])
    <3>1. /\ ~Signe(m) /\ UNCHANGED <<environ, repertoire>>
          /\ ~\E interne \in {"set", "unset", "see", "cd"} : Est(interne)
          /\ appels' = Append(appels, [rep |-> repertoire,
                         args |-> IF EstMy(m) THEN <<m>> ELSE Arguments(m)])
      BY <1>1, <1>13, Zenon DEF Programme, Signe
    <3>2. ~Est("set") /\ ~Est("unset") /\ ~Est("see") /\ ~Est("cd")
      BY <3>1, Zenon
    <3> QED
      BY <1>1, <3>1, <3>2, Zenon DEF Interne
  <2>2. (IF EstMy(m) THEN <<m>> ELSE Arguments(m))
        = (IF EstMy(m) \/ arg = <<>> THEN <<m>> ELSE <<Avant(m, Blanc), arg>>)
    BY <1>2, Zenon
  <2>3. appels' = Append(appels, Appel(Etats3, m, arg))
    BY <1>6, <2>1, <2>2, Zenon DEF Appel
  <2>4. environ' = x.env /\ repertoire' = x.rep /\ appels' = x.appels
    BY <1>4, <1>6, <2>1, <2>3, Zenon
  <2> QED
    BY <1>7, <2>1, <2>4 DEF x
<1> QED
  BY <1>8, <1>9, <1>10, <1>11, <1>12, <1>13

-----------------------------------------------------------------------------
(* The words of a line that is ordinary.                                   *)
LEMMA SchemaVariable ==
  ASSUME NEW T, NEW m \in Seq(T), Schema(m)
  PROVE  Variable(m)
<1>1. PICK q \in 1 .. Len(m) - 2 : Vue(m, q)
  BY SchemaEst
<1>2. m[q + 1] = Dollar /\ q + 1 \in 1 .. Len(m)
  BY <1>1, LenProperties, Signes3 DEF Vue
<1> QED
  BY <1>2, SansVariable

LEMMA ParValeurClair ==
  ASSUME NEW m \in Paroles, Appelle(m), NEW v, v # <<>>
  PROVE  ParValeur(m, v) = Avant(m, Dollar) \o v
<1>1. PlaceVariable(m) = Premier(m, Dollar) /\ Premier(m, Dollar) # 0
  BY UsageAppelee DEF Paroles
<1>2. Avant(m, Dollar) = SubSeq(m, 1, Premier(m, Dollar) - 1)
  BY <1>1, AvantApres
<1> QED
  BY <1>1, <1>2, Zenon DEF ParValeur

LEMMA RegulierRendu ==
  ASSUME debut \in Etats, NEW w \in Paroles, Reguliere(w), NEW m, m = Clair(w, debut.env)
  PROVE  /\ Propre(m) /\ ~Schema(m) /\ (Signe(w) <=> Signe(m))
         /\ Variable(w) => /\ Appelle(w) /\ Usage(w) \in DOMAIN debut.env
                           /\ debut.env[Usage(w)] # <<>>
         /\ m = IF Variable(w) THEN Avant(w, Dollar) \o debut.env[Usage(w)] ELSE w
<1>1. /\ Propre(w)
      /\ Variable(w) => /\ Appelle(w) /\ Usage(w) \in DOMAIN debut.env
                        /\ debut.env[Usage(w)] # <<>>
                        /\ Range(debut.env[Usage(w)]) \cap {Blanc, Dollar, Egal} = {}
  BY ReguliereEst
<1>2. m = IF Variable(w) THEN Avant(w, Dollar) \o debut.env[Usage(w)] ELSE w
  BY ClairEst, Zenon
<1>3. CASE ~Variable(w)
  <2>1. ~Schema(w)
    BY <1>3, SchemaVariable DEF Paroles
  <2> QED
    BY <1>1, <1>2, <1>3, <2>1
<1>4. CASE Variable(w)
  <2> PICK v : v = debut.env[Usage(w)]
    OBVIOUS
  <2>1. v \in Paroles /\ v # <<>> /\ Nu(v) /\ Appelle(w) /\ m = Avant(w, Dollar) \o v
    <3>1. debut.env \in Environs
      BY DEF Etats
    <3>2. v \in Paroles
      BY <1>1, <1>4, <3>1, EnvironEst, Zenon
    <3>3. Range(v) \cap {Blanc, Dollar, Egal} = {} /\ v # <<>> /\ Appelle(w)
      BY <1>1, <1>4
    <3>4. Nu(v)
      BY <3>2, <3>3, RangeNu DEF Paroles
    <3> QED
      BY <1>2, <1>4, <3>2, <3>3, <3>4
  <2>2. Propre(m) /\ ~Variable(m) /\ \E k \in 1 .. Len(m) : EstBlanc(m[k])
    BY <1>1, <1>4, <2>1, ClairPropre
  <2>3. ~Schema(m)
    BY <2>2, SchemaVariable DEF Propre, Paroles
  <2>4. ~Signe(m)
    BY <2>2, SigneExterne
  <2>5. ~Signe(w)
    <3>1. PICK n \in 1 .. Len(w) : Remplacant(n, w, v, m)
      BY <1>1, <1>4, <2>1, AppelRemplace
    <3>2. EstBlanc(w[n])
      BY <3>1 DEF Remplacant
    <3> QED
      BY <3>2, SigneExterne
  <2> QED
    BY <1>1, <1>2, <1>4, <2>2, <2>3, <2>4, <2>5
<1> QED
  BY <1>3, <1>4

Rendu(k) == Reguliere(lus[k + 1]) => Lus[k] = Clair(lus[k + 1], debut.env)
Reste(n) == \A l \in 1 .. rang : n \notin Change(Clair(lus[l], debut.env))
Fidele == (\A k \in 1 .. Len(lus) : Reguliere(lus[k])) /\ SansReprise

\* The words up to rang are clear, and the one at rang is so or is not yet.
Ecrite ==
    /\ \A k \in Rangs : k < rang => Rendu(k)
    /\ rang < nbCommandes => Lus[rang] = lus[rang + 1] \/ Rendu(rang)

\* What has been executed, and the variables that it left alone.
Suivie == Fidele => /\ Etats3 = Lecture(rang)
                    /\ \A n \in DOMAIN debut.env : Reste(n) =>
                           n \in DOMAIN environ /\ environ[n] = debut.env[n]

FideleInv ==
    /\ phase = "remplace" => Ecrite
    /\ phase \in {"execute", "attend"} =>
           (\A k \in Rangs : k < nbCommandes => Rendu(k)) /\ Suivie
    /\ phase = "attend" => rang = nbCommandes

-----------------------------------------------------------------------------
(* Each step keeps the words and what has been executed of them.           *)
LEMMA RenduMeme ==
  ASSUME UNCHANGED <<debut, lus>>
  PROVE  /\ \A k : Reguliere(lus[k])' <=> Reguliere(lus[k])
         /\ \A k : Lus'[k] = Lus[k] => (Rendu(k)' <=> Rendu(k))
<1>1. ASSUME NEW k PROVE Reguliere(lus[k])' <=> Reguliere(lus[k])
  BY Zenon DEF Reguliere
<1>2. ASSUME NEW k, Lus'[k] = Lus[k] PROVE Rendu(k)' <=> Rendu(k)
  <2>1. Reguliere(lus[k + 1])' <=> Reguliere(lus[k + 1])
    BY <1>1
  <2> QED
    BY <1>2, <2>1, Zenon DEF Rendu
<1> QED
  BY <1>1, <1>2

LEMMA LectureMeme == Lecture(rang)' = Lectures(rang', debut', lus')[rang']
  BY Zenon DEF Lecture, Lectures, Lit, Suite, Commence

LEMMA LireFidele ==
  ASSUME SessionInv, Lire
  PROVE  FideleInv'
<1>1. phase = "coupe" /\ Tapee /\ Fini
  BY DEF Lire, SessionInv
<1>2. /\ UNCHANGED vars /\ lus' = Mots /\ rang' = rang /\ phase' \in {"fini", "remplace"}
  BY DEF Lire
<1>3. Bornes /\ Curseur /\ Provenance /\ rang = 0
  BY <1>1 DEF Tapee
<1>4. Lus' = Lus
  BY <1>2 DEF vars, Lus
<1>5. nbCommandes \in 1 .. sizelgcmd /\ \A k \in Rangs : k < nbCommandes => Mots[k + 1] = Lus[k]
  BY <1>1, <1>3, MotsLus
<1>6. \A k \in Rangs : ~(k < 0)
  BY DEF Rangs
<1>7. Lus[0] = Mots[0 + 1]
  <2>1. 0 \in Rangs /\ 0 < nbCommandes
    BY <1>5, ChaineAssumption DEF Rangs
  <2> QED
    BY <1>5, <2>1
<1>8. Ecrite'
  <2>1. \A k \in Rangs : ~(k < rang')
    BY <1>2, <1>3, <1>6
  <2>2. Lus'[rang'] = lus'[rang' + 1]
    BY <1>2, <1>3, <1>4, <1>7
  <2> QED
    BY <2>1, <2>2 DEF Ecrite
<1> QED
  BY <1>2, <1>8 DEF FideleInv

LEMMA SubstituerFidele ==
  ASSUME SessionInv, FideleInv, Substituer
  PROVE  FideleInv'
<1>1. phase = "remplace" /\ rang < nbCommandes /\ Schema(Mot) /\ Ecrite
  BY DEF Substituer, FideleInv
<1>2. /\ Session /\ Lue /\ Neuve /\ rang \in Rangs /\ Mot = Lus[rang] /\ Mot \in Paroles
  BY <1>1, VariableDeMot, Zenon
<1> PICK nom : nom = NomVariable(Mot)
  OBVIOUS
<1>3. CASE ~Defini(nom) /\ phase' = "mort" /\ UNCHANGED <<vars, session>>
  BY <1>3 DEF FideleInv
<1>4. CASE Defini(nom) /\ EcrireMot(ParValeur(Mot, environ[nom]))
  <2> PICK v, mot : v = environ[nom] /\ mot = ParValeur(Mot, v)
    OBVIOUS
  <2>0. SessionInv' /\ phase' = phase
    <3>1. phase' = phase
      BY <1>4 DEF EcrireMot
    <3> QED
      BY <3>1, SubstituerPas
  <2>1. mot \in Paroles
    <3>1. /\ DOMAIN environ \subseteq Noms /\ v \in Paroles /\ nom \in DOMAIN environ
      BY <1>2, <1>4, EnvironEst, Zenon DEF Session, Defini
    <3>2. ~Schema(nom)
      BY <3>1 DEF Noms
    <3> QED
      BY <1>1, <1>2, <3>1, <3>2, ParValeurType DEF Paroles
  <2>2. /\ rang + 1 \in 1 .. Len(lus)
        /\ Lus'[rang] = mot /\ \A k \in Rangs : k # rang => Lus'[k] = Lus[k]
        /\ UNCHANGED <<nbCommandes, phase, rang, environ, debut, lus>>
    <3>1. rang \in 0 .. nbCommandes /\ EcrireMot(mot)
      BY <1>2, <1>4 DEF Session
    <3> QED
      BY <1>1, <1>2, <2>1, <3>1, MotEcrit, Zenon
  <2>3. ASSUME Reguliere(lus[rang + 1])
        PROVE  mot = Clair(lus[rang + 1], debut.env)
    <3> PICK w, m : w = lus[rang + 1] /\ m = Clair(w, debut.env)
      OBVIOUS
    <3>1. w \in Paroles /\ debut \in Etats
      BY <1>2, <2>2, ElementOfSeq DEF Lue, Session
    <3>2. /\ ~Schema(m)
          /\ Variable(w) => Appelle(w) /\ debut.env[Usage(w)] # <<>>
          /\ m = IF Variable(w) THEN Avant(w, Dollar) \o debut.env[Usage(w)] ELSE w
      BY <2>3, <3>1, RegulierRendu
    <3>3. Mot = w
      BY <1>1, <1>2, <2>3, <3>2 DEF Ecrite, Rendu
    <3>4. Variable(w)
      BY <1>1, <3>1, <3>3, SchemaVariable DEF Paroles
    <3>5. nom = Usage(w)
      BY <3>1, <3>2, <3>3, <3>4, UsageAppelee DEF Paroles
    <3>6. v = debut.env[Usage(w)]
      BY <1>2, <3>5 DEF Neuve, Etat
    <3>7. ParValeur(w, v) = Avant(w, Dollar) \o v
      BY <3>1, <3>2, <3>4, <3>6, ParValeurClair
    <3> QED
      BY <3>2, <3>3, <3>4, <3>6, <3>7
  <2>4. Ecrite'
    <3>1. \A k \in Rangs : k < rang => Rendu(k)
      BY <1>1 DEF Ecrite
    <3>2. \A k \in Rangs : k < rang => k # rang
      BY <1>2 DEF Session
    <3>3. \A k \in Rangs : k < rang => Rendu(k)'
      BY <2>2, <3>1, <3>2, RenduMeme
    <3>4. Rendu(rang)'
      <4>1. Reguliere(lus[rang + 1])' => Reguliere(lus[rang + 1])
        BY <2>2, Zenon DEF Reguliere
      <4> QED
        BY <2>2, <2>3, <4>1, Zenon DEF Rendu
    <3> QED
      BY <2>2, <3>3, <3>4 DEF Ecrite
  <2> QED
    BY <1>1, <2>2, <2>4 DEF FideleInv
<1> QED
  BY <1>3, <1>4 DEF Substituer

LEMMA PasserMotFidele ==
  ASSUME SessionInv, FideleInv, PasserMot
  PROVE  FideleInv'
<1>1. phase = "remplace" /\ Session /\ Lue /\ Remplacees /\ Neuve /\ Ecrite
  BY DEF PasserMot, SessionInv, FideleInv
<1>2. /\ UNCHANGED <<environ, repertoire, debut, lus, appels>>
      /\ UNCHANGED <<nbCommandes, Lus>>
  BY DEF PasserMot, vars, Lus
<1>3. /\ rang \in 0 .. nbCommandes /\ nbCommandes \in Nat /\ nbCommandes \in 1 .. sizelgcmd
      /\ sizelgcmd \in Nat /\ rang \in Nat
  BY <1>1, ChaineAssumption DEF Session, Lue
<1>4. \A k : Rendu(k)' <=> Rendu(k)
  BY <1>2, RenduMeme
<1>5. CASE rang < nbCommandes /\ ~Schema(Mot) /\ rang' = rang + 1 /\ UNCHANGED phase
  <2>1. rang \in Rangs /\ rang + 1 \in 1 .. Len(lus)
    BY <1>1, <1>3, <1>5 DEF Rangs, Lue
  <2>2. Mot = Lus[rang]
    BY <1>1, <2>1, MotsDeLigne DEF Mot
  <2>3. Rendu(rang)
    <3> PICK w, m : w = lus[rang + 1] /\ m = Clair(w, debut.env)
      OBVIOUS
    <3>1. w \in Paroles /\ debut \in Etats
      BY <1>1, <2>1, ElementOfSeq DEF Lue, Session
    <3>2. ASSUME Reguliere(w), Mot = w PROVE Mot = m
      <4>1. /\ Variable(w) => Appelle(w)
            /\ m = IF Variable(w) THEN Avant(w, Dollar) \o debut.env[Usage(w)] ELSE w
        BY <3>1, <3>2, RegulierRendu
      <4>2. ~Appelle(w)
        BY <1>5, <3>1, <3>2, UsageAppelee DEF Paroles
      <4> QED
        BY <3>2, <4>1, <4>2
    <3> QED
      BY <1>1, <1>5, <2>2, <3>2 DEF Ecrite, Rendu
  <2>4. \A k \in Rangs : k < rang' => Rendu(k)
    <3> TAKE k \in Rangs
    <3>1. k < rang' => k = rang \/ k < rang
      BY <1>3, <1>5 DEF Rangs
    <3> QED
      BY <1>1, <2>3, <3>1 DEF Ecrite
  <2>5. rang' < nbCommandes => Lus[rang'] = lus[rang' + 1]
    <3> SUFFICES ASSUME rang' < nbCommandes PROVE Lus[rang'] = lus[rang' + 1]
      OBVIOUS
    <3>1. rang' \in Rangs /\ rang < rang'
      BY <1>3, <1>5 DEF Rangs
    <3> QED
      BY <1>1, <3>1 DEF Remplacees
  <2>6. Ecrite'
    BY <1>2, <1>4, <2>4, <2>5, Zenon DEF Ecrite
  <2> QED
    BY <1>1, <1>5, <2>6 DEF FideleInv
<1>6. CASE rang = nbCommandes /\ rang' = 0 /\ phase' = "execute"
  <2>1. \A k \in Rangs : k < nbCommandes' => Rendu(k)'
    BY <1>1, <1>2, <1>4, <1>6 DEF Ecrite
  <2>2. Etats3' = Lecture(rang)'
    <3>1. Etats3' = Commence(debut')
      BY <1>1, <1>2 DEF Etats3, Commence, Neuve, Etat
    <3>2. Lecture(rang)' = Lectures(rang', debut', lus')[rang']
      BY LectureMeme
    <3>3. Lectures(0, debut', lus')[0] = Commence(debut')
      <4>1. 0 \in Nat /\ 1 = 0 + 1
        OBVIOUS
      <4> QED
        BY <4>1, LectureSuit, Zenon
    <3> QED
      BY <1>6, <3>1, <3>2, <3>3
  <2>3. \A n \in DOMAIN debut'.env : n \in DOMAIN environ' /\ environ'[n] = debut'.env[n]
    BY <1>1, <1>2 DEF Neuve, Etat
  <2>4. Suivie'
    BY <2>2, <2>3 DEF Suivie
  <2> QED
    BY <1>6, <2>1, <2>4 DEF FideleInv
<1> QED
  BY <1>5, <1>6 DEF PasserMot

LEMMA ChangeEst ==
  ASSUME NEW m, EstSet(m) \/ EstUnset(m)
  PROVE  Apres(m, Blanc) \in Change(m) /\ Avant(Apres(m, Blanc), Egal) \in Change(m)
<1>1. m[1] \in {"set", "unset"}
  BY Zenon DEF EstSet, EstUnset
<1> QED
  BY <1>1, Zenon DEF Change, Blanc, Egal

LEMMA FideleMeme ==
  ASSUME UNCHANGED <<debut, lus>>
  PROVE  Fidele' <=> Fidele
<1>1. SansReprise' <=> SansReprise
  BY Zenon DEF SansReprise
<1>2. \A k : Reguliere(lus[k])' <=> Reguliere(lus[k])
  BY RenduMeme
<1>3. lus' = lus
  OBVIOUS
<1> QED
  BY <1>1, <1>2, <1>3, Zenon DEF Fidele

\* A command changes no other variable than those it names.
LEMMA AppliqueGarde ==
  ASSUME NEW x, NEW m, NEW n, n \notin Change(m), n \in DOMAIN x.env,
         NEW arg, arg = Apres(m, Blanc), NEW f, f = Applique(x, m, arg).env
  PROVE  n \in DOMAIN f /\ f[n] = x.env[n]
<1> PICK nom : nom = Avant(arg, Egal)
  OBVIOUS
<1> DEFINE e == Applique(x, m, arg).env
<1>1. e = IF EstSet(m) THEN Avec(x.env, nom, Apres(arg, Egal))
          ELSE IF EstUnset(m) THEN Sauf(x.env, arg)
          ELSE x.env
  BY DEF Applique
<1> HIDE DEF e
<1>2. EstSet(m) \/ EstUnset(m) => n # arg /\ n # nom
  BY ChangeEst, Zenon
<1>3. n \in DOMAIN e /\ e[n] = x.env[n]
  <2>1. CASE EstSet(m)
    BY <1>1, <1>2, <2>1 DEF Avec
  <2>2. CASE ~EstSet(m) /\ EstUnset(m)
    BY <1>1, <1>2, <2>2 DEF Sauf
  <2>3. CASE ~EstSet(m) /\ ~EstUnset(m)
    BY <1>1, <2>3
  <2> QED
    BY <2>1, <2>2, <2>3
<1> QED
  BY <1>3, Zenon DEF e

LEMMA ExecuterFidele ==
  ASSUME SessionInv, FideleInv,
         \/ SeparateurSaute \/ SetVariableLocale \/ DelVariableLocale
         \/ AfficherVariables \/ ExecuterCd \/ Programme
  PROVE  FideleInv'
<1>1. Execute /\ MotSuivant
  BY DEF SeparateurSaute, SetVariableLocale, DelVariableLocale, AfficherVariables,
         ExecuterCd, Programme
<1>2. /\ phase = "execute" /\ phase' = phase /\ rang < nbCommandes /\ rang' = rang + 1
      /\ UNCHANGED <<debut, lus, nbCommandes, Lus>>
  BY <1>1 DEF Execute, MotSuivant, vars, Lus
<1>3. Session /\ Lue
  BY <1>2 DEF SessionInv
<1>4. (\A k \in Rangs : k < nbCommandes => Rendu(k)) /\ Suivie
  BY <1>2 DEF FideleInv
<1>5. /\ rang \in Nat /\ rang \in Rangs /\ rang + 1 \in 1 .. Len(lus)
      /\ nbCommandes \in Nat /\ Len(lus) = nbCommandes
  BY <1>2, <1>3, ChaineAssumption DEF Session, Lue, Rangs
<1>6. \A k \in Rangs : k < nbCommandes' => Rendu(k)'
  BY <1>2, <1>4, RenduMeme
<1>7. ASSUME Fidele
      PROVE  /\ Etats3' = Lecture(rang)'
             /\ \A n \in DOMAIN debut.env : Reste(n)' =>
                    n \in DOMAIN environ' /\ environ'[n] = debut.env[n]
  <2> PICK r, w, m, arg : /\ r = rang + 1 /\ w = lus[r]
                          /\ m = Lus[rang] /\ arg = Apres(m, Blanc)
    OBVIOUS
  <2>1. w \in Paroles /\ debut \in Etats /\ Reguliere(w)
    BY <1>3, <1>5, <1>7, ElementOfSeq DEF Lue, Session, Fidele
  <2>2. m = Clair(w, debut.env)
    BY <1>2, <1>4, <1>5, <2>1 DEF Rendu
  <2>3. /\ Propre(m) /\ (Signe(w) <=> Signe(m))
        /\ Variable(w) => Usage(w) \in DOMAIN debut.env
        /\ m = IF Variable(w) THEN Avant(w, Dollar) \o debut.env[Usage(w)] ELSE w
    BY <2>1, <2>2, RegulierRendu
  <2>4. Etats3' = IF Signe(m) THEN Etats3 ELSE Applique(Etats3, m, arg)
    BY <1>3, <1>5, <2>3, MotFait
  <2>5. /\ Etats3 = Lecture(rang)
        /\ \A n \in DOMAIN debut.env : Reste(n) =>
               n \in DOMAIN environ /\ environ[n] = debut.env[n]
    BY <1>4, <1>7 DEF Suivie
  <2>6. Etats3.env = environ /\ Etats3'.env = environ'
    BY DEF Etats3
  <2>7. Clair(w, environ) = m
    <3>1. CASE Variable(w)
      <4> PICK u : u = Usage(w)
        OBVIOUS
      <4>1. Reste(u)
        <5>1. SansReprise
          BY <1>7 DEF Fidele
        <5>2. \A l \in 1 .. rang : l \in 1 .. Len(lus) /\ l < r
          BY <1>5
        <5>3. r \in 1 .. Len(lus)
          BY <1>5
        <5> QED
          BY <5>1, <5>2, <5>3, Zenon DEF SansReprise, Reste
      <4>2. environ[u] = debut.env[u]
        BY <2>3, <2>5, <3>1, <4>1
      <4>3. Clair(w, environ) = Avant(w, Dollar) \o environ[u]
        BY <3>1, ClairEst, Zenon
      <4> QED
        BY <2>3, <3>1, <4>2, <4>3, Zenon
    <3>2. CASE ~Variable(w)
      BY <2>3, <3>2, ClairEst, Zenon
    <3> QED
      BY <3>1, <3>2
  <2>8. Suite(Etats3, w) = Etats3'
    <3>1. Resultat(Etats3, w) = Applique(Etats3, m, arg)
      BY <2>6, <2>7, ResultatEst, Zenon
    <3> QED
      BY <2>3, <2>4, <3>1, Zenon DEF Suite, Signe
  <2>9. Etats3' = Lecture(rang)'
    <3>1. Lectures(r, debut, lus)[r] = Suite(Lectures(rang, debut, lus)[rang], w)
      <4>1. Lectures(r, debut, lus)[r] = Suite(Lectures(rang, debut, lus)[rang], lus[r])
        BY ONLY r = rang + 1, <1>5, LectureSuit
      <4> QED
        BY <4>1, Zenon
    <3>2. Lectures(rang, debut, lus)[rang] = Etats3
      BY <2>5, LectureEst, Zenon
    <3>3. Lecture(rang)' = Lectures(r, debut, lus)[r]
      BY <1>2, LectureMeme, Zenon
    <3> QED
      BY <2>8, <3>1, <3>2, <3>3, Zenon
  <2>10. ASSUME NEW n \in DOMAIN debut.env, Reste(n)'
         PROVE  n \in DOMAIN environ' /\ environ'[n] = debut.env[n]
    <3>1. \A l \in 1 .. r : n \notin Change(Clair(lus[l], debut.env))
      BY <1>2, <2>10, Zenon DEF Reste
    <3>2. (\A l \in 1 .. rang : l \in 1 .. r) /\ r \in 1 .. r
      BY <1>5
    <3>3. Reste(n) /\ n \notin Change(m)
      BY <2>2, <3>1, <3>2, Zenon DEF Reste
    <3>4. n \in DOMAIN environ /\ environ[n] = debut.env[n]
      BY <2>5, <3>3
    <3>5. CASE Signe(m)
      BY <2>4, <2>6, <3>4, <3>5
    <3>6. CASE ~Signe(m)
      <4>1. environ' = Applique(Etats3, m, arg).env
        BY <2>4, <2>6, <3>6
      <4>2. n \in DOMAIN Etats3.env
        BY <2>6, <3>4
      <4>3. n \in DOMAIN environ' /\ environ'[n] = Etats3.env[n]
        BY <3>3, <4>1, <4>2, AppliqueGarde
      <4> QED
        BY <2>6, <3>4, <4>3, Zenon
    <3> QED
      BY <3>5, <3>6
  <2> QED
    BY <2>9, <2>10
<1>8. Suivie'
  <2>1. Fidele' => Fidele
    BY <1>2, FideleMeme
  <2> QED
    BY <1>2, <1>7, <2>1, Zenon DEF Suivie
<1> QED
  BY <1>2, <1>6, <1>8 DEF FideleInv

LEMMA FidelePas == SessionInv /\ FideleInv /\ [NextTexte]_varsTexte => FideleInv'
<1> SUFFICES ASSUME SessionInv, FideleInv, [NextTexte]_varsTexte PROVE FideleInv'
  OBVIOUS
<1>1. ASSUME UNCHANGED <<rang, environ, repertoire, debut, lus, appels, nbCommandes, Lus>>,
             phase' = phase \/ (FinLigne /\ phase = "execute" /\ phase' = "attend")
      PROVE  FideleInv'
  <2>1. (\A k \in Rangs : Rendu(k)' <=> Rendu(k)) /\ (Fidele' <=> Fidele)
    BY <1>1, RenduMeme, FideleMeme
  <2>2. Ecrite => Ecrite'
    <3> SUFFICES ASSUME Ecrite PROVE Ecrite'
      OBVIOUS
    <3>1. Rendu(rang)' <=> Rendu(rang)
      BY <1>1, RenduMeme
    <3> QED
      BY <1>1, <2>1, <3>1, Zenon DEF Ecrite
  <2>3. Etats3' = Etats3 /\ Lecture(rang)' = Lecture(rang)
    <3>1. Lecture(rang)' = Lecture(rang)
      BY <1>1, LectureMeme, LectureEst, Zenon
    <3> QED
      BY <1>1, <3>1, Zenon DEF Etats3
  <2>4. \A n : Reste(n)' <=> Reste(n)
    BY <1>1, Zenon DEF Reste
  <2>5. Suivie => Suivie'
    BY <1>1, <2>1, <2>3, <2>4, Zenon DEF Suivie
  <2>6. CASE phase' = phase
    BY <1>1, <2>1, <2>2, <2>5, <2>6 DEF FideleInv
  <2>7. CASE FinLigne /\ phase = "execute" /\ phase' = "attend"
    BY <1>1, <2>1, <2>5, <2>7 DEF FideleInv, FinLigne
  <2> QED
    BY <1>1, <2>6, <2>7
<1>2. CASE UNCHANGED varsTexte
  BY <1>1, <1>2 DEF varsTexte, vars, session, Lus
<1>3. CASE FinLigne
  BY <1>1, <1>3 DEF FinLigne, vars, session, Lus
<1>4. CASE Demander \/ Gerer \/ Rendre \/ Descendre \/ Remonter
  BY <1>4 DEF Demander, Gerer, Rendre, Descendre, Remonter, Vider, FideleInv
<1>5. CASE Lire \/ Substituer \/ PasserMot
  BY <1>5, LireFidele, SubstituerFidele, PasserMotFidele
<1>6. CASE \/ SeparateurSaute \/ SetVariableLocale \/ DelVariableLocale
           \/ AfficherVariables \/ ExecuterCd \/ Programme
  BY <1>6, ExecuterFidele
<1> QED
  BY <1>2, <1>3, <1>4, <1>5, <1>6 DEF NextTexte, Shell

(* After a line of ordinary commands the variables, the directory and the  *)
(* programs that were run are what its words say when they are read one    *)
(* after the other, each with the values it finds: that all variables are  *)
(* replaced before the first word is executed is not seen.                 *)
THEOREM CommandesFideles == SpecTexte => []DernieresValeurs
<1>1. SessionInit => FideleInv
  BY DEF SessionInit, FideleInv
<1>2. SessionInv /\ FideleInv => DernieresValeurs
  <2> SUFFICES ASSUME SessionInv, FideleInv, phase = "attend", Fidele
               PROVE  Etats3 = Lecture(Len(lus))
    BY DEF DernieresValeurs, Fidele, Etats3
  <2>1. rang = nbCommandes /\ Suivie
    BY DEF FideleInv
  <2>2. Len(lus) = nbCommandes
    BY DEF SessionInv, Lue
  <2> QED
    BY <2>1, <2>2 DEF Suivie
<1> QED
  BY <1>1, <1>2, SessionInvariant, FidelePas, PTL DEF SpecTexte

=============================================================================
