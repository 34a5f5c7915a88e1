----------------------------- MODULE GererChaine -----------------------------
(***************************************************************************)
(* gererChaine, which cuts a line into commands and separators: the loop   *)
(* over the characters of gestionChaine.c with its cursors.                *)
(*                                                                         *)
(* A line is a sequence of characters that fits into a word; fgets may give*)
(* a longer one, whose words need not have room. ">" stands for any of the *)
(* operators of redirection.  A buffer of C is a sequence that NUL may cut.*)
(***************************************************************************)
EXTENDS Integers, Sequences, FiniteSets, SequencesExt

CONSTANTS
    Caracteres,   \* characters of the lines
    Lignes,       \* lines that may be typed
    sizelgcmd,    \* words
    sizeWord      \* room in a word, with the NUL at its end

NUL == "NUL"

ASSUME ChaineAssumption ==
    /\ sizeWord \in Nat /\ sizelgcmd \in Nat /\ sizeWord <= sizelgcmd
    /\ \A l \in Lignes : l \in Seq(Caracteres) /\ Len(l) < sizeWord
    /\ NUL \notin Caracteres

Tube == <<"|">>
Doubles == {<<"|", "|">>, <<"&", "&">>}
Blancs == {" ", "\n"}

Rangs == 0 .. sizelgcmd - 1

VARIABLES
    commande,              \* the line
    i, j,                  \* cursors in the line and in the current word
    nbEspace,              \* blanks met in the current command
    indexCommandes,        \* the current word
    commandeSansEspaces,   \* the words
    nbCommandes            \* 0 until the end of the loop

vars == <<commande, i, j, nbEspace, indexCommandes, commandeSansEspaces,
          nbCommandes>>

Init == /\ commande \in Lignes
        /\ i = 0 /\ j = 0 /\ nbEspace = 0 /\ indexCommandes = 0
        /\ commandeSansEspaces = [k \in Rangs |-> <<>>]
        /\ nbCommandes = 0

-----------------------------------------------------------------------------
(* Strings of C.                                                           *)
Car(k) == commande[k + 1]
Espace(k) == k < Len(commande) /\ Car(k) \in Blancs
UnSi(b) == IF b THEN 1 ELSE 0

\* strncmp(commande + i, s, strlen(s)) == 0
Suit(s) == i + Len(s) <= Len(commande) /\ SubSeq(commande, i + 1, i + Len(s)) = s

EstNul(c) == c = NUL
Chaine(mot) == LET n == SelectInSeq(mot, EstNul) IN
               IF n = 0 THEN mot ELSE SubSeq(mot, 1, n - 1)

\* mot[k] = c, on a buffer that was zero at first.  One before the buffer is
\* a byte of the allocator, which is zero already.
Poser(mot, k, c) ==
    IF k = -1 \/ (c = NUL /\ k >= Len(mot)) THEN mot
    ELSE [n \in 1 .. (IF k < Len(mot) THEN Len(mot) ELSE k + 1) |->
            IF n = k + 1 THEN c ELSE IF n <= Len(mot) THEN mot[n] ELSE NUL]

Courant == commandeSansEspaces[indexCommandes]
Ecrire(mot) ==
    commandeSansEspaces' = [commandeSansEspaces EXCEPT ![indexCommandes] = mot]

doitRetirerEspace(mot) == ~IsPrefix(<<"t", "e", "s", "t">>, mot)

-----------------------------------------------------------------------------
(* The branches of the loop, in their order.                               *)
Boucle == i < Len(commande)
RetourLigne == Boucle /\ Car(i) = "\n"
PointVirgule == Boucle /\ Car(i) = ";"
Double == \E s \in Doubles : Suit(s)
TubeSeul == Suit(Tube) /\ ~Double /\ i + 1 < Len(commande)
Direction == <<" ", ">", " ">>

PasserRetourLigne ==
    /\ RetourLigne
    /\ i' = i + 1
    /\ UNCHANGED <<commande, j, nbEspace, indexCommandes, commandeSansEspaces,
                   nbCommandes>>

\* Mutant: the blanks of the command before are counted for this one.
CouperMutant ==
    /\ PointVirgule
    /\ indexCommandes' = indexCommandes + 1
    /\ j' = 0
    /\ i' = i + 1 + UnSi(Espace(i + 1))
    /\ UNCHANGED <<commande, nbEspace, commandeSansEspaces, nbCommandes>>

Couper ==
    /\ PointVirgule
    /\ indexCommandes' = indexCommandes + 1
    /\ nbEspace' = 0 /\ j' = 0
    /\ i' = i + 1 + UnSi(Espace(i + 1))
    /\ UNCHANGED <<commande, commandeSansEspaces, nbCommandes>>

\* Mutant: a character more is skipped, as after a single |.
CouperDoubleMutant ==
    /\ \E s \in Doubles :
           /\ Suit(s)
           /\ commandeSansEspaces' =
                  [commandeSansEspaces EXCEPT ![indexCommandes + 1] = s]
    /\ indexCommandes' = indexCommandes + 2
    /\ nbEspace' = 0 /\ j' = 0
    /\ i' = i + 3
    /\ UNCHANGED <<commande, nbCommandes>>

CouperDouble ==
    /\ \E s \in Doubles :
           /\ Suit(s)
           /\ commandeSansEspaces' =
                  [commandeSansEspaces EXCEPT ![indexCommandes + 1] = s]
    /\ indexCommandes' = indexCommandes + 2
    /\ nbEspace' = 0 /\ j' = 0
    /\ i' = i + 2 + UnSi(Espace(i + 2))
    /\ UNCHANGED <<commande, nbCommandes>>

\* Mutant: the next command is written into the separator.
CouperTubeMutant ==
    /\ TubeSeul
    /\ commandeSansEspaces' =
           [commandeSansEspaces EXCEPT ![indexCommandes] = Poser(@, i - 1, NUL),
                                       ![indexCommandes + 1] = Tube]
    /\ indexCommandes' = indexCommandes + 1
    /\ nbEspace' = nbEspace + 1 /\ j' = 0
    /\ i' = i + 2 + UnSi(Espace(i + 2))
    /\ UNCHANGED <<commande, nbCommandes>>

(* The character at i - 1 of the word is cleared, and the one after | is   *)
(* skipped, whether they are blanks or not.                                *)
CouperTube ==
    /\ TubeSeul
    /\ commandeSansEspaces' =
           [commandeSansEspaces EXCEPT ![indexCommandes] = Poser(@, i - 1, NUL),
                                       ![indexCommandes + 1] = Tube]
    /\ indexCommandes' = indexCommandes + 2
    /\ nbEspace' = nbEspace + 1 /\ j' = 0
    /\ i' = i + 2 + UnSi(Espace(i + 2))
    /\ UNCHANGED <<commande, nbCommandes>>

Texte == Boucle /\ ~RetourLigne /\ ~PointVirgule /\ ~Double /\ ~TubeSeul

\* Mutants: the widths of another operator.
RedirigerMutant ==
    /\ Texte /\ Suit(Direction)
    /\ Ecrire(Chaine(Courant) \o Direction)
    /\ i' = i + 3 /\ j' = j + 4
    /\ UNCHANGED <<commande, nbEspace, indexCommandes, nbCommandes>>
RedirigerTropLoin ==
    /\ Texte /\ Suit(Direction)
    /\ Ecrire(Chaine(Courant) \o Direction)
    /\ i' = i + 5 /\ j' = j + 3
    /\ UNCHANGED <<commande, nbEspace, indexCommandes, nbCommandes>>

Rediriger ==
    /\ Texte /\ Suit(Direction)
    /\ Ecrire(Chaine(Courant) \o Direction)
    /\ i' = i + 3 /\ j' = j + 3
    /\ UNCHANGED <<commande, nbEspace, indexCommandes, nbCommandes>>

\* A blank before && or ||, or a | at the very end.
AvantDouble == Car(i) = "|" \/ \E s \in Doubles : Suit(<<" ">> \o s)

(* The first blank of a command is kept, the others only those of test.    *)
Copier ==
    /\ Texte /\ ~Suit(Direction)
    /\ i' = i + 1
    /\ LET c == Car(i)
           mot == Poser(Courant, j, c)
       IN  \/ /\ nbEspace < 1 /\ AvantDouble
              /\ UNCHANGED <<j, nbEspace, commandeSansEspaces>>
           \/ /\ nbEspace < 1 /\ ~AvantDouble
              /\ Ecrire(mot) /\ j' = j + 1
              /\ nbEspace' = nbEspace
                             + UnSi(c \in Blancs /\ doitRetirerEspace(mot))
           \/ /\ nbEspace >= 1 /\ c \notin Blancs
              /\ Ecrire(mot) /\ j' = j + 1 /\ UNCHANGED nbEspace
           \/ /\ nbEspace >= 1 /\ c \in Blancs
              /\ nbEspace' = nbEspace + UnSi(doitRetirerEspace(Courant))
              /\ UNCHANGED <<j, commandeSansEspaces>>
    /\ UNCHANGED <<commande, indexCommandes, nbCommandes>>

Finir ==
    /\ ~Boucle /\ nbCommandes = 0
    /\ nbCommandes' = indexCommandes + 1
    /\ UNCHANGED <<commande, i, j, nbEspace, indexCommandes, commandeSansEspaces>>

Fini == nbCommandes > 0

Etape == \/ PasserRetourLigne \/ Couper \/ CouperDouble \/ CouperTube
         \/ Rediriger \/ Copier \/ Finir

Next == Etape \/ (Fini /\ UNCHANGED vars)

Spec == Init /\ [][Next]_vars

-----------------------------------------------------------------------------
(* Types; the cursors stay within the line, and the words within theirs.   *)
TypeOK ==
    /\ commande \in Seq(Caracteres) /\ Len(commande) < sizeWord
    /\ i \in 0 .. Len(commande) /\ j \in 0 .. Len(commande)
    /\ nbEspace \in 0 .. Len(commande)
    /\ indexCommandes \in Rangs /\ nbCommandes \in 0 .. sizelgcmd
    /\ DOMAIN commandeSansEspaces = Rangs
    /\ \A k \in Rangs : Len(commandeSansEspaces[k]) < sizeWord

(* strcat looks for the end of the word, the copy uses j: they agree, so   *)
(* that a redirection never leaves a hole that would hide what follows.    *)
CurseurEnFin == j = Len(Chaine(Courant)) /\ Chaine(Courant) = Courant

-----------------------------------------------------------------------------
(* What the words should be.                                               *)
Mots == [k \in 1 .. nbCommandes |-> Chaine(commandeSansEspaces[k - 1])]
Sans(s, cs) ==
    LET reste[n \in 0 .. Len(s)] ==
            IF n = 0 THEN <<>>
            ELSE IF s[n] \in cs THEN reste[n - 1] ELSE Append(reste[n - 1], s[n])
    IN  reste[Len(s)]

Places == 1 .. Len(commande)
Signes == {"|", "&", ";"}
SignesEn == {p \in Places : commande[p] \in Signes}
Vide(p, q) == \A m \in p + 1 .. q - 1 : commande[m] \in Signes \cup Blancs
Paire(p) == p + 1 \in Places /\ commande[p + 1] = commande[p] /\ commande[p] # ";"
Tubes == {p \in SignesEn : commande[p] = "|" /\ ~Paire(p) /\ ~(p > 1 /\ Paire(p - 1))}
Paires == {p \in SignesEn : Paire(p)}
Points == {p \in SignesEn : commande[p] = ";"}

\* There is a command before and after each separator.
Ordinaire ==
    /\ \A p \in SignesEn : ~Vide(0, p) /\ ~Vide(p, Len(commande) + 1)
    /\ \A p, q \in SignesEn : p < q /\ Vide(p, q) => q = p + 1 /\ Paire(p)

\* A blank on each side of every |.
Aere == \A p \in Tubes : commande[p - 1] = " " /\ commande[p + 1] = " "

(* Nothing but blanks is lost, added or moved: the words put together are  *)
(* the line, when its | have a blank on each side.                         *)
RienPerdu ==
    Fini /\ Ordinaire /\ Aere =>
        Sans(FlattenSeq(Mots), Blancs) = Sans(commande, Blancs \cup {";"})

(* And it is cut at the separators, each of which is a word of its own.    *)
Decoupe ==
    Fini /\ Ordinaire /\ Aere =>
        /\ nbCommandes = 1 + Cardinality(Points)
                           + 2 * Cardinality(Tubes \cup Paires)
        /\ Cardinality({k \in 1 .. nbCommandes : Mots[k] \in Doubles \cup {Tube}})
               = Cardinality(Tubes \cup Paires)

\* Blanks only between two words or around an operator.
BlancsEn == {p \in Places : commande[p] = " "}
Serree ==
    \A p \in BlancsEn : /\ p > 1 /\ commande[p - 1] \notin Signes \cup Blancs
                        /\ p + 1 \in Places /\ commande[p + 1] \notin Signes \cup Blancs
Separants == {p \in BlancsEn : commande[p - 1] # ">" /\ commande[p + 1] # ">"}
UnArgument == \A p, q \in Separants : p < q =>
                  \E m \in Points \cup Paires \cup Tubes : p < m /\ m < q

\* Redirections have a blank on each side, of their own.
Detachees == \A p \in Places : commande[p] = ">" =>
                 /\ p > 1 /\ commande[p - 1] = " "
                 /\ p + 1 \in Places /\ commande[p + 1] = " "
                 /\ p + 2 \in Places => commande[p + 2] # ">"

(* Without |, commands with at most one argument keep it apart.            *)
ArgumentGarde ==
    Fini /\ Ordinaire /\ Serree /\ Detachees /\ Tubes = {} /\ UnArgument =>
        FlattenSeq(Mots) = Sans(commande, {";", "\n"})

(* What enonce.pdf asks (3.a, ls|sort -r): | needs no blanks around it and *)
(* leaves the commands as they are written.  The code takes a letter off   *)
(* each side and joins the argument to the name.                           *)
TubeSansBlanc ==
    Fini /\ Ordinaire /\ Serree /\ Detachees /\ UnArgument =>
        FlattenSeq(Mots) = Sans(commande, {";", "\n"})
=============================================================================
