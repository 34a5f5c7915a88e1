-------------------------------- MODULE Texte --------------------------------
(***************************************************************************)
(* The text of a session: main of tinyShell.c around gererChaine. A line is*)
(* cut, the variables of all its words are replaced, then its words are    *)
(* executed, and set and unset change the environment. A shell may run     *)
(* another one, which inherits its environment.                            *)
(*                                                                         *)
(* A word of letters is one piece of text where the code has several       *)
(* characters.                                                             *)
(***************************************************************************)
EXTENDS GererChaine

CONSTANTS
    Repertoires,  \* directories that exist
    MaxPile       \* shells that wait for the one they run, at most

Maison == <<"/home">>
Depart == <<"/ici">>

ASSUME TexteAssumption == MaxPile \in Nat /\ {Maison, Depart} \subseteq Repertoires

VARIABLES
    phase,        \* where the newest shell is
    rang,         \* the word of the loops of the two functions
    environ,      \* values of its variables
    repertoire,   \* its directory
    pile,         \* the shells that wait, oldest first
    fils,         \* the shell started by this line, if any
    debut, lus, appels   \* history: state before the line, words, programs run

session == <<rang, environ, repertoire, pile, fils, debut, lus, appels>>
varsTexte == <<vars, phase, session>>

Etat == [env |-> environ, rep |-> repertoire]

SessionInit ==
    /\ commande = <<>> /\ i = 0 /\ j = 0 /\ nbEspace = 0 /\ indexCommandes = 0
    /\ commandeSansEspaces = [k \in Rangs |-> <<>>]
    /\ nbCommandes = 0
    /\ phase = "demande" /\ rang = 0
    /\ environ = << >> /\ repertoire = Depart
    /\ pile = <<>> /\ fils = <<>>
    /\ debut = Etat /\ lus = <<>> /\ appels = <<>>

-----------------------------------------------------------------------------
(* main                                                                    *)
Demander ==
    /\ phase = "demande"
    /\ \E l \in Lignes :
           /\ "ts" \in Range(l) => Len(pile) < MaxPile
           /\ commande' = l
    /\ phase' = "coupe"
    /\ UNCHANGED <<i, j, nbEspace, indexCommandes, commandeSansEspaces,
                   nbCommandes, session>>

Gerer == phase = "coupe" /\ Etape /\ UNCHANGED <<phase, session>>

Lire ==
    /\ phase = "coupe" /\ Fini
    /\ lus' = Mots
    /\ phase' = IF Mots[1] = <<"exit">> THEN "fini" ELSE "remplace"
    /\ UNCHANGED <<vars, rang, environ, repertoire, pile, fils, debut, appels>>

\* viderCommande, at the end of a line, and the locals of gererChaine.
Vider ==
    /\ commande' = <<>> /\ i' = 0 /\ j' = 0 /\ nbEspace' = 0
    /\ indexCommandes' = 0 /\ nbCommandes' = 0 /\ rang' = 0
    /\ commandeSansEspaces' = [k \in DOMAIN commandeSansEspaces |-> <<>>]
    /\ debut' = [env |-> environ', rep |-> repertoire']
    /\ lus' = <<>> /\ appels' = <<>> /\ fils' = <<>>
    /\ phase' = "demande"

Rendre ==
    /\ phase = "attend" /\ fils = <<>>
    /\ UNCHANGED <<environ, repertoire, pile>>
    /\ Vider

\* The shell waits for the one it started, which reads the terminal.
Descendre ==
    /\ phase = "attend" /\ fils # <<>>
    /\ pile' = Append(pile, Etat)
    /\ environ' = fils[1].env /\ repertoire' = fils[1].rep
    /\ Vider

Remonter ==
    /\ phase \in {"fini", "mort"} /\ pile # <<>>
    /\ pile' = Front(pile)
    /\ environ' = Last(pile).env /\ repertoire' = Last(pile).rep
    /\ Vider

-----------------------------------------------------------------------------
(* remplacerLesVariablesDansLesCommandes                                   *)
Mot == Chaine(commandeSansEspaces[rang])
Lettre(c) == c \notin Blancs \cup {"$", "=", ">", "|", "&", ";"}

\* The regular expression " +\$[a-zA-Z0-9_-]+".
Schema(mot) == \E p \in 1 .. Len(mot) - 2 :
                   mot[p] = " " /\ mot[p + 1] = "$" /\ Lettre(mot[p + 2])

\* The search passes the $ that follow a letter, but not the second of $$.
PlaceVariable(mot) == Min({p \in 1 .. Len(mot) :
    mot[p] = "$" /\ (p = 1 \/ mot[p - 1] \in Blancs \cup {"$"})})

\* The name is all that follows, to the end of the word.
NomVariable(mot) == SubSeq(mot, PlaceVariable(mot) + 1, Len(mot))

\* The copy of the rest starts at strlen(valeur) + strlen(nom): one too few
\* when the value is empty, so that the last character of the name is kept.
ParValeur(mot, valeur) ==
    SubSeq(mot, 1, PlaceVariable(mot) - 1)
    \o (IF valeur = <<>> THEN <<Last(mot)>> ELSE valeur)

EcrireMot(mot) ==
    /\ commandeSansEspaces' = [commandeSansEspaces EXCEPT ![rang] = mot]
    /\ UNCHANGED <<commande, i, j, nbEspace, indexCommandes, nbCommandes, phase,
                   session>>

Defini(nom) == nom \in DOMAIN environ

\* Mutants: the result is not copied back; an unset variable is empty.
SubstituerSansCopie ==
    /\ phase = "remplace" /\ rang < nbCommandes /\ Schema(Mot)
    /\ phase' = IF Defini(NomVariable(Mot)) THEN phase ELSE "mort"
    /\ UNCHANGED <<vars, session>>
SubstituerSansMort ==
    /\ phase = "remplace" /\ rang < nbCommandes /\ Schema(Mot)
    /\ LET nom == NomVariable(Mot) IN
       EcrireMot(ParValeur(Mot, IF Defini(nom) THEN environ[nom] ELSE <<>>))

(* One turn of the while. When getenv fails the copy of the rest writes    *)
(* through a null pointer.                                                 *)
Substituer ==
    /\ phase = "remplace" /\ rang < nbCommandes /\ Schema(Mot)
    /\ LET nom == NomVariable(Mot) IN
       \/ Defini(nom) /\ EcrireMot(ParValeur(Mot, environ[nom]))
       \/ ~Defini(nom) /\ phase' = "mort" /\ UNCHANGED <<vars, session>>

\* Mutant: <= in the for.
PasserMotMutant ==
    /\ phase = "remplace" /\ rang <= nbCommandes
    /\ rang < nbCommandes => ~Schema(Mot)
    /\ rang' = rang + 1
    /\ UNCHANGED <<vars, phase, environ, repertoire, pile, fils, debut, lus, appels>>

PasserMot ==
    /\ phase = "remplace"
    /\ \/ rang < nbCommandes /\ ~Schema(Mot) /\ rang' = rang + 1 /\ UNCHANGED phase
       \/ rang = nbCommandes /\ rang' = 0 /\ phase' = "execute"
    /\ UNCHANGED <<vars, environ, repertoire, pile, fils, debut, lus, appels>>

-----------------------------------------------------------------------------
(* executerCommande, word by word.                                         *)
Execute == phase = "execute" /\ rang < nbCommandes
Est(nom) == IsPrefix(<<nom>>, Mot)
MotSuivant == rang' = rang + 1 /\ UNCHANGED <<vars, phase, pile, debut, lus>>

SeparateurSaute ==
    /\ Execute /\ Mot \in Doubles \cup {Tube}
    /\ MotSuivant
    /\ UNCHANGED <<environ, repertoire, fils, appels>>

\* The text before and after the first `fin`; everything and nothing if none.
Avant(texte, fin) == LET n == SelectInSeq(texte, LAMBDA c : c = fin) IN
                     IF n = 0 THEN texte ELSE SubSeq(texte, 1, n - 1)
Apres(texte, fin) == LET n == SelectInSeq(texte, LAMBDA c : c = fin) IN
                     IF n = 0 THEN <<>> ELSE SubSeq(texte, n + 1, Len(texte))

(* retirerAppel looks for a blank and runs past the end of a word without  *)
(* any, into the next ones, which follow in memory. When there is none up  *)
(* to the last, the text is the allocator's and names no variable of ours. *)
Ici == {k \in Rangs : k >= rang /\ " " \in Range(Chaine(commandeSansEspaces[k]))}
SansAppel == IF Ici = {} THEN <<>> ELSE Apres(Chaine(commandeSansEspaces[Min(Ici)]), " ")

\* Mutant: setenv without overwriting.
SetenvMutant(nom, valeur) ==
    IF nom = <<>> THEN environ
    ELSE [n \in DOMAIN environ \cup {nom} |-> IF Defini(n) THEN environ[n] ELSE valeur]

Setenv(nom, valeur) ==
    IF nom = <<>> THEN environ
    ELSE [n \in DOMAIN environ \cup {nom} |-> IF n = nom THEN valeur ELSE environ[n]]

SetVariableLocale ==
    /\ Execute /\ Est("set")
    /\ \E texte \in {SansAppel} :
           environ' = Setenv(Avant(texte, "="), Avant(Apres(texte, "="), ";"))
    /\ MotSuivant
    /\ UNCHANGED <<repertoire, fils, appels>>

DelVariableLocale ==
    /\ Execute /\ Est("unset")
    /\ environ' = [n \in DOMAIN environ \ {SansAppel} |-> environ[n]]
    /\ MotSuivant
    /\ UNCHANGED <<repertoire, fils, appels>>

AfficherVariables ==
    /\ Execute /\ Est("see")
    /\ MotSuivant
    /\ UNCHANGED <<environ, repertoire, fils, appels>>

\* chdir fails on a directory that does not exist and nobody looks at it.
ExecuterCd ==
    /\ Execute /\ Est("cd")
    /\ LET cible == IF Len(Mot) <= 2 THEN Maison ELSE SubSeq(Mot, 3, Len(Mot))
       IN repertoire' = IF cible \in Repertoires THEN cible ELSE repertoire
    /\ MotSuivant
    /\ UNCHANGED <<environ, fils, appels>>

(* recupererArguments; the programs whose name begins with my get the whole*)
(* word as their name instead.                                             *)
Arguments(mot) ==
    LET args[k \in 0 .. Len(mot)] ==
            IF k = 0 THEN << <<>> >>
            ELSE IF mot[k] \in Blancs THEN Append(args[k - 1], <<>>)
            ELSE [args[k - 1] EXCEPT ![Len(args[k - 1])] = Append(@, mot[k])]
    IN  args[Len(mot)]

Programme ==
    /\ Execute /\ Mot \notin Doubles \cup {Tube}
    /\ ~\E interne \in {"set", "unset", "see", "cd"} : Est(interne)
    /\ appels' = Append(appels, [rep |-> repertoire,
                    args |-> IF Est("my") THEN <<Mot>> ELSE Arguments(Mot)])
    /\ fils' = IF Mot = <<"ts">> THEN <<Etat>> ELSE fils
    /\ MotSuivant
    /\ UNCHANGED <<environ, repertoire>>

FinLigne ==
    /\ phase = "execute" /\ rang = nbCommandes
    /\ phase' = "attend"
    /\ UNCHANGED <<vars, session>>

Shell == \/ Gerer \/ Lire \/ Substituer \/ PasserMot \/ SeparateurSaute
         \/ SetVariableLocale \/ DelVariableLocale \/ AfficherVariables
         \/ ExecuterCd \/ Programme \/ FinLigne
         \/ Rendre \/ Descendre \/ Remonter

Adieu == phase \in {"fini", "mort"} /\ pile = <<>>

NextTexte == Demander \/ Shell \/ (Adieu /\ UNCHANGED varsTexte)

SpecTexte == SessionInit /\ [][NextTexte]_varsTexte

\* The shell runs; its user need not type.
FairTexte == SpecTexte /\ WF_varsTexte(Shell)

-----------------------------------------------------------------------------
Textes == Seq(Caracteres)
TypeEtat(e) == DOMAIN e.env \subseteq Textes /\ e.rep \in Repertoires
               /\ \A n \in DOMAIN e.env : e.env[n] \in Textes

(* Types; the loops stay within the words, and the history is dropped      *)
(* between two lines.                                                      *)
TypeTexte ==
    /\ phase \in {"demande", "coupe", "remplace", "execute", "attend", "fini", "mort"}
    /\ rang \in 0 .. nbCommandes
    /\ TypeEtat(Etat) /\ TypeEtat(debut)
    /\ Len(pile) <= MaxPile /\ \A k \in 1 .. Len(pile) : TypeEtat(pile[k])
    /\ phase = "demande" => debut = Etat /\ fils = <<>> /\ appels = <<>>

-----------------------------------------------------------------------------
(* What a line should do: each command in turn, with its variable replaced *)
(* by the value it has then.                                               *)
Usage(mot) == Apres(mot, "$")
Appelle(mot) == /\ Usage(mot) # <<>> /\ Lettre(Usage(mot)[1])
                /\ Avant(mot, "$") # <<>> /\ Last(Avant(mot, "$")) = " "

Clair(mot, env) == IF "$" \in Range(mot) THEN Avant(mot, "$") \o env[Usage(mot)] ELSE mot

Avec(env, nom, v) == [n \in DOMAIN env \cup {nom} |-> IF n = nom THEN v ELSE env[n]]
Sauf(env, nom) == [n \in DOMAIN env \ {nom} |-> env[n]]

Resultat(avant, mot) ==
    LET texte == Clair(mot, avant.env)
        arg == Apres(texte, " ")
        cible == IF arg = <<>> THEN Maison ELSE arg
    IN  [env |-> IF texte[1] = "set" THEN Avec(avant.env, Avant(arg, "="), Apres(arg, "="))
                 ELSE IF texte[1] = "unset" THEN Sauf(avant.env, arg)
                 ELSE avant.env,
         rep |-> IF texte[1] = "cd" /\ cible \in Repertoires THEN cible ELSE avant.rep,
         appels |-> IF texte[1] \in {"set", "unset", "see", "cd"} THEN avant.appels
                    ELSE Append(avant.appels,
                             [rep |-> avant.rep,
                              args |-> IF texte[1] = "my" \/ arg = <<>> THEN <<texte>>
                                       ELSE <<Avant(texte, " "), arg>>])]

\* After n words of the line.
Lecture(n) ==
    LET lecture[k \in 0 .. n] ==
            IF k = 0 THEN [env |-> debut.env, rep |-> debut.rep, appels |-> <<>>]
            ELSE IF lus[k] \in Doubles \cup {Tube} THEN lecture[k - 1]
            ELSE Resultat(lecture[k - 1], lus[k])
    IN  lecture[n]

(* A name and one argument at most, which a variable with a plain value may*)
(* end. What set and unset are to change is named.                         *)
Reguliere(mot) ==
    /\ mot # <<>> /\ Last(mot) # " "
    /\ \A p, q \in 1 .. Len(mot) : mot[p] = " " /\ mot[q] = " " => p = q
    /\ mot[1] = "set" => Avant(Apres(mot, " "), "=") # <<>>
    /\ mot[1] = "unset" => " " \in Range(mot)
    /\ mot[1] = "cd" /\ Len(mot) > 1 => mot[2] = " "
    /\ "$" \in Range(mot) =>
           LET n == Usage(mot) IN
           /\ Appelle(mot) /\ n \in DOMAIN debut.env
           /\ debut.env[n] # <<>> /\ Range(debut.env[n]) \cap {" ", "$", "="} = {}

\* No command uses a variable that one before it in the line changes.
Change(texte) == {n \in {Apres(texte, " "), Avant(Apres(texte, " "), "=")} :
                      texte[1] \in {"set", "unset"}}
SansReprise == \A k, l \in 1 .. Len(lus) :
                   k < l => Usage(lus[l]) \notin Change(Clair(lus[k], debut.env))

(* For ordinary lines the shell runs what was written, with the last values*)
(* that were set and in the right directory, and leaves the variables as   *)
(* the line sets them. A variable set earlier in the same line is replaced *)
(* too soon, and one that does not end its command takes the rest along.   *)
DernieresValeurs ==
    phase = "attend" /\ (\A k \in 1 .. Len(lus) : Reguliere(lus[k])) /\ SansReprise =>
        [env |-> environ, rep |-> repertoire, appels |-> appels] = Lecture(Len(lus))

(* The shell dies of a variable that is not set, whether a command of the  *)
(* line names it or the value of another does, and of nothing else; it has *)
(* then executed no word of the line.                                      *)
Nommees == {Usage(lus[k]) : k \in 1 .. Len(lus)}
           \cup {Usage(debut.env[n]) : n \in DOMAIN debut.env}
MortSiIndefinie ==
    /\ phase = "mort" => /\ ~ Nommees \ {<<>>} \subseteq DOMAIN environ
                         /\ Etat = debut /\ appels = <<>>
    /\ phase \in {"execute", "attend"} =>
           \A k \in 1 .. Len(lus) : Appelle(lus[k]) => Usage(lus[k]) \in DOMAIN debut.env

(* A line ends, unless values of variables name each other in a circle: one*)
(* that is set to its own name stops the shell at its first use.           *)
Circulaire == \E s \in SUBSET DOMAIN environ :
                  s # {} /\ \A n \in s : \E m \in s : environ[n] = <<"$">> \o m
LigneFinit ==
    (phase = "coupe" /\ ~Circulaire) ~> phase \in {"demande", "fini", "mort"}
=============================================================================
