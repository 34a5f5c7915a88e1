------------------------------- MODULE MCMyls --------------------------------
(* Two myps at once on the files of a directory, and myls beside them.     *)
EXTENDS Myls
C(op, n, b, e, s) ==
    [op |-> op, nom |-> n, blanc |-> b, entree |-> e, sortie |-> s]
Simple(op) == C(op, 1, FALSE, "terminal", "terminal")
Dans == {C(op, 1, FALSE, x[1], x[2]) : op \in Operateurs,
            x \in {<<"terminal", "terminal">>, <<"tube", "tube">>, <<"ferme", "terminal">>,
                   <<"ferme", "ferme">>}}
Seules == {<<c>> : c \in Dans \cup {C(op, 1, TRUE, "tube", "terminal") : op \in Operateurs}
                              \cup {C("", 1, FALSE, e, "terminal") : e \in {"terminal", "tube"}}}
\* Each pair of operators in one order.
Ordre == SetToSeq(Operateurs)
Paires == {<<Simple(Ordre[k]), Simple(Ordre[j])>> : <<j, k>> \in
               {x \in (DOMAIN Ordre) \X (DOMAIN Ordre) : x[1] <= x[2]}}
MCCommandes == Seules \cup Paires

\* Flags that cut the file, that make it, that read and write, that open() refuses.
R(cas, droits, creat, tronque, refus) ==
    [cas |-> cas, droits |-> droits, creat |-> creat, append |-> FALSE,
     tronque |-> tronque, refus |-> refus]
MCRestes == {Rien, R("un", {"lit", "ecrit"}, FALSE, FALSE, FALSE),
             R("un", {"ecrit"}, FALSE, FALSE, TRUE),
             R("deux", {"lit", "ecrit"}, TRUE, TRUE, FALSE),
             R("entree", {"lit"}, FALSE, FALSE, FALSE),
             R("entree", {"ecrit"}, TRUE, TRUE, FALSE)}

\* A directory with and without the file; myls beside one of the commands.
MCInit == /\ Init
          /\ ou = "debut" <=> cmd = <<Simple(" > ")>>
          /\ \A n \in Noms \ {1} : dossier[n] = IF ou = "debut" THEN n ELSE Absent
MCSpec == MCInit /\ [][Next]_varsLs /\ Equite
=============================================================================
