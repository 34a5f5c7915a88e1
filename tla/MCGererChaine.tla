---------------------------- MODULE MCGererChaine ----------------------------
(* Lines of up to five pieces: every order of words, separators with and   *)
(* without blanks around them, redirections and stray blanks; and the line *)
(* of the subject, ls|sort -r.                                             *)
EXTENDS GererChaine
De(jetons) == {FlattenSeq(s) \o <<"\n">> : s \in SeqOf(jetons, 5)}
Lettres(jetons) == UNION {Range(s) : s \in jetons} \cup {"\n"}
MCJetons ==
    {<<"x">>, <<"t", "e", "s", "t">>, <<" ">>, <<"x", " ", "x">>,
     <<" ", ">", " ">>, <<";">>, <<"&", "&">>, <<"|", "|">>, <<"|">>, <<" ", "|", " ">>}
MCLignes == De(MCJetons)
MCCaracteres == Lettres(MCJetons)
JetonsEnonce == {<<"l", "s">>, <<"|">>, <<"s", "o", "r", "t", " ", "-", "r">>}
LignesEnonce == De(JetonsEnonce)
CaracteresEnonce == Lettres(JetonsEnonce)
=============================================================================
