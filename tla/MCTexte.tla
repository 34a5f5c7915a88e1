------------------------------- MODULE MCTexte -------------------------------
(* Sessions of lines of one or two commands, and shells run by a shell.    *)
EXTENDS Texte
Set(n, v) == <<"set", " ", n, "=">> \o v
Ligne(mots) == FoldLeft(LAMBDA l, m : IF l = <<>> THEN m ELSE l \o <<";">> \o m, <<>>, mots)
               \o <<"\n">>

Poses == {Set("a", <<"v">>), Set("b", <<"$", "a">>), Set("a", <<>>), <<"unset", " ", "a">>}
Emplois == {<<"x", " ", "$", "a">>, <<"x", " ", "$", "b">>}
Rares == {Set("a", <<"$", "a">>), Set("a", <<"$", "b">>), <<"see">>, <<"set">>,
          <<"x", " ", "$", "a", " ", "$", "b">>, <<"x", "$", "a">>,
          <<"x", " ", "$", "a", " ", ">", " ", "f">>, <<"my", " ", "$", "a">>,
          <<"cd", " ", "$", "a">>, <<"ts">>, <<"exit">>}
MCLignes ==
    {Ligne(<<m>>) : m \in Poses \cup Emplois \cup Rares}
    \cup {Ligne(<<m, n>>) : m \in Poses, n \in Emplois}
    \cup {Ligne(<<n, m>>) : m \in Poses, n \in Emplois}
    \cup {Ligne(<<m, <<"x", " ", "a", "=", "v">>>>) : m \in {<<"set">>, <<"cd">>}}
    \cup {Set("a", <<"v">>) \o <<" ", "&", "&">> \o n \o <<"\n">> : n \in Emplois}
MCCaracteres == UNION {Range(l) : l \in MCLignes}
MCRepertoires == {Maison, Depart, <<"v">>}
=============================================================================
