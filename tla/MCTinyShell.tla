----------------------------- MODULE MCTinyShell -----------------------------
(* TinyShell on small lines.  "myps" reads a pipe up to a blank line and   *)
(* ends its output with one; "myls", like the system's "ls", reads nothing;*)
(* "wc" reads to the end of file; "gros" fills a pipe; "" is what an empty *)
(* line leaves.                                                            *)
EXTENDS TinyShell

CONSTANTS p1, p2, p3

MCPids == {p1, p2, p3}
MCProgrammes == {"myps", "myls", "ls", "wc", "gros", "exit", ""}
MCEcrit == [g \in MCProgrammes |->
              CASE g = "myps" -> <<"ligne", "vide">>
                [] g \in {"myls", "ls", "wc"} -> <<"ligne">>
                [] g = "gros" -> <<"ligne", "ligne", "ligne", "ligne", "vide">>
                [] OTHER -> <<>>]
MCLit == [g \in MCProgrammes |->
              CASE g = "myps" -> "vide"
                [] g = "wc" -> "fin"
                [] OTHER -> "rien"]
\* exit(1) is 256, exit(127) is 32512, killed by SIGSEGV is 11.
MCRetours == [g \in MCProgrammes |->
              CASE g = "ls" -> {11, 32512}
                [] g = "myls" -> {0, 256}
                [] g \in {"exit", ""} -> {512}
                [] OTHER -> {0}]

\* Lists, pipelines, built-ins, words that cannot be executed; then lines that
\* block, or that ask for more than there are pids.
MCLignes ==
    { <<"exit">>, <<"">>, <<"ls">>, <<"wc">>, <<"ls", "exit">>,
      <<"$indefinie", "ls">>, <<"set">>, <<"ls", "see">>, <<"cd", "ls">>,
      <<"ls", "&&", "myls">>, <<"ls", "||", "ls">>, <<"ls", "ls", "myls">>,
      <<"myps", "|", "myps">>, <<"ls", "|", "ls">>,
      <<"myps", "|", "myps", "|", "myls">>, <<"ls", "myps", "|", "myps">>,
      <<"myps", "|", "myps", "ls">>, <<"ls", "|", "", "|", "ls">>,
      <<"ls", "ls", "ls", "myps", "|", "myps">>,
      <<"set", "|", "ls">>, <<"ls", "unset", "myps", "|", "myps">>,
      <<"ls", "ls", "ls", "ls">>, <<"ls", "&&", "ls", "|", "wc">>,
      <<"gros", "|", "myps">>, <<"ls", "|", "cd", "|", "ls">>,
      <<"set", "|", "myps", "|", "ls">> }
LignesPipe == { <<"ls", "|", "wc">> }
=============================================================================
