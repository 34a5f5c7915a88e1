---------------------------- MODULE MCSshSession -----------------------------
(* Two clients, two children, two commands.                                *)
EXTENDS SshSession
CONSTANTS c1, c2, p1, p2
MCClients == {c1, c2}
MCPids == {p1, p2}
MCCommandes == {"ls", "ps"}
UneCommande == {"ls"}
Personne == {}
=============================================================================
