------------------------------- MODULE MCMyps --------------------------------
(* Two pids, each of which may pass to a second process during the walk.   *)
EXTENDS Myps
MCGenres == {"simple", "noyau", "blanc", "inconnu"}
=============================================================================
