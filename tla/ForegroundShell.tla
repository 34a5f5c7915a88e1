--------------------------- MODULE ForegroundShell ---------------------------
(***************************************************************************)
(* What tinyShell promises (enonce.pdf p. 1, section 1): the shell reads a *)
(* line, runs it, and shows its prompt again only when nothing it started  *)
(* for that line is still running.  It says nothing of how the processes   *)
(* are created, connected or waited for; that is TinyShell.                *)
(***************************************************************************)
CONSTANT Pids                    \* the process identifiers fork() can return

VARIABLES phase,                 \* "prompt", "running" or "gone"
          live                   \* the commands that are still running

avars == <<phase, live>>

AInit == phase = "prompt" /\ live = {}

\* The user types a line.
Enter == phase = "prompt" /\ phase' = "running" /\ UNCHANGED live

\* The shell starts a command of the line.
Start(p) == /\ phase = "running"
            /\ p \notin live
            /\ live' = live \cup {p}
            /\ UNCHANGED phase

\* A command ends; the shell may already be gone.
Finish(p) == p \in live /\ live' = live \ {p} /\ UNCHANGED phase

\* The line is over: the one step that the promise constrains.
Done == phase = "running" /\ live = {} /\ phase' = "prompt" /\ UNCHANGED live

\* The user leaves, at a prompt and so with nothing running.
Quit == phase = "prompt" /\ phase' = "gone" /\ UNCHANGED live

\* The shell dies in the middle of a line.
Abort == phase = "running" /\ phase' = "gone" /\ UNCHANGED live

ANext == \/ Enter \/ Done \/ Quit \/ Abort
         \/ \E p \in Pids : Start(p) \/ Finish(p)

ASpec == AInit /\ [][ANext]_avars
=============================================================================
