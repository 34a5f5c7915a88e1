----------------------------- MODULE AcceptLoop ------------------------------
(***************************************************************************)
(* How the daemon hands a connection to a thread: the loop of main and the *)
(* first lines of ping in daemon.c.  main passes every thread the address  *)
(* of its one local `t`; the thread reads it when the scheduler lets it    *)
(* run, takes one away and uses the result as an index into the global     *)
(* array `sockets`.  The reads and writes of `t` are a data race: a thread *)
(* sees whichever value main stored last.                                  *)
(*                                                                         *)
(* Threads are named by the iteration that created them.  The nth          *)
(* connection accepted gets socket n (0 is the daemon's standard input).   *)
(***************************************************************************)
EXTENDS Integers

CONSTANTS
    SOMAXCONN,     \* length of `sockets`
    MaxSockets,    \* sockets the descriptor table has room for
    CreateEchoue,  \* whether pthread_create may fail
    DetachPlante   \* whether detaching an uninitialised handle may crash

ASSUME AcceptAssumption ==
    /\ SOMAXCONN \in Nat \ {0} /\ MaxSockets \in Nat
    /\ CreateEchoue \in BOOLEAN /\ DetachPlante \in BOOLEAN

Fils == 0 .. SOMAXCONN - 1
ERR == -1                        \* what a failed accept returns
STDIN == 0                       \* what `sockets` holds before main stores

VARIABLES
    pc,        \* where main is
    i, t,      \* main's locals; t is shared with every thread
    sockets,   \* the global array
    acceptes,  \* connections accepted so far
    ou,        \* where each thread is
    index,     \* ping's index, once read
    sock       \* ping's sock, once read

vars == <<pc, i, t, sockets, acceptes, ou, index, sock>>
fils == <<ou, index, sock>>

Init == /\ pc = "affecte" /\ i = 0
        /\ t = 0                          \* not read before main stores it
        /\ sockets = [n \in Fils |-> STDIN]
        /\ acceptes = 0
        /\ ou = [k \in Fils |-> "absent"]
        /\ index = [k \in Fils |-> ERR]
        /\ sock = [k \in Fils |-> STDIN]

-----------------------------------------------------------------------------
(* main                                                                    *)
\* Mutants: `t` is one too many; it wraps around.
AffecterPlusUn == /\ pc = "affecte"
                  /\ t' = i + 1
                  /\ pc' = "accepte"
                  /\ UNCHANGED <<i, sockets, acceptes, fils>>
AffecterModulo == /\ pc = "affecte"
                  /\ t' = i % 2
                  /\ pc' = "accepte"
                  /\ UNCHANGED <<i, sockets, acceptes, fils>>

Affecter == /\ pc = "affecte"
            /\ t' = i
            /\ pc' = "accepte"
            /\ UNCHANGED <<i, sockets, acceptes, fils>>

(* The result of accept goes into the array unchecked: a connection, or    *)
(* ERR at once when no descriptor is left.  Nothing bounds i: one past the *)
(* array the store overwrites other globals, and the model stops there.    *)
\* Mutant: a failed accept stores nothing.
AccepterMutant ==
    /\ pc = "accepte" /\ i < SOMAXCONN
    /\ IF acceptes < MaxSockets
       THEN /\ acceptes' = acceptes + 1
            /\ sockets' = [sockets EXCEPT ![i] = acceptes + 1]
       ELSE UNCHANGED <<sockets, acceptes>>
    /\ pc' = "cree"
    /\ UNCHANGED <<i, t, fils>>

Accepter ==
    /\ pc = "accepte" /\ i < SOMAXCONN
    /\ IF acceptes < MaxSockets
       THEN /\ acceptes' = acceptes + 1
            /\ sockets' = [sockets EXCEPT ![i] = acceptes + 1]
       ELSE /\ sockets' = [sockets EXCEPT ![i] = ERR]
            /\ UNCHANGED acceptes
    /\ pc' = "cree"
    /\ UNCHANGED <<i, t, fils>>

Deborder == /\ pc = "accepte" /\ i >= SOMAXCONN
            /\ pc' = "deborde"
            /\ UNCHANGED <<i, t, sockets, acceptes, fils>>

(* pthread_detach comes before pthread_create, so it detaches the thread   *)
(* of the previous iteration; the first time the handle is uninitialised.  *)
Creer == /\ pc = "cree"
         /\ \/ ou' = [ou EXCEPT ![i] = "cree"]
            \/ CreateEchoue /\ UNCHANGED ou
         /\ i' = i + 1
         /\ pc' = "affecte"
         /\ UNCHANGED <<t, sockets, acceptes, index, sock>>

Planter == /\ pc = "cree" /\ i = 0 /\ DetachPlante
           /\ pc' = "plante"
           /\ UNCHANGED <<i, t, sockets, acceptes, fils>>

-----------------------------------------------------------------------------
(* ping, lines 20 and 21.  sockets[-1] is a word that the linker left zero.*)
Vivant == pc \notin {"plante", "deborde"}

\* Mutant: without the -1.
LireIndexMutant(k) == /\ Vivant /\ ou[k] = "cree"
                      /\ index' = [index EXCEPT ![k] = t]
                      /\ ou' = [ou EXCEPT ![k] = "index"]
                      /\ UNCHANGED <<pc, i, t, sockets, acceptes, sock>>

LireIndex(k) == /\ Vivant /\ ou[k] = "cree"
                /\ index' = [index EXCEPT ![k] = t - 1]
                /\ ou' = [ou EXCEPT ![k] = "index"]
                /\ UNCHANGED <<pc, i, t, sockets, acceptes, sock>>

LireSocket(k) ==
    /\ Vivant /\ ou[k] = "index"
    /\ sock' = [sock EXCEPT ![k] =
                  IF index[k] \in Fils THEN sockets[index[k]] ELSE STDIN]
    /\ ou' = [ou EXCEPT ![k] = "sert"]
    /\ UNCHANGED <<pc, i, t, sockets, acceptes, index>>

Arrete == ~Vivant /\ UNCHANGED vars

Main == Affecter \/ Accepter \/ Deborder \/ Creer \/ Planter
Next == Main \/ (\E k \in Fils : LireIndex(k) \/ LireSocket(k)) \/ Arrete

Spec == Init /\ [][Next]_vars

-----------------------------------------------------------------------------
ALus == {k \in Fils : ou[k] \in {"index", "sert"}}
Servent == {k \in Fils : ou[k] = "sert"}

TypeOK == /\ pc \in {"affecte", "accepte", "cree", "plante", "deborde"}
          /\ i \in 0 .. SOMAXCONN /\ t \in 0 .. SOMAXCONN
          /\ pc = "cree" => i < SOMAXCONN
          /\ acceptes \in 0 .. MaxSockets
          /\ sockets \in [Fils -> Int]
          /\ ou \in [Fils -> {"absent", "cree", "index", "sert"}]
          /\ index \in [Fils -> Int]
          /\ sock \in [Fils -> Int]

(* However late a thread reads `t`, the -1 of line 20 keeps it from a slot *)
(* that main has not stored yet, and from any slot older than the one      *)
(* before its own: thread k serves connection k - 1 or a later one, and    *)
(* only the first thread can index the array with -1.                      *)
IndexBorne == \A k \in ALus : k - 1 <= index[k] /\ index[k] < i

(* A thread whose index is not -1 serves a socket main stored for an       *)
(* iteration already begun: a connection accepted, or a failed accept,     *)
(* never a slot still holding its initial zero.                            *)
JamaisVide == \A k \in Servent :
                 index[k] >= 0 => sock[k] = ERR \/ sock[k] \in 1 .. acceptes

(* What these rest on: main's `t` follows `i`, the slots below `i` have all*)
(* been stored, and only iterations already over have made a thread.       *)
SuitI == /\ t <= i
         /\ pc \in {"accepte", "cree"} => t = i
         /\ pc = "affecte" => t >= i - 1
RangesEcrits == \A n \in Fils : n < i \/ (n = i /\ pc = "cree") =>
                    sockets[n] = ERR \/ sockets[n] \in 1 .. acceptes
CreesAvant == \A k \in Fils : ou[k] # "absent" => k < i
EtatDeMain == SuitI /\ RangesEcrits /\ CreesAvant

(* A thread that reads after another one takes no older a slot: threads    *)
(* can double up on a connection, but never go back in the array.          *)
OrdreDesLectures ==
    [][\A k \in ALus' \ ALus, n \in ALus : index[n] <= index'[k]]_vars

(* "Multiclient" (daemon.c:92): each connection is given to one thread.    *)
UnFilParClient == \A k, n \in Servent : k # n => sock[k] # sock[n]
=============================================================================
