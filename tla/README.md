# TLA+ models of tinyShell and its remote shell

The repository is a small Unix shell (`ts`), two programs it runs (`myps`,
`myls`), and a remote shell: a daemon (`startServer`) that serves clients
(`myssh`) over TCP, one thread per client. The modules here model the cutting of
a line into commands, its variables and built-ins, the shell's control of its
processes and pipes, redirections, `myps` against the processes it lists, `myls`
against the files it lists, the daemon's accept loop, and the sessions between
clients and daemon. TLC checks them on small instances and TLAPS proves the main
safety results for every value of the constants.

## Inventory

| Part | State | Operations | Interacts with | What makes it correct |
|---|---|---|---|---|
| Shell, `tinyShell.c` | the words of the line, the loop index, three pipe counters, `status`, the global `tube` | `main`, `executerCommande`, `executerProgrammeExterne`, `afficherRetour` | its children, through `fork`, `wait`, `pipe` | prompt only when everything it started has ended; pipelines connected as written; status of the last command; every line ends |
| Pipe plumbing, `tubeCommunication.c` | descriptors of each child | three functions that move pipe ends onto 0 and 1; `lectureArgumentsDepuisFd`, which reads up to a blank line | shell, `myps` | the reader sees the end of its input |
| Words, `gestionChaine.c` | buffers of characters | `gererChaine`, variable substitution, `prompt` | shell, daemon, client | the words are those of the line |
| Variables and directory, `variablesLocales.c`, `cd.c` | environment, current directory | `set`, `unset`, `see`, `cd`; substitution in a line | shell, and the shells it runs, which inherit both | last value set is the value used; nothing runs on a value that is not there |
| Table of variables, `variables.c` | a table | none that is called | nobody | - |
| Redirections, `redirections.c` | descriptors 0, 1, 2; the file and the place in it | recognise an operator, open, `dup` | `myps`; other commands, through the files | the operator written is the one applied; outputs appended to a file do not destroy each other |
| `myps`, `procdata.c` | the stream of `/proc`, two files, the row, the table | open, read, look at a process, print | kernel, processes that come and go, pipe | each process that stays is listed once, each row is of one process, the walk ends |
| `myls` | the entry, a total | one walk of `.` | kernel; commands that make, write and remove files meanwhile | each file that stays is listed once, its columns are its own |
| Accept loop, `daemon.c` `main` | `i`, `t`, `sockets` | accept, store, create a thread | threads, through `&t` and `sockets` | each connection goes to one thread |
| Service threads, `daemon.c` `ping`, `server.c` | buffers of a thread; children of the process | authenticate, run, `wait(NULL)`, echo | clients by TCP; other threads by the shared children and by SIGPIPE | no command before a password; one answer per command, after it; no client harms another |
| Client, `client.c`, `myssh.c` | two message buffers | connect, password loop, command loop, exit | daemon by TCP | the answer shown is that of the command typed |

What is hard here: the shell's count of children against commands, separators,
built-ins and failed forks; pipes whose ends stay open; the race on `t`; threads
that share one `wait`; buffers that keep their content when `recv` fails; a
process that SIGPIPE ends; files of `/proc` whose process is gone or replaced;
files that two commands open, append to or remove; a block that `realloc` moves
under its owner; variables replaced before the line that sets them runs; two
cursors and a counter of blanks that a line's separators reset unevenly.
`PROJECT.json` lists each with its line.

## Modules

* `ForegroundShell`: what a shell promises about its prompt, in two variables.
* `TinyShell`: the shell and its processes. A step of the shell runs from one
  of `wait`, `fork`, `pipe` to the next. `Demander` is the head of `main`'s loop,
  `Drapeaux` lines 65-73 of `executerCommande`, `Separateur`, `Interne`,
  `Lancer`, `ForkRate`, `PipeRate` the dispatch of lines 75-80, `Attendre` and
  `Afficher` are `afficherRetour`. A process reads its input to its end, then
  writes, then ends with one of its statuses; `herite` is the newest pipe it
  holds open, because nothing in the code closes a write end. `tubes` keeps the
  content of every pipe of the shell's life; the last is the global `tube`.
  `lances` and `issues` are history and no action reads them.
* `AcceptLoop`: `main` of the daemon and lines 20 and 21 of `ping`.
* `Reseau` (TCP as the code uses it), `Client` (`lancerClient`), `Ping` (the rest
  of `ping` and the children), composed in `SshSession`; `RemoteExec` is the
  service they promise.
* `Myps`: `main` and `getDetailsProcessus` of `myps.c`, one action per call of the
  kernel that the processes can come between (`readdir`'s refills, the two opens,
  each search of a file), and the birth, end and reaping of processes. A value is
  abstracted to the process it is about, so that a row can be seen to mix two.
  `stables`, `vues` and `disparu` are history.
* `GererChaine`: the loop of `gererChaine`, one action per branch, on any set of
  lines (`Lignes`, sequences over `Caracteres`).
* `Texte`, on top of it: `main` from one line to the next, the substitution of
  variables, `recupererArguments`, the built-ins word by word, and the shells that
  a shell runs (`Descendre`, `Remonter`). `debut`, `lus` and `appels` are history.
* `Redirections`: `myps` from `gererRedirection` to its last `free`, several at once
  on the same files: the operator recognised (`type`) or what the stack leaves
  instead (`opt`), each `open`, the descriptors, the input, the writes. `Myls` composes it with the walk of `myls` and with somebody
  who removes files; `stables` and `vus` are history.
* `MC*`: instances for TLC. `*Proofs`: theorems, each on the module of its name
  (`ChaineProofs` on `GererChaine`, `MylsProofs` on `Redirections` too).
  `Recurrence`: what they need of induction.

Definitions named `...Mutant`, or said to be mutants in their comment, are plausible bugs kept to
show that a property can fail. They are part of no specification.

### Choices in the shell's model

* The words of a line are what `gererChaine` produces. `;` leaves no word: two
  consecutive programs are two commands started one after the other without
  a wait, as the code does. Separators are compared whole, built-ins by prefix.
* `exit` ends the shell as first word only; elsewhere it is a program that
  cannot be executed. Such a program ends with `exit(EXEC_FAIL)`, raw status 512.
* An unset variable makes `remplacerDollarParVariable` write through a null
  pointer: the shell dies before it starts anything.
* At end of file `fgets` leaves the line buffer as it was and the shell runs what
  it holds; since `Demander` takes any line of `Lignes`, this adds no behaviour.
* A program that reads the terminal is assumed to be given an end of file.
* `wait` returns any child that has ended, fails without children and leaves the
  status alone. `fork` fails when `ForkEchoue` says so or when no pid is free.
* `lectureArgumentsDepuisFd` tests the character before the first one it stored;
  a blank first line is not taken as an end.

### Choices in the models of `myps` and of `gererChaine`

* `readdir` gives the processes in the order of their pids, in batches that the
  kernel fills one pid at a time and ends where it likes; processes may come and
  go between two of them. Entries that are not numbers are one entry, the first.
* A file of `/proc` belongs to the process that had the pid when it was opened. A
  search rewinds it first, so that it sees a fresh copy of the text; once the
  process is reaped every read fails, and `searchInFile` returns an empty string
  as it does for a line that is not there.
* What an uninitialised variable holds is `Perime`, whatever it is: for the six
  values of `stat` it is usually those of the row before. `uid` may also be one
  that has no name, and then `getUserName` follows a null pointer.
* A line fits into a word (`sizeWord`, 1024 with its zero; `ChaineAssumption`).
  `fgets` may give up to 2046 characters; what the copy of a longer command writes
  beyond its buffer is not modelled, nor a substitution that outgrows it.
* `>` stands for the seven operators of redirection, which differ by their length
  only. The write one place before a word, for a line that starts with `|`, falls
  on a byte of the allocator that is zero already.

### Choices in the models of `Texte`, `Redirections` and `Myls`

* A word of letters is one piece of text, a name of a variable too. A variable
  that does not end its word takes what follows into its name, and one with an
  empty value leaves the last character of its name: both as in the code.
* `retirerAppel` looks for a blank without a bound and runs into the words that
  follow; with none up to the last word, what it finds names no variable.
* `setenv` and `unsetenv` act on the shell's environment; `see` prints and changes
  nothing; `chdir` fails on what is not a directory and nobody looks.
* Only a line that runs `ts` and nothing after it waits for another shell; that
  one starts with the environment and the directory of its parent.
* `redirection` is five bytes of the stack and `recupererTypeRedirection` writes no
  zero behind the operator it copies. So each of the seven is recognised or not
  as the next byte has it; not at all when a blank ends the command, which shifts
  the search (the name is then empty and no `open` takes it). When it is not
  recognised, `type` and `flags` are what the stack holds (`Restes`, any set of
  `Options`) and `sortie` is 0: the switch may do nothing, open the file in any
  way and put it on 0, or on 1 and 2, or fail. A last name of more than two
  characters with a blank behind it would be copied past the five bytes: this is
  not modelled.
* A stale `flags` may hold O_TRUNC and cut a file another command is writing; what
  is written further on then leaves a hole (`Trou`) before it.
* A file is a sequence of blocks, a block is what one `write` of a buffered output
  leaves. `readdir` gives the names in batches, as for `/proc`.
* `lectureArgumentsDepuisFd` appends to a copy of its caller's pointer. When
  `realloc` moves the block, the caller frees the old one and the process is
  aborted with its last block unwritten; on a pipe this is `TinyShell`'s SIGABRT.
* `totalSize` wraps at the width of an `int` (`MaxInt`).

### Choices in the daemon's model

* In `AcceptLoop` reads and writes of `t` are atomic steps in any order, the
  outcomes the race can have on a build where an `int` is stored whole.
  `sockets[-1]` is read as 0. Past the end of the array the model stops.
* In `SshSession` thread `s` serves connection `s`: the pairing is `AcceptLoop`'s
  matter.
* Client and daemon are on the loopback interface (`LOCAL_IP`), where a message of
  at most 2057 bytes arrives whole; short reads are not modelled.
* `recv` on a connection whose other end is gone leaves the buffer untouched and
  nobody looks at its result. The first send to a closed connection draws a reset,
  the next one SIGPIPE.
* The buffers of a new thread hold zero or what a thread that has ended left.
* `client.c:59` reads `authResult.header` uninitialised; the loop is taken to be
  entered, as the shipped binary does.

## Runs

| Run | Question | Bounds and why they suffice |
|---|---|---|
| `shell` | does the count of children survive failures, is `ForegroundShell` implemented, are pipelines sequential and connected, is the right status shown, which lines end? | 26 lines, up to six words: lists, pipelines of two and three, pipelines after and before other commands (in one, a reader starts while its writer still runs), built-ins in each position, empty and unset words, `exit`; lines that block, on a full pipe (`gros`) or a reader that never ends. Forks fail at will, or because four are asked of three pids; pipes of four lines, two pipes: the third pipeline of a session meets the full table. Statuses 0, 256, 11, 134, 512 and 32512. Some lines block for ever, hence no deadlock check |
| `shell_pipe` | divergence: a filter that never ends | one line |
| `accept` | what an index can be, however late it is read | array of 4 and 3 descriptors: the descriptors run out first, as in the code (1024 by default against 4096); thread creation may fail |
| `accept_multiclient` | divergence: two threads on one connection | as above without failures |
| `session` | the service, its safety and its liveness | 2 clients, 2 pids, 2 commands, both clients may be killed anywhere, forks may fail: enough for cross reaping, for a thread that inherits another's stack, for SIGPIPE between any two steps of the other thread |
| `session_wait` | divergence: an answer before the command's end | one command, no client is killed |
| `myps` | is the list complete and are its rows true, while processes come and go? | two pids, each held by two processes in turn, of four kinds: a pid can pass on between any two steps while the other is listed or is still to come |
| `chaine` | what does `gererChaine` keep of a line? | every sequence of at most five pieces out of ten, a command with an argument being one piece: two separators with commands and arguments around them. The longest has 21 characters, hence `sizeWord` 22 |
| `chaine_tube` | divergence: a pipe without blanks | the words of `ls\|sort -r`, the example of the subject |
| `texte` | do lines get the last values, does the shell die only of what is not set, does a line end? | sessions of any length over 37 lines of one or two commands: values that name variables (in a circle too), empty values, `cd`, `ts` once inside another, words with a variable in the middle |
| `fichiers` | where do the descriptors go, who loses what, is the listing true, does everything end? | one `myps` with each operator, each way its descriptors can be open and a blank behind the name or not, or two with each pair of operators on one file; each operator recognised or not; six leftovers of the stack: nothing, flags that `open` refuses, one for each branch of the switch, with and without O_CREAT, O_TRUNC and the right to write; a file that is there or not; outputs of two blocks, so that a writer can be overtaken between two of its writes; `myls` beside the one that makes and writes a file, in a directory of three names, one hidden, two that may be removed at any time; `int` of 5, so that the total wraps |
| `fichiers_efface` | divergence: `>` on a longer file | as `fichiers` |

What the passing runs establish, beyond types:

* `AucunFilsAInvite`, `AttentesSuffisent`: for these lines and any failures,
  `nbCommandes - nbRedirection` waits are enough, although built-ins, separators
  and failed forks are counted as if they were children.
* `PipelineSequentiel`, `PipelineBranche`, `StatutPipeline`: a line that is a
  pipeline runs one command at a time and shows the last one's status. After
  other commands it may run two at once, because the waits take any child; the
  reader is still on its writer's pipe, and a command that no `|` precedes on none.
* `LigneSaineFinit`: a line ends if its processes cannot block (`LigneSaine`): no fork
  of it failed, what goes to its pipes fits into one, and who reads a pipe reads up
  to the blank line that the command before it writes. On these lines the shell waits
  neither for nobody nor for ever. `LigneSeTermine`, which is what the subject
  says, has no condition and fails in `shell_pipe`.
* `IndexBorne`, `JamaisVide`, `OrdreDesLectures`: what the race
  on `t` can and cannot do.
* `EnfantsComptes`, `AuthAvantExecution`, `PasAPas`, `DemonVit`, `RendService`,
  `ClientRepart`: the sessions. `DemonVit` also says when the daemon dies: a client
  killed while its command runs makes it send twice to a closed connection, and
  SIGPIPE ends it for everybody. `RendService` says a command is *handled* before
  its answer, not that it has *ended*: that is `ReponseApresFin`, which fails.
* `ListeComplete`, `UnSeulProcessus`, `LigneFidele`, `EchecJustifie`, `Termine`:
  `myps`. The order of the two opens before the first read is what keeps a row to
  one process; a mutant that opens later is caught.
* `RienPerdu`, `Decoupe`, `ArgumentGarde`: on lines whose `|` have blanks around
  them nothing but blanks is lost. They do get lost: after a `|`, and after the
  first one of a command, every blank is dropped, so that `sort -r` behind a pipe
  becomes `sort-r`; `ArgumentGarde` says where this does not happen.
* `DernieresValeurs`: commands get the values, and the directory, that the lines
  before and a reference reading of this line (`Lecture`, one word after the other)
  give. This is asked of ordinary commands (`Reguliere`): a name and at most one
  argument; a variable ends its command and its value is plain, without a blank, a
  `$` or a `=`; `set` and `unset` name what they change. And no command may use a
  variable that one before it in the line changes (`SansReprise`), which was replaced
  before either of them ran. `MortSiIndefinie`: an unset variable kills
  the shell, even through a value, and before any word of the line is executed.
  `LigneFinit`: every line ends unless values name each other in a circle.
* `BienBranche`: the operator that was *typed* decides where 1 and 2 end, even with 0
  closed; if the stack hid it, nothing was moved, or 0, or 1 and 2 together, whatever
  it was. `AjoutSansPerte`: commands that all
  append to a file that was there keep the old content and every output whole and in
  order; where they both make it they may not. `SeulEcrit`: a single writer's output is
  at the head of the file, in order; it says nothing of what follows. `EffaceAncien`,
  that nothing follows when the operator erases, is what the subject says and fails.
  `ToutFinit`: nothing blocks, also when `myps` reads what it cannot read.
* `ListeFidele`: `myls` lists each file that stays, once, with its own columns
  although they come from two calls; `TypeOK` has the total.

What the violation runs establish, each against a sentence of the repository
(`findings` quotes it): `LigneSeTermine`, a pipeline that blocks the shell;
`UnFilParClient`, two threads on one connection; `ReponseApresFin`, an answer before
the end of the command; `TubeSansBlanc`, letters lost around a `|`; `EffaceAncien`, the
end of an old file that `>` leaves.

Fairness. `Myps`: weak fairness of `myps` itself, which never waits for anybody.
`Texte`: weak fairness of the shell (one running process; the user need not
type). `Myls`: weak fairness of `myls` and of each `myps` (the scheduler).
Shell: weak fairness of the shell between two prompts (it is one
running process; the user need not type) and of each process (the scheduler).
Sessions: weak fairness of each thread, each child and each client that has
something to receive (users need not type); strong fairness of a thread's
`wait`, because the kernel keeps the waiting threads in a queue and wakes them
when a child ends, so that one that keeps waiting is not passed over for ever.

## Proofs

All are safety results, for every value of the constants that the named
assumptions allow (finite sets of pids and clients, lines made of known words, a
shell that closes a command's 1 only after its 0: `lireEcrireVersStandard`).

* `TinyShellProofs`: `TypeOK`, then `IInv == TypeOK /\ AttentesSuffisent /\
  AucunFilsAInvite`. `AucunFilsAInvite` is not inductive alone: the prompt comes
  back after a number of waits, so one must know how many children there can be.
  `AttentesSuffisent` says it at each point of the loop: children not reaped plus
  pipes counted by the look-ahead of line 65 are at most the words consumed (plus
  one where the look-ahead has counted a `|` not consumed yet). A fork adds a
  child and the loop consumes its word; a `wait` never adds any; when
  `attentes` reaches its bound no child can be left, unless the waits failed,
  which they do only without children. `Implemente` maps each step of the shell
  to a step or a stutter of `ForegroundShell`.
  `PipeInv` gives `PipelineSequentiel` and `StatutPipeline`. In a
  line of programs joined by `|` the look-ahead has counted a `|` before the first
  word is started, so the loop waits at every word, and only every other word
  starts something: there is no child at an odd word before its fork, at most
  one after it. So the last wait that does not fail is for the last command.
  `Canal` gives `PipelineBranche`, for a wider class of lines and with several
  children: it says at each word what the flags tell of the `|` around it, and
  that the command just before a `|` writes to the newest pipe.
* `AcceptLoopProofs`: `IInv` joins the types, `MainSuit` (`t` follows `i`, slots below
  `i` have been stored, threads come from iterations over) and the results on
  indices; the action property follows from it and `t`'s monotonicity.
* `SshSessionProofs`: `EnfantsComptes` is inductive with the facts that the sets
  are finite and a waiting thread takes at most one child; each action changes
  both counts by the same amount, or only the right one. `AuthAvantExecution`
  needs `AuthInv`: a thread whose first `recv` fails may find another client's
  password in its stack and take it for this one's, but its next `recv` fails as
  well and leaves it the `exit` that ended the other thread, so that it runs
  nothing. This needs `"exit" \notin Commandes`, which is the client's own test.
  `EchangeInv` gives each connection a turn (password, command or
  exit; request under way, at the thread, answer under way), with `Descente` for a
  connection whose client or daemon is gone, and a reset only for a client that
  was killed. From it: the types, lockstep, `DemonVit`, and the mapping of every
  step to a step or a stutter of `RemoteExec`.
* `MypsProofs`: `TypeOK`; `UnSeulProcessus` by `Lectures` (status is open before
  stat and pids only pass forward, so that a value read from status means that
  both files are of the same process); `ListeComplete` by `Ordre` (listed, looked
  at, read and to come are increasing pids), `Connus` (each was there) and
  `Stables` (a process that stays is in one of those places); `EchecJustifie` by
  `Echecs` (who is found was born, and can be opened while it stays); `LigneFidele`
  by `Fideles` (the row under construction and each row listed follow their
  process).
* `MylsProofs`: `BienBranche` by `Redirige`, one clause per step of the redirection:
  before the open the descriptors are the first ones, `open` takes 0 or 3, and
  `close` then `dup` is `dup2` because what is below the closed one is open. It holds
  whatever `type` and `flags` held: `RestesAssumption` asks of `Restes` only that they
  be `Options`. With `sortie` 0, `close` then `dup` moves 0 or fails.
  `ListeFidele` by `Parcours`, as for `myps` with names instead of pids, and
  `MemeFichier`: a name that stays keeps its file between the two `stat`s.

  On the files of several redirections at once: `SeulEcrit` by `Registre`. `Tete` says of a sole writer, from its
  open on, that the file is its first `ecrits` blocks over what was there
  (`Melange`), and that its place is the end of them. For that `Vierges` (a file
  nobody writes is one of the start, untouched) and `Catalogue` (a new file has a
  number of its own) are needed at the open, `Redirige` and `Etapes0` at a write:
  descriptor 1 is the file, even if the shell had closed it. Somebody whose operator was
  not recognised is a writer, too, and may cut the file; a sole writer is not that one. `Effet` is what a step
  may do to the rest: a file changes only under one of its writers.

  `AjoutSansPerte` by `Ajouts`. While all writers of a file append, each
  block of it that is not of the start is of a writer, the blocks of a writer are
  those it counts as written, once each and in their order, and the next write goes
  to the end (`EnFin`), whoever wrote last. `TypeOK` by `TypesDe` (a place is
  within its file, unless somebody may have cut it: `Intact`) and `Total`: the running total, cut to
  an `int` at each addition, is the sum of the rows cut once.
* `ChaineProofs`: `Bornes` and `Curseur` give the types and `CurseurEnFin`: no
  cursor is ahead of the one in the line, the word being filled is as long as its
  cursor says and holds no zero, and the words to come are empty. So the line
  bounds every index, and the zero written before a `|` cuts the last character or
  nothing. `RienPerdu` by `Contenu(B)`: the words so far, put together, are what
  has been read of the line, both without the characters of `B`. It needs
  `Debut` (before anything is skipped the word is the head of the line, so the
  character that a `|` clears is the blank before it) and `HorsPaire` (the cursor
  never stands in the middle of `&&` or `||`). `Decoupe` by `Compte`, which counts
  the separators read, and `Tete`: a word that is empty has only blanks and signs
  before it and no word begins with a sign, so that no command is taken for a
  separator. `ArgumentGarde` by `Contenu({})` with `HorsDirection` (the cursor is
  beside no `>`) and `Espaces`: if a blank was counted, it is that of an argument
  and no separator came since, so a second one would be a second argument.
  Writing this down showed that `Serree` and `Detachees` have to ask for a character
  after a blank: a line without its newline may end with one, which is dropped.
* `Recurrence`: the library's induction takes an operator, which no installed
  prover can instantiate. Here the property is a *set* of numbers and the
  induction a smallest number outside it (`WFMin`), which first-order provers
  can use. Two functions defined by recursion on a prefix of the numbers exist and
  agree (`RecurrenteExiste`, `RecurrenteUnique`). `Somme` (`Myls`), `Sans`
  (`GererChaine`) and `FlattenSeq` are shown to have the equations they are read
  by, in this way.

* `TexteProofs`: `SessionInv`, a clause for each phase. A line starts from the state
  `viderCommande` leaves, which is `Init`, so the invariants of `ChaineProofs` hold while it
  is cut (`LignesDeSession`). `Provenance`: the characters of the words are the line's;
  a word that had a variable has two characters at least before its value ends, so
  `ts` is never the result of a substitution and the bound on the shells follows.
  `MortSiIndefinie` by `Remplacees`: words before the current one have no variable
  left, those after it are as they were read, and the current one names only what
  the line or a value names, as long as all of these are set. It needs that a name
  in the environment has no variable itself (`Noms`: `set` takes it from a word that
  has been through the replacement); then the first `$` of the word is the one the
  search stops at (`UsageSeule`), and the value brings the only `$` that may follow
  (`UsageSuite`).

  `DernieresValeurs` by `FideleInv`, on lines of ordinary commands only. Once a word
  has been replaced it is the line's word with its variable's value (`Clair`), and
  when the words are executed the environment is still the one the line started in,
  so these are the values of that moment. From then on `Suivie` goes along: what has
  been executed is the reading so far (`Lecture(rang)`), and a variable that no
  command changed has the value it had, which is why the reading, which takes the
  values as they are when it comes to a word, finds the same. What `setenv` and the
  others do to a word (`recupererArguments`, a recursive function, cuts it at the
  blank) is then compared with `Resultat` command by command. Writing this down
  showed that `Reguliere` asked too little: TLC finds the property violated by a
  word with a redirection (`x > f`, the only words with two blanks), a `set` of no
  name, a `cd` glued to its argument and a value that has a blank or begins with
  `=`. Only the lines of the run, which have none of these, hid it.

Every invariant that a passing run checks is proved. Only model-checked: everything
under fairness (`LigneSaineFinit`, `ClientRepart`, `Termine`, `LigneFinit`, `ToutFinit`)
and whatever uses ENABLED, out of the prover's reach.

## Not modelled, and what is left

Not modelled, because nothing in the system reaches it:

* `variables.c`: no function of it has a caller. Read alone it is not right: a
  shorter value is copied over a longer one without its zero (line 24), and after
  a removal the variable moved into the hole is not looked at (line 46).
* `creerTubeDeCommunication` and the other unused functions of
  `tubeCommunication.c`, `fermerFichierSortie`, `mettreEnBackground`, `match`,
  `reg_match`, `wildcardMatch`, the `Server` object's own send and receive,
  `memoirePartagee.h`.

Not modelled, because no property would be about it: the arithmetic of a row of
`myps` (`procdata.c`) and MemTotal, printing, the texts of `error.c`, the check of
`user@host` in `myssh.c`, `prompt`'s buffer, `makefile`, `man/`, the shipped binaries.

Not modelled, and said so: short reads of TCP (on the loopback interface a
message of 2057 bytes arrives whole); what the stack holds at `client.c:59`;
what `pthread_detach` does with a handle that was never set (`daemon.c:100`).

Where code and subject differ and no run is about it (the models follow the code, so
each is a behaviour of them):

* `redirection` (`redirections.c:72`) has no terminating zero: an operator may not be
  recognised, and the command then runs without its redirection or with another
  (enonce.pdf p. 3). `BienBranche` lists the outcomes.
* Two `>>` on a file that is not there may write over each other
  (`redirections.c:36`; enonce.pdf p. 3).
* Commands that follow a pipeline in its line stay connected to it
  (`finDeRedirection`, `tinyShell.c:69`), and no pipe is made when a built-in comes
  before the first `|` (`tinyShell.c:93`; enonce.pdf p. 2).
* A command that fills the pipe blocks the shell, which has not started the reader
  (`tinyShell.c:73`; the line `gros | myps` of `shell`).
* `&&` and `||` are skipped: both commands run whatever the first one's status
  (enonce.pdf p. 1).
* `set` makes variables that the programs of the shell inherit
  (`variablesLocales.c:28`; enonce.pdf p. 4, where a local variable is the shell's).

When no descriptor is left `pipe` fails and the shell leaves what it started; the
repository does not say what should happen then, `ForegroundShell` allows it and no
property is about it.

What could come next: short reads as an option of `Reseau`; lines longer than a
word.
