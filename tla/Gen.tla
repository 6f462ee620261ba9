---- MODULE Gen ----
(***************************************************************************)
(* The module generator of cmd/gen: how it reads its arguments, and how it *)
(* writes a module's files under internal/modules/<name>, by several runs  *)
(* one after the other or at once, which may fail or die half way.         *)
(***************************************************************************)
EXTENDS Integers, Sequences, FiniteSets

CONSTANTS
  Runs,      \* invocations of the generator
  ArgLists,  \* the argument lists after "gen module" that are typed
  Words,     \* the arguments, among them "" and the flags
  Spelling,  \* Spelling[w]: the characters of w, each by its class
  Inline,    \* Inline[w]: the value of a --plural=value or -plural=value
  Tree,      \* Tree[flavor]: the files of templates/<flavor>, as WalkDir lists them
  Faults     \* what may go wrong: "gomod", "disk", "crash"

Minimals == {"--minimal", "-minimal"}
Plurals  == {"--plural", "-plural"}
Flavors  == {"full", "minimal"}
Classes  == {"lower", "upper", "digit", "wide digit", "underscore", "dash", "other"}

ASSUME GenAssumption ==
  /\ ArgLists \subseteq Seq(Words)
  /\ Minimals \union Plurals \union DOMAIN Inline \union {""} \subseteq Words
  /\ Spelling \in [Words -> Seq(Classes)]
  /\ Spelling[""] = <<>>
  /\ \A w \in Minimals \union Plurals \union DOMAIN Inline :
       Spelling[w] # <<>> /\ Spelling[w][1] = "dash"
  /\ DOMAIN Inline \intersect (Minimals \union Plurals) = {}
  /\ DOMAIN Tree = Flavors
  /\ \A f \in Flavors : /\ Tree[f] \in Seq(STRING) /\ Len(Tree[f]) > 0
                        /\ \A i, j \in 1..Len(Tree[f]) : Tree[f][i] = Tree[f][j] => i = j
  /\ Faults \subseteq {"gomod", "disk", "crash"}

VARIABLES
  pc,     \* how far each run is
  opts,   \* what it read from its arguments
  next,   \* the next file of its flavor's tree
  dirs,   \* modules whose directory exists
  files,  \* the files under them
  before  \* history: before[p]: the runs that were over when p began

vars == <<pc, opts, next, dirs, files, before>>

----------------------------------------------------------------------------
(* The arguments.                                                           *)

(* What the loop over the arguments knows: "wants" while the value of a     *)
(* --plural is the next argument, "bad" once it has returned an error.      *)
Fresh == [name |-> "", minimal |-> FALSE, plural |-> "", wants |-> FALSE, bad |-> FALSE]

FlagLike(a) == Spelling[a] # <<>> /\ Spelling[a][1] = "dash"

TakeValueAgain(s, a) ==          \* mutant: i++ is left out
  IF a \in Minimals THEN [s EXCEPT !.plural = a, !.wants = FALSE, !.minimal = TRUE]
                    ELSE [s EXCEPT !.plural = a, !.wants = FALSE]

TakeValue(s, a) == [s EXCEPT !.plural = a, !.wants = FALSE]

Take(s, a) ==
  IF s.bad THEN s
  ELSE IF s.wants THEN TakeValue(s, a)
  ELSE IF a \in Minimals THEN [s EXCEPT !.minimal = TRUE]
  ELSE IF a \in Plurals THEN [s EXCEPT !.wants = TRUE]
  ELSE IF a \in DOMAIN Inline THEN [s EXCEPT !.plural = Inline[a]]
  ELSE IF FlagLike(a) \/ s.name # "" THEN [s EXCEPT !.bad = TRUE]
  ELSE [s EXCEPT !.name = a]

(* What it knows after each argument.                                       *)
After(args) ==
  LET after[i \in 0..Len(args)] == IF i = 0 THEN Fresh ELSE Take(after[i - 1], args[i])
  IN after

Scanned(args) == After(args)[Len(args)]

(* validateName.  A letter is asked for, but it is the first byte that is   *)
(* looked at: a digit that takes more than one passes, for its first byte   *)
(* is the code of a letter.                                                 *)
Beginnings == {"lower", "upper", "wide digit"}

ValidNameFirst(w) == Spelling[w][1] \in Beginnings             \* mutant: the loop is left out

ValidName(w) ==
  /\ Spelling[w][1] \in Beginnings
  /\ \A i \in 1..Len(Spelling[w]) :
       Spelling[w][i] \in {"lower", "digit", "wide digit", "underscore"}

Rejected == [name |-> "", flavor |-> "full", plural |-> ""]

(* A plural of "" stands for the default, the name with an s.               *)
Options(args) ==
  LET s == Scanned(args) IN
  IF s.bad \/ s.wants \/ s.name = "" THEN Rejected
  ELSE IF ~ ValidName(s.name) THEN Rejected
  ELSE [name |-> s.name, flavor |-> IF s.minimal THEN "minimal" ELSE "full", plural |-> s.plural]

(* What the file tree depends on; the plural goes into the text of files.   *)
Scaffold(o) == [name |-> o.name, flavor |-> o.flavor]

Outcomes == {Scaffold(Options(args)) : args \in ArgLists}

----------------------------------------------------------------------------
(* The runs.                                                                *)

File == [module : Words, path : STRING, by : Runs, whole : BOOLEAN]

(* The name of its directory, in lower case, as is every name that is valid.*)
ModuleOf(p) == opts[p].name

TreeOf(p) == Tree[opts[p].flavor]

FilesOf(n) == {f \in files : f.module = n}

Over(p) == pc[p] \in {"done", "failed", "dead"}

Goto(p, label) == pc' = [pc EXCEPT ![p] = label]

Init ==
  /\ pc = [p \in Runs |-> "idle"]
  /\ opts = [p \in Runs |-> Scaffold(Rejected)]
  /\ next = [p \in Runs |-> 1]
  /\ dirs = {}
  /\ files = {}
  /\ before = [p \in Runs |-> {}]

(* The arguments are read, the name is checked, and go.mod is looked for.   *)
Begin(p) ==
  /\ pc[p] = "idle"
  /\ \E o \in Outcomes :
       /\ opts' = [opts EXCEPT ![p] = o]
       /\ \/ Goto(p, IF o = Scaffold(Rejected) THEN "failed" ELSE "stat")
          \/ "gomod" \in Faults /\ Goto(p, "failed")
  /\ before' = [before EXCEPT ![p] = {q \in Runs : Over(q)}]
  /\ UNCHANGED <<next, dirs, files>>

(* os.Stat(dest): a module that exists is left alone.                       *)
ExistsWhole(p) ==                \* mutant: only a complete module counts
  {f.path : f \in FilesOf(ModuleOf(p))} = {TreeOf(p)[i] : i \in 1..Len(TreeOf(p))}

Exists(p) == ModuleOf(p) \in dirs

Stat(p) ==
  /\ pc[p] = "stat"
  /\ Goto(p, IF Exists(p) THEN "failed" ELSE "mkdir")
  /\ UNCHANGED <<opts, next, dirs, files, before>>

(* renderTree, for each file of the tree: its directory, then the file.     *)
Mkdir(p) ==
  /\ pc[p] = "mkdir"
  /\ dirs' = dirs \union {ModuleOf(p)}
  /\ Goto(p, "write")
  /\ UNCHANGED <<opts, next, files, before>>

(* The file of that name, if there is one, is replaced.                     *)
Put(p, whole) ==
  LET f == [module |-> ModuleOf(p), path |-> TreeOf(p)[next[p]], by |-> p, whole |-> whole]
  IN files' = {g \in files : g.module # f.module \/ g.path # f.path} \union {f}

(* On to the next file, or to the end.                                      *)
Advance(p) ==
  /\ next' = [next EXCEPT ![p] = @ + 1]
  /\ Goto(p, IF next[p] = Len(TreeOf(p)) THEN "done" ELSE "mkdir")

Write(p) ==
  /\ pc[p] = "write"
  /\ Put(p, TRUE)
  /\ Advance(p)
  /\ UNCHANGED <<opts, dirs, before>>

(* What renderTree does with an error of WriteFile: it returns it.          *)
AfterWriteErrorIgnored(p) == Advance(p)     \* mutant: the error is not returned

AfterWriteError(p) == Goto(p, "failed") /\ UNCHANGED next

(* The file cannot be opened, or is written in part.                        *)
WriteFails(p) ==
  /\ "disk" \in Faults
  /\ pc[p] = "write"
  /\ Put(p, FALSE) \/ UNCHANGED files
  /\ AfterWriteError(p)
  /\ UNCHANGED <<opts, dirs, before>>

(* MkdirAll fails, perhaps after it has made the directory.                 *)
MkdirFails(p) ==
  /\ "disk" \in Faults
  /\ pc[p] = "mkdir"
  /\ dirs' \in {dirs, dirs \union {ModuleOf(p)}}
  /\ Goto(p, "failed")
  /\ UNCHANGED <<opts, next, files, before>>

(* The process is killed, possibly within a write.                          *)
Crash(p) ==
  /\ "crash" \in Faults
  /\ pc[p] \in {"stat", "mkdir", "write"}
  /\ Goto(p, "dead")
  /\ (pc[p] = "write" /\ Put(p, FALSE)) \/ UNCHANGED files
  /\ UNCHANGED <<opts, next, dirs, before>>

AllOver ==
  /\ \A p \in Runs : Over(p)
  /\ UNCHANGED vars

Next ==
  \/ \E p \in Runs :
       \/ Begin(p) \/ Stat(p) \/ Mkdir(p) \/ Write(p)
       \/ WriteFails(p) \/ MkdirFails(p) \/ Crash(p)
  \/ AllOver

Spec == Init /\ [][Next]_vars

----------------------------------------------------------------------------
(* Properties.                                                              *)

Labels == {"idle", "stat", "mkdir", "write", "done", "failed", "dead"}

(* Every variable holds values of its type, and no directory has a name     *)
(* that is not lower-case letters, digits and underscores.                  *)
TypeOK ==
  /\ pc \in [Runs -> Labels]
  /\ opts \in [Runs -> [name : Words, flavor : Flavors]]
  /\ next \in [Runs -> Nat]
  /\ dirs \subseteq Words
  /\ files \subseteq File
  /\ before \in [Runs -> SUBSET Runs]
  /\ \A n \in dirs : \A i \in 1..Len(Spelling[n]) :
       Spelling[n][i] \in {"lower", "digit", "wide digit", "underscore"}

(* What the arguments mean, told without the loop: an argument is the value *)
(* of the --plural before it, if that is no value itself; of the others     *)
(* those that begin with a dash are flags; the last plural counts; and there *)
(* is one name, after which there is no other word.                         *)
IsValue(args) ==
  LET value[i \in 1..Len(args)] ==
        IF i = 1 THEN FALSE ELSE args[i - 1] \in Plurals /\ ~ value[i - 1]
  IN value

Own(args) == {i \in 1..Len(args) : ~ IsValue(args)[i]}

WordsAt(args) == {i \in Own(args) : ~ FlagLike(args[i])}

NamesAt(args) == {i \in WordsAt(args) : args[i] # ""}

MinimalAt(args) == {i \in Own(args) : args[i] \in Minimals}

PluralAt(args) == {i \in 1..Len(args) : IsValue(args)[i] \/ args[i] \in DOMAIN Inline}

PluralIs(args, i) == IF IsValue(args)[i] THEN args[i] ELSE Inline[args[i]]

Unknown(args) ==
  {i \in Own(args) : FlagLike(args[i]) /\ args[i] \notin Minimals \union Plurals \union DOMAIN Inline}

Dangling(args) == Len(args) \in Own(args) /\ args[Len(args)] \in Plurals

Earliest(S) == CHOOSE i \in S : \A j \in S : i <= j

Latest(S) == CHOOSE i \in S : \A j \in S : j <= i

Meaning(args) ==
  LET n == Earliest(NamesAt(args)) IN
  IF \/ Unknown(args) # {} \/ Dangling(args) \/ NamesAt(args) = {}
     \/ (\E j \in WordsAt(args) : j > n) \/ ~ ValidName(args[n])
    THEN Rejected
    ELSE [name |-> args[n],
          flavor |-> IF MinimalAt(args) = {} THEN "full" ELSE "minimal",
          plural |-> IF PluralAt(args) = {} THEN "" ELSE PluralIs(args, Latest(PluralAt(args)))]

(* "callers can write either order" (main.go:52-55): the loop reads from    *)
(* every list of arguments what it means, whatever the order of flags,      *)
(* values and name, repetitions and empty arguments included.  The state    *)
(* plays no part in it, so it is looked at before the first run.            *)
OptionsMean ==
  (\A p \in Runs : pc[p] = "idle") => \A args \in ArgLists : Options(args) = Meaning(args)

(* Neither of two runs was over when the other began.                       *)
Overlap(p, q) ==
  /\ p # q /\ ModuleOf(p) = ModuleOf(q)
  /\ pc[p] # "idle" /\ pc[q] # "idle"
  /\ p \notin before[q] /\ q \notin before[p]

WholeFiles(p) ==
  {[module |-> ModuleOf(p), path |-> TreeOf(p)[i], by |-> p, whole |-> TRUE] : i \in 1..Len(TreeOf(p))}

(* A run that says it has scaffolded a module has: its files and no others, *)
(* all complete, are there then and ever after, whatever runs failed before *)
(* it or come later, of the same flavor or the other, unless one overlapped *)
(* with it.                                                                 *)
DoneIsWhole ==
  \A p \in Runs :
    pc[p] = "done" /\ (\A q \in Runs : ~ Overlap(p, q)) => FilesOf(ModuleOf(p)) = WholeFiles(p)

(* "already exists" (main.go:109): a run replaces or completes no file of   *)
(* a module that another run has begun, unless the two overlap; what is     *)
(* left of a run that failed is never built upon.                           *)
NeverBuildsOn ==
  [][\A p \in Runs : \A f \in files :
       pc'[p] # pc[p] /\ files' # files /\ f.module = ModuleOf(p) /\ f.by # p
         => Overlap(p, f.by)]_vars

----------------------------------------------------------------------------
(* The inductive invariant behind DoneIsWhole and NeverBuildsOn.            *)

Building(p) == pc[p] \in {"mkdir", "write"}

Shape ==
  /\ pc \in [Runs -> Labels]
  /\ next \in [Runs -> Nat]
  /\ before \in [Runs -> SUBSET Runs]
  /\ DOMAIN opts = Runs
  /\ \A p \in Runs : opts[p].flavor \in Flavors

(* Where a run is in its tree, and what it leaves behind.                   *)
Progress ==
  \A p \in Runs :
    /\ pc[p] \in {"idle", "stat"} => next[p] = 1
    /\ Building(p) => next[p] \in 1..Len(TreeOf(p))
    /\ pc[p] = "done" => next[p] = Len(TreeOf(p)) + 1
    /\ pc[p] \in {"write", "done"} \/ next[p] > 1 => ModuleOf(p) \in dirs
    /\ \A q \in before[p] : Over(q)
    /\ pc[p] = "idle" => before[p] = {}

(* A file is in the directory of the module of the run that wrote it.       *)
Signed ==
  \A f \in files :
    /\ f.by \in Runs /\ f.module = ModuleOf(f.by) /\ f.module \in dirs
    /\ pc[f.by] \notin {"idle", "stat"}

(* A run builds only where no run had finished before it.                   *)
FirstToFinish ==
  \A p, q \in Runs :
    Building(q) /\ p \in before[q] /\ ModuleOf(p) = ModuleOf(q) => pc[p] # "done"

(* What a run finds in its module is its own, or of a run that it overlaps. *)
OwnFiles ==
  \A p \in Runs : \A f \in files :
    Building(p) /\ f.module = ModuleOf(p) /\ f.by # p => Overlap(p, f.by)

WrittenFiles(p) ==
  {[module |-> ModuleOf(p), path |-> TreeOf(p)[i], by |-> p, whole |-> TRUE] : i \in 1..(next[p] - 1)}

(* A run that overlaps none has written what it has come to.                *)
AsFarAsWritten ==
  \A p \in Runs :
    (Building(p) \/ pc[p] = "done") /\ (\A q \in Runs : ~ Overlap(p, q))
      => FilesOf(ModuleOf(p)) = WrittenFiles(p)

(* A run goes past its arguments only with a name that validateName allows. *)
Named == \A p \in Runs : pc[p] \in {"stat", "mkdir", "write"} => ValidName(ModuleOf(p))

GenInv == Shape /\ Named /\ Progress /\ Signed /\ FirstToFinish /\ OwnFiles /\ AsFarAsWritten
====
