---- MODULE GenProofs ----
(***************************************************************************)
(* A generator run that reports success has a complete module of its own,  *)
(* and no run builds on another's: proved for any number of runs, any      *)
(* arguments, any templates, and with every fault.                         *)
(***************************************************************************)
EXTENDS Gen, TLAPS

(* Every outcome of reading arguments names a flavor that has a tree.       *)
LEMMA OutcomeHasTree ==
  ASSUME NEW o \in Outcomes
  PROVE  o.flavor \in Flavors /\ (o # Scaffold(Rejected) => ValidName(o.name))
<1>0. PICK args \in ArgLists : o = Scaffold(Options(args))
  BY DEF Outcomes
<1> DEFINE s == Scanned(args)
<1>1. CASE Options(args) = Rejected
  <2>1. o = Scaffold(Rejected)
    BY <1>0, <1>1
  <2> QED
    BY <2>1 DEF Scaffold, Rejected, Flavors
<1>2. CASE Options(args) # Rejected
  <2>1. /\ ValidName(s.name)
        /\ Options(args) = [name |-> s.name, flavor |-> IF s.minimal THEN "minimal" ELSE "full",
                            plural |-> s.plural]
    BY <1>2 DEF Options
  <2> HIDE DEF s
  <2> QED
    BY <1>0, <2>1 DEF Scaffold, Flavors
<1> QED
  BY <1>1, <1>2

(* A tree's files have different names.                                     *)
LEMMA TreeNames ==
  ASSUME Shape, NEW p \in Runs
  PROVE  /\ Len(TreeOf(p)) \in Nat \ {0}
         /\ \A i, j \in 1..Len(TreeOf(p)) : TreeOf(p)[i] = TreeOf(p)[j] => i = j
<1>1. opts[p].flavor \in Flavors
  BY DEF Shape
<1>2. /\ Tree[opts[p].flavor] \in Seq(STRING) /\ Len(Tree[opts[p].flavor]) > 0
      /\ \A i, j \in 1..Len(Tree[opts[p].flavor]) :
           Tree[opts[p].flavor][i] = Tree[opts[p].flavor][j] => i = j
  BY <1>1, GenAssumption
<1>3. Len(Tree[opts[p].flavor]) \in Nat
  BY <1>2
<1> QED
  BY <1>2, <1>3 DEF TreeOf

LEMMA InitHolds == Init => GenInv
<1> SUFFICES ASSUME Init PROVE GenInv
  OBVIOUS
<1>1. Shape
  BY DEF Init, Shape, Labels, Scaffold, Rejected, Flavors
<1>2. Progress /\ Named
  BY DEF Init, Progress, Building, Named
<1>3. Signed /\ OwnFiles
  BY DEF Init, Signed, OwnFiles
<1>4. FirstToFinish /\ AsFarAsWritten
  BY DEF Init, FirstToFinish, AsFarAsWritten, Building
<1> QED
  BY <1>1, <1>2, <1>3, <1>4 DEF GenInv

(* A run's step.                                                            *)
Step(p) ==
  \/ Begin(p) \/ Stat(p) \/ Mkdir(p) \/ Write(p)
  \/ WriteFails(p) \/ MkdirFails(p) \/ Crash(p)

(* What any step of p leaves of the other runs.                             *)
LEMMA OthersStay ==
  ASSUME Shape, NEW p \in Runs, Step(p), NEW q \in Runs, q # p
  PROVE  /\ pc'[q] = pc[q] /\ next'[q] = next[q] /\ opts'[q] = opts[q] /\ before'[q] = before[q]
         /\ Over(q)' = Over(q) /\ Building(q)' = Building(q)
         /\ ModuleOf(q)' = ModuleOf(q) /\ TreeOf(q)' = TreeOf(q)
BY DEF Shape, Step, Begin, Stat, Mkdir, Write, WriteFails, MkdirFails, Crash, Goto, Advance,
       AfterWriteError, Over, Building, ModuleOf, TreeOf

(* What a step of p that is not its first leaves of p.                      *)
LEMMA SelfStays ==
  ASSUME Shape, NEW p \in Runs, Step(p), pc[p] # "idle"
  PROVE  /\ opts' = opts /\ before' = before
         /\ ModuleOf(p)' = ModuleOf(p) /\ TreeOf(p)' = TreeOf(p)
         /\ pc[p] \in {"stat", "mkdir", "write"} /\ pc'[p] # "idle"
BY DEF Shape, Step, Begin, Stat, Mkdir, Write, WriteFails, MkdirFails, Crash, Goto, Advance,
       AfterWriteError, ModuleOf, TreeOf

(* Runs that overlap go on doing so.                                        *)
LEMMA OverlapStays ==
  ASSUME GenInv, NEW r \in Runs, Step(r), NEW p \in Runs, NEW q \in Runs, Overlap(p, q)
  PROVE  Overlap(p, q)'
<1>1. pc[p] # "idle" /\ pc[q] # "idle"
  BY DEF Overlap
<1>2. \A s \in {p, q} : pc'[s] # "idle" /\ ModuleOf(s)' = ModuleOf(s) /\ before'[s] = before[s]
  BY <1>1, OthersStay, SelfStays DEF GenInv
<1> QED
  BY <1>2 DEF Overlap

LEMMA ShapeKept ==
  ASSUME GenInv, NEW p \in Runs, Step(p)
  PROVE  Shape'
<1> USE DEF GenInv, Shape
<1>1. /\ pc' \in [Runs -> Labels] /\ next' \in [Runs -> Nat]
      /\ before' \in [Runs -> SUBSET Runs]
  <2>1. CASE Begin(p)
    <3>1. \A S : before' = [before EXCEPT ![p] = S] /\ S \subseteq Runs
             => before' \in [Runs -> SUBSET Runs]
      OBVIOUS
    <3> QED
      BY <2>1, <3>1 DEF Begin, Goto, Labels
  <2>2. CASE Write(p)
    BY <2>2 DEF Write, Goto, Advance, Labels
  <2>3. CASE Stat(p) \/ Mkdir(p) \/ WriteFails(p) \/ MkdirFails(p) \/ Crash(p)
    BY <2>3 DEF Stat, Mkdir, WriteFails, MkdirFails, Crash, Goto, AfterWriteError, Labels
  <2> QED
    BY <2>1, <2>2, <2>3 DEF Step
<1>2. DOMAIN opts' = Runs /\ \A q \in Runs : opts'[q].flavor \in Flavors
  <2>1. CASE Begin(p)
    <3>1. PICK o \in Outcomes : opts' = [opts EXCEPT ![p] = o]
      BY <2>1 DEF Begin
    <3>2. o.flavor \in Flavors
      BY OutcomeHasTree
    <3> QED
      BY <3>1, <3>2
  <2>2. CASE ~ Begin(p)
    BY <2>2 DEF Step, Stat, Mkdir, Write, WriteFails, MkdirFails, Crash
  <2> QED
    BY <2>1, <2>2
<1> QED
  BY <1>1, <1>2

LEMMA NamedKept ==
  ASSUME GenInv, NEW p \in Runs, Step(p)
  PROVE  Named'
<1> USE DEF GenInv
<1> SUFFICES ASSUME NEW q \in Runs, pc'[q] \in {"stat", "mkdir", "write"}
             PROVE  ValidName(ModuleOf(q)')
  BY DEF Named
<1>1. CASE q # p
  BY <1>1, OthersStay DEF Named
<1>2. CASE q = p /\ ~ Begin(p)
  <2>1. pc[p] # "idle"
    BY <1>2 DEF Step, Stat, Mkdir, Write, WriteFails, MkdirFails, Crash
  <2>2. pc[p] \in {"stat", "mkdir", "write"} /\ ModuleOf(p)' = ModuleOf(p)
    BY <2>1, SelfStays
  <2> QED
    BY <1>2, <2>2 DEF Named
<1>3. CASE q = p /\ Begin(p)
  <2>1. PICK o \in Outcomes :
          /\ opts' = [opts EXCEPT ![p] = o]
          /\ o = Scaffold(Rejected) => pc'[p] = "failed"
    BY <1>3 DEF Begin, Goto, Shape
  <2>2. o # Scaffold(Rejected)
    BY <1>3, <2>1
  <2>3. ModuleOf(p)' = o.name
    BY <2>1 DEF ModuleOf, Shape
  <2> QED
    BY <1>3, <2>2, <2>3, OutcomeHasTree
<1> QED
  BY <1>1, <1>2, <1>3

(* What a step of p does to p's own progress and to the directories.        *)
LEMMA ProgressKept ==
  ASSUME GenInv, NEW p \in Runs, Step(p)
  PROVE  Progress' /\ dirs \subseteq dirs'
<1> USE DEF GenInv
<1>1. dirs \subseteq dirs'
  BY DEF Step, Begin, Stat, Mkdir, Write, WriteFails, MkdirFails, Crash
<1>2. ASSUME NEW q \in Runs, q # p
      PROVE  /\ pc'[q] \in {"idle", "stat"} => next'[q] = 1
             /\ Building(q)' => next'[q] \in 1..Len(TreeOf(q)')
             /\ pc'[q] = "done" => next'[q] = Len(TreeOf(q)') + 1
             /\ pc'[q] \in {"write", "done"} \/ next'[q] > 1 => ModuleOf(q)' \in dirs'
             /\ pc'[q] = "idle" => before'[q] = {}
  BY <1>1, <1>2, OthersStay DEF Progress
<1>3. /\ pc'[p] \in {"idle", "stat"} => next'[p] = 1
      /\ Building(p)' => next'[p] \in 1..Len(TreeOf(p)')
      /\ pc'[p] = "done" => next'[p] = Len(TreeOf(p)') + 1
      /\ pc'[p] \in {"write", "done"} \/ next'[p] > 1 => ModuleOf(p)' \in dirs'
      /\ pc'[p] = "idle" => before'[p] = {}
  <2>1. CASE Begin(p)
    BY <2>1 DEF Begin, Goto, Progress, Shape, Building
  <2>2. CASE ~ Begin(p)
    <3>1. pc[p] # "idle"
      BY <2>2 DEF Step, Stat, Mkdir, Write, WriteFails, MkdirFails, Crash
    <3>2. /\ ModuleOf(p)' = ModuleOf(p) /\ TreeOf(p)' = TreeOf(p) /\ pc'[p] # "idle"
          /\ Len(TreeOf(p)) \in Nat \ {0}
      BY <3>1, SelfStays, TreeNames
    <3>3. CASE Stat(p)
      BY <3>2, <3>3 DEF Stat, Goto, Progress, Shape, Building
    <3>4. CASE Mkdir(p)
      BY <3>2, <3>4 DEF Mkdir, Goto, Progress, Shape, Building
    <3>5. CASE Write(p)
      BY <3>2, <3>5 DEF Write, Advance, Goto, Progress, Shape, Building
    <3>6. CASE WriteFails(p) \/ MkdirFails(p) \/ Crash(p)
      BY <3>2, <3>6 DEF WriteFails, AfterWriteError, MkdirFails, Crash, Goto, Progress, Shape, Building
    <3> QED
      BY <2>2, <3>3, <3>4, <3>5, <3>6 DEF Step
  <2> QED
    BY <2>1, <2>2
<1>4. ASSUME NEW q \in Runs, NEW r \in before'[q] PROVE Over(r)'
  <2>1. before' = before \/ (Begin(p) /\ before' = [before EXCEPT ![p] = {s \in Runs : Over(s)}])
    BY DEF Step, Begin, Stat, Mkdir, Write, WriteFails, MkdirFails, Crash
  <2>2. r \in Runs /\ Over(r)
    BY <1>4, <2>1 DEF Shape, Progress
  <2>3. r # p
    BY <2>2, SelfStays DEF Over
  <2> QED
    BY <2>2, <2>3, OthersStay
<1> QED
  BY <1>1, <1>2, <1>3, <1>4 DEF Progress

(* A step of p puts at most one file, of p's, into p's module, and only     *)
(* while p writes.                                                          *)
LEMMA FilesOfStep ==
  ASSUME NEW p \in Runs, Step(p)
  PROVE  \/ files' = files
         \/ /\ pc[p] = "write" /\ opts' = opts /\ before' = before
            /\ \E whole \in BOOLEAN : Put(p, whole)
BY DEF Step, Begin, Stat, Mkdir, Write, WriteFails, MkdirFails, Crash

LEMMA SignedKept ==
  ASSUME GenInv, NEW p \in Runs, Step(p)
  PROVE  Signed'
<1> SUFFICES ASSUME NEW f \in files'
             PROVE  /\ f.by \in Runs /\ f.module = ModuleOf(f.by)' /\ f.module \in dirs'
                    /\ pc'[f.by] \notin {"idle", "stat"}
  BY DEF Signed
<1>1. Shape /\ Signed /\ Progress /\ dirs \subseteq dirs'
  BY ProgressKept DEF GenInv
<1>2. CASE f \in files
  <2>1. f.by \in Runs /\ f.module = ModuleOf(f.by) /\ f.module \in dirs /\ pc[f.by] \notin {"idle", "stat"}
    BY <1>1, <1>2 DEF Signed
  <2>2. CASE f.by # p
    BY <1>1, <2>1, <2>2, OthersStay
  <2>3. CASE f.by = p
    <3>1. pc[p] # "idle" /\ ~ Begin(p) /\ ~ Stat(p)
      BY <2>1, <2>3 DEF Begin, Stat
    <3>2. pc'[p] \notin {"idle", "stat"}
      BY <1>1, <3>1 DEF Step, Shape, Mkdir, Write, WriteFails, MkdirFails, Crash, Goto, Advance, AfterWriteError
    <3> QED
      BY <1>1, <2>1, <2>3, <3>1, <3>2, SelfStays
  <2> QED
    BY <2>2, <2>3
<1>3. CASE f \notin files
  <2>1. pc[p] = "write" /\ opts' = opts /\ f.by = p /\ f.module = ModuleOf(p)
    BY <1>3, FilesOfStep DEF Put
  <2>2. Write(p) \/ WriteFails(p) \/ Crash(p)
    BY <2>1 DEF Step, Begin, Stat, Mkdir, MkdirFails
  <2>3. pc'[p] \notin {"idle", "stat"}
    BY <1>1, <2>2 DEF Shape, Write, WriteFails, Crash, Goto, Advance, AfterWriteError
  <2>4. ModuleOf(p) \in dirs
    BY <1>1, <2>1 DEF Progress
  <2> QED
    BY <1>1, <2>1, <2>3, <2>4, SelfStays
<1> QED
  BY <1>2, <1>3

(* A run that starts to build, or that is being begun, finds that no other  *)
(* has finished: a finished module has its directory.                       *)
LEMMA FirstToFinishKept ==
  ASSUME GenInv, NEW r \in Runs, Step(r)
  PROVE  FirstToFinish'
<1> SUFFICES ASSUME NEW p \in Runs, NEW q \in Runs,
                    Building(q)', p \in before'[q], ModuleOf(p)' = ModuleOf(q)'
             PROVE  pc'[p] # "done"
  BY DEF FirstToFinish
<1>1. Shape /\ Progress /\ Shape' /\ Progress'
  BY ShapeKept, ProgressKept DEF GenInv
<1>2. ~ Begin(q) \/ r # q
  BY DEF Begin, Goto, Building, Shape, GenInv
<1>3. CASE r # q
  <2>1. Building(q) /\ p \in before[q] /\ ModuleOf(q)' = ModuleOf(q) /\ Over(p)
    BY <1>1, <1>3, OthersStay DEF Progress
  <2>2. p # r
    BY <1>1, <2>1, SelfStays DEF Over
  <2>3. pc'[p] = pc[p] /\ ModuleOf(p)' = ModuleOf(p)
    BY <1>1, <2>2, OthersStay
  <2> QED
    BY <2>1, <2>3 DEF FirstToFinish, GenInv
<1>4. CASE r = q
  <2>1. pc[q] # "idle"
    BY <1>1, <1>2, <1>4 DEF Step, Shape, Begin, Stat, Mkdir, Write, WriteFails, MkdirFails, Crash
  <2>2. p \in before[q] /\ ModuleOf(q)' = ModuleOf(q) /\ Over(p) /\ p # q
    BY <1>1, <1>4, <2>1, SelfStays DEF Progress, Over
  <2>3. pc'[p] = pc[p] /\ ModuleOf(p)' = ModuleOf(p)
    BY <1>1, <1>4, <2>2, OthersStay
  <2>4. CASE Building(q)
    BY <2>2, <2>3, <2>4 DEF FirstToFinish, GenInv
  <2>5. CASE ~ Building(q)
    <3>1. pc[q] = "stat"
      BY <1>1, <1>4, <2>1, <2>5, SelfStays DEF Building
    <3>2. Stat(q) /\ ~ Exists(q)
      BY <1>1, <1>4, <3>1 DEF Step, Shape, Begin, Stat, Mkdir, Write, WriteFails, MkdirFails, Crash, Goto, Building
    <3>3. ModuleOf(p) \notin dirs
      BY <2>2, <2>3, <3>2 DEF Exists
    <3> QED
      BY <1>1, <2>3, <3>3 DEF Progress
  <2> QED
    BY <2>4, <2>5
<1> QED
  BY <1>3, <1>4

(* Two runs that build the same module overlap.                             *)
LEMMA BuildersOverlap ==
  ASSUME GenInv, NEW p \in Runs, NEW q \in Runs, p # q,
         Building(p), Building(q), ModuleOf(p) = ModuleOf(q)
  PROVE  Overlap(p, q)
BY DEF GenInv, Progress, Overlap, Building, Over

LEMMA OwnFilesKept ==
  ASSUME GenInv, NEW r \in Runs, Step(r)
  PROVE  OwnFiles'
<1> SUFFICES ASSUME NEW p \in Runs, NEW f \in files',
                    Building(p)', f.module = ModuleOf(p)', f.by # p
             PROVE  Overlap(p, f.by)'
  BY DEF OwnFiles
<1>1. Shape /\ Signed /\ Progress /\ OwnFiles
  BY DEF GenInv
<1>2. pc[p] # "idle" /\ ModuleOf(p)' = ModuleOf(p)
  <2>1. CASE p = r
    <3>1. ~ Begin(p)
      BY <1>1 DEF Begin, Goto, Building, Shape
    <3>2. pc[p] # "idle"
      BY <2>1, <3>1 DEF Step, Stat, Mkdir, Write, WriteFails, MkdirFails, Crash
    <3> QED
      BY <1>1, <2>1, <3>2, SelfStays
  <2>2. CASE p # r
    BY <1>1, <2>2, OthersStay DEF Building
  <2> QED
    BY <2>1, <2>2
<1>3. CASE f \in files
  <2>1. f.by \in Runs
    BY <1>1, <1>3 DEF Signed
  <2>2. CASE Building(p)
    <3>1. Overlap(p, f.by)
      BY <1>1, <1>2, <1>3, <2>2 DEF OwnFiles
    <3> QED
      BY <2>1, <3>1, OverlapStays
  <2>3. CASE ~ Building(p)
    <3>1. p = r
      BY <1>1, <2>3, OthersStay
    <3>2. pc[p] = "stat"
      BY <1>1, <1>2, <2>3, <3>1, SelfStays DEF Building
    <3>3. Stat(p) /\ ~ Exists(p)
      BY <1>1, <3>1, <3>2 DEF Step, Shape, Begin, Stat, Mkdir, Write, WriteFails, MkdirFails, Crash, Goto, Building
    <3> QED
      BY <1>1, <1>2, <1>3, <3>3 DEF Exists, Signed
  <2> QED
    BY <2>2, <2>3
<1>4. CASE f \notin files
  <2>1. pc[r] = "write" /\ f.by = r /\ f.module = ModuleOf(r)
    BY <1>4, FilesOfStep DEF Put
  <2>2. pc[p] \in {"mkdir", "write"}
    BY <1>1, <2>1, OthersStay DEF Building
  <2>3. Overlap(p, r)
    BY <1>2, <2>1, <2>2, BuildersOverlap DEF Building
  <2> QED
    BY <2>1, <2>3, OverlapStays
<1> QED
  BY <1>3, <1>4

(* A run that overlaps none, once it builds, finds in its module at every   *)
(* step of another what it found before.                                    *)
LEMMA LeftAlone ==
  ASSUME GenInv, NEW r \in Runs, Step(r), NEW p \in Runs, p # r,
         Building(p) \/ pc[p] = "done", \A q \in Runs : ~ Overlap(p, q)
  PROVE  {f \in files' : f.module = ModuleOf(p)} = FilesOf(ModuleOf(p))
<1>1. CASE files' = files
  BY <1>1 DEF FilesOf
<1>2. CASE files' # files
  <2>1. pc[r] = "write" /\ \E whole \in BOOLEAN : Put(r, whole)
    BY <1>2, FilesOfStep
  <2>2. ModuleOf(r) # ModuleOf(p)
    <3> SUFFICES ASSUME ModuleOf(r) = ModuleOf(p) PROVE FALSE
      OBVIOUS
    <3>1. CASE Building(p)
      BY <2>1, <3>1, BuildersOverlap DEF Building
    <3>2. CASE pc[p] = "done"
      <4>1. r \notin before[p]
        BY <2>1 DEF GenInv, Progress, Over
      <4>2. p \in before[r]
        BY <2>1, <3>2, <4>1 DEF Overlap
      <4> QED
        BY <2>1, <3>2, <4>2 DEF GenInv, FirstToFinish, Building
    <3> QED
      BY <3>1, <3>2
  <2> QED
    BY <2>1, <2>2 DEF Put, FilesOf
<1> QED
  BY <1>1, <1>2

LEMMA AsFarAsWrittenKept ==
  ASSUME GenInv, NEW r \in Runs, Step(r)
  PROVE  AsFarAsWritten'
<1> SUFFICES ASSUME NEW p \in Runs, Building(p)' \/ pc'[p] = "done",
                    \A q \in Runs : ~ Overlap(p, q)'
             PROVE  FilesOf(ModuleOf(p))' = WrittenFiles(p)'
  BY DEF AsFarAsWritten
<1>1. Shape /\ Signed /\ Progress /\ AsFarAsWritten /\ Shape'
  BY ShapeKept DEF GenInv
<1>2. \A q \in Runs : ~ Overlap(p, q)
  BY OverlapStays
<1>3. CASE p # r
  <2>1. /\ Building(p) \/ pc[p] = "done"
        /\ next'[p] = next[p] /\ ModuleOf(p)' = ModuleOf(p) /\ TreeOf(p)' = TreeOf(p)
    BY <1>1, <1>3, OthersStay
  <2>2. FilesOf(ModuleOf(p)) = WrittenFiles(p)
    BY <1>1, <1>2, <2>1 DEF AsFarAsWritten
  <2>3. {f \in files' : f.module = ModuleOf(p)} = FilesOf(ModuleOf(p))
    BY <1>2, <1>3, <2>1, LeftAlone
  <2>4. WrittenFiles(p)' = WrittenFiles(p)
    BY <2>1 DEF WrittenFiles
  <2> QED
    BY <2>1, <2>2, <2>3, <2>4 DEF FilesOf
<1>4. CASE p = r
  <2>1. Stat(p) \/ Mkdir(p) \/ Write(p)
    BY <1>1, <1>4 DEF Step, Shape, Begin, WriteFails, MkdirFails, Crash, Goto, AfterWriteError, Building
  <2>2. opts' = opts /\ ModuleOf(p)' = ModuleOf(p) /\ TreeOf(p)' = TreeOf(p)
    BY <2>1 DEF Stat, Mkdir, Write, ModuleOf, TreeOf
  <2>3. CASE Stat(p)
    <3>1. ~ Exists(p) /\ files' = files /\ next'[p] = 1
      BY <1>1, <2>3 DEF Stat, Goto, Shape, Building, Progress
    <3>2. FilesOf(ModuleOf(p))' = {}
      BY <1>1, <2>2, <3>1 DEF Exists, Signed, FilesOf
    <3>3. WrittenFiles(p)' = {}
      BY <3>1 DEF WrittenFiles
    <3> QED
      BY <3>2, <3>3
  <2>4. CASE Mkdir(p)
    BY <1>1, <1>2, <2>2, <2>4 DEF Mkdir, AsFarAsWritten, Building, FilesOf, WrittenFiles
  <2>5. CASE Write(p)
    <3> DEFINE written(i) == [module |-> ModuleOf(p), path |-> TreeOf(p)[i], by |-> p, whole |-> TRUE]
               n == next[p]
    <3>1. FilesOf(ModuleOf(p)) = {written(i) : i \in 1..(n - 1)} /\ n \in 1..Len(TreeOf(p))
      BY <1>1, <1>2, <2>5 DEF Write, AsFarAsWritten, Progress, Building, WrittenFiles
    <3>2. next'[p] = n + 1
      BY <1>1, <2>5 DEF Write, Advance, Shape
    <3>3. WrittenFiles(p)' = {written(i) : i \in 1..n}
      BY <2>2, <3>1, <3>2 DEF WrittenFiles
    <3>4. files' = {g \in files : g.module # ModuleOf(p) \/ g.path # TreeOf(p)[n]} \union {written(n)}
      BY <2>5 DEF Write, Put
    <3>5. \A i \in 1..(n - 1) : written(i).path # TreeOf(p)[n]
      BY <1>1, <3>1, TreeNames
    <3>6. FilesOf(ModuleOf(p))' = FilesOf(ModuleOf(p)) \union {written(n)}
      <4>1. FilesOf(ModuleOf(p))' = {g \in files' : g.module = ModuleOf(p)}
        BY <2>2 DEF FilesOf
      <4>2. \A g \in FilesOf(ModuleOf(p)) : g.path # TreeOf(p)[n]
        BY <3>1, <3>5
      <4>3. written(n).module = ModuleOf(p)
        OBVIOUS
      <4> HIDE DEF written
      <4> QED
        BY <3>4, <4>1, <4>2, <4>3 DEF FilesOf
    <3>7. {written(i) : i \in 1..n} = {written(i) : i \in 1..(n - 1)} \union {written(n)}
      <4> HIDE DEF written
      <4>1. 1..n = 1..(n - 1) \union {n}
        BY <3>1
      <4> QED
        BY <4>1
    <3> QED
      BY <3>1, <3>3, <3>6, <3>7
  <2> QED
    BY <2>1, <2>3, <2>4, <2>5
<1> QED
  BY <1>3, <1>4

LEMMA NextKeeps == GenInv /\ [Next]_vars => GenInv'
<1> SUFFICES ASSUME GenInv, [Next]_vars PROVE GenInv'
  OBVIOUS
<1>1. ASSUME NEW p \in Runs, Step(p) PROVE GenInv'
  BY <1>1, ShapeKept, NamedKept, ProgressKept, SignedKept, FirstToFinishKept, OwnFilesKept, AsFarAsWrittenKept
     DEF GenInv
<1>2. CASE UNCHANGED vars
  BY <1>2 DEF vars, GenInv, Shape, Named, Progress, Signed, FirstToFinish, OwnFiles, AsFarAsWritten,
              Building, Over, Overlap, ModuleOf, TreeOf, FilesOf, WrittenFiles
<1> QED
  BY <1>1, <1>2 DEF Next, Step, AllOver

(* The inductive invariant holds in every behaviour.                        *)
THEOREM GenInvariant == Spec => []GenInv
BY InitHolds, NextKeeps, PTL DEF Spec

(* A run that reports success, and that no run on its module overlapped,    *)
(* has all the files of its flavor there, its own, complete, and for ever.  *)
THEOREM ScaffoldedIsWhole == Spec => []DoneIsWhole
<1>1. GenInv => DoneIsWhole
  <2> SUFFICES ASSUME GenInv, NEW p \in Runs, pc[p] = "done", \A q \in Runs : ~ Overlap(p, q)
               PROVE  FilesOf(ModuleOf(p)) = WholeFiles(p)
    BY DEF DoneIsWhole
  <2>1. FilesOf(ModuleOf(p)) = WrittenFiles(p) /\ next[p] = Len(TreeOf(p)) + 1
    BY DEF GenInv, AsFarAsWritten, Progress
  <2>2. Len(TreeOf(p)) \in Nat
    BY TreeNames DEF GenInv
  <2>3. next[p] - 1 = Len(TreeOf(p))
    BY <2>1, <2>2
  <2> QED
    BY <2>1, <2>3 DEF WrittenFiles, WholeFiles
<1> QED
  BY <1>1, GenInvariant, PTL

(* No run adds to, replaces or completes what another has left in a module, *)
(* unless the two overlap.                                                  *)
THEOREM NoRunBuildsOnAnother == Spec => NeverBuildsOn
<1>1. ASSUME GenInv, [Next]_vars, NEW p \in Runs, NEW f \in files,
             pc'[p] # pc[p], files' # files, f.module = ModuleOf(p), f.by # p
      PROVE  Overlap(p, f.by)
  <2>1. Step(p)
    <3>1. PICK r \in Runs : Step(r)
      BY <1>1 DEF Next, Step, AllOver, vars
    <3>2. r = p
      BY <1>1, <3>1, OthersStay DEF GenInv
    <3> QED
      BY <3>1, <3>2
  <2>2. pc[p] = "write"
    BY <1>1, <2>1, FilesOfStep
  <2> QED
    BY <1>1, <2>2 DEF GenInv, OwnFiles, Building
<1>2. GenInv /\ [Next]_vars =>
        [\A p \in Runs : \A f \in files :
           pc'[p] # pc[p] /\ files' # files /\ f.module = ModuleOf(p) /\ f.by # p
             => Overlap(p, f.by)]_vars
  BY <1>1
<1> QED
  BY <1>2, GenInvariant, PTL DEF Spec, NeverBuildsOn
====
