---- MODULE GenArgsProofs ----
(***************************************************************************)
(* The generator reads from every list of arguments what it means: proved  *)
(* for lists of any length over any words.  The induction over the list is *)
(* made with least elements of sets of naturals, which exist because < is  *)
(* well founded on them.  What a run then works with is of its type, and so *)
(* are the directories and files that it makes.                            *)
(***************************************************************************)
EXTENDS GenProofs, WellFoundedInduction

(* A set of naturals that is not empty has a least element.                 *)
LEMMA LeastOf ==
  ASSUME NEW T \in SUBSET Nat, T # {}
  PROVE  \E n \in T : \A m \in T : n <= m
<1> DEFINE R == OpToRel(<, Nat)
<1>1. IsWellFoundedOn(R, Nat)
  BY NatLessThanWellFounded
<1>2. \A y, x \in Nat : y < x => <<y, x>> \in R
  BY DEF OpToRel
<1> HIDE DEF R
<1>3. PICK x \in T : \A y \in T : ~ (<<y, x>> \in R)
  BY <1>1, WFMin
<1>4. ASSUME NEW y \in T PROVE x <= y
  <2>1. y \in Nat /\ x \in Nat
    OBVIOUS
  <2>2. ~ (y < x)
    BY <1>2, <1>3, <2>1
  <2> QED
    BY <2>1, <2>2
<1> QED
  BY <1>4

(* Induction up to a bound: a set that has 0 and with each number the next, *)
(* as far as N, has all of 0..N.                                            *)
LEMMA UpToBound ==
  ASSUME NEW N \in Nat, NEW G, 0 \in G, \A n \in 0..N : n < N /\ n \in G => n + 1 \in G
  PROVE  0..N \subseteq G
<1> DEFINE T == {n \in 0..N : n \notin G}
<1> SUFFICES ASSUME T # {} PROVE FALSE
  OBVIOUS
<1>1. T \in SUBSET Nat
  OBVIOUS
<1> HIDE DEF T
<1>2. PICK n \in T : \A m \in T : n <= m
  BY <1>1, LeastOf
<1> USE DEF T
<1>3. n \in 0..N /\ n \notin G /\ n # 0
  OBVIOUS
<1>4. n - 1 \in 0..N /\ n - 1 < N /\ n - 1 \notin T
  BY <1>2, <1>3
<1>5. n - 1 + 1 \in G
  BY <1>4
<1> QED
  BY <1>3, <1>5

----------------------------------------------------------------------------
(* The two recursive functions are what their definitions say.              *)

(* A scan of the first n arguments.                                         *)
ScanOf(args, n, f) ==
  f = [i \in 0..n |-> IF i = 0 THEN Fresh ELSE Take(f[i - 1], args[i])]

LEMMA ScanExists ==
  ASSUME NEW args, NEW N \in Nat
  PROVE  \E f : ScanOf(args, N, f)
<1> DEFINE G == {n \in 0..N : \E f : ScanOf(args, n, f)}
<1>1. 0 \in G
  <2> DEFINE f == [i \in 0..0 |-> Fresh]
  <2>1. ScanOf(args, 0, f)
    BY DEF ScanOf
  <2> QED
    BY <2>1
<1>2. ASSUME NEW n \in 0..N, n < N, n \in G PROVE n + 1 \in G
  <2>1. PICK f : ScanOf(args, n, f)
    BY <1>2
  <2> DEFINE h == [i \in 0..(n + 1) |-> IF i = n + 1 THEN Take(f[n], args[n + 1]) ELSE f[i]]
             k == [i \in 0..(n + 1) |-> IF i = 0 THEN Fresh ELSE Take(h[i - 1], args[i])]
  <2>2. ASSUME NEW i \in 0..(n + 1) PROVE h[i] = k[i]
    <3>1. CASE i = n + 1
      <4>1. h[i] = Take(f[n], args[n + 1])
        BY <3>1
      <4>2. i # 0 /\ i - 1 = n /\ n \in 0..(n + 1) /\ n # n + 1
        BY <3>1
      <4>3. h[n] = f[n]
        BY <4>2
      <4>4. k[i] = Take(h[i - 1], args[i])
        BY <4>2
      <4> HIDE DEF h, k
      <4> QED
        BY <3>1, <4>1, <4>2, <4>3, <4>4
    <3>2. CASE i # n + 1 /\ i = 0
      BY <2>1, <3>2 DEF ScanOf
    <3>3. CASE i # n + 1 /\ i # 0
      <4>1. i \in 0..n /\ i - 1 \in 0..n /\ i - 1 \in 0..(n + 1) /\ i - 1 # n + 1
        BY <3>3
      <4>2. f[i] = Take(f[i - 1], args[i])
        BY <2>1, <3>3, <4>1 DEF ScanOf
      <4>3. h[i] = f[i] /\ h[i - 1] = f[i - 1]
        BY <3>3, <4>1
      <4>4. k[i] = Take(h[i - 1], args[i])
        BY <3>3
      <4> HIDE DEF h, k
      <4> QED
        BY <4>2, <4>3, <4>4
    <3> QED
      BY <3>1, <3>2, <3>3
  <2>3. h = k
    BY <2>2
  <2>4. ScanOf(args, n + 1, h)
    BY <2>3 DEF ScanOf
  <2> QED
    BY <1>2, <2>4
<1> HIDE DEF G
<1>3. 0..N \subseteq G
  BY <1>1, <1>2, UpToBound
<1> USE DEF G
<1> QED
  BY <1>3

(* The loop begins with nothing and takes one argument after the other.     *)
LEMMA AfterEach ==
  ASSUME NEW args \in Seq(Words)
  PROVE  After(args) = [i \in 0..Len(args) |->
                          IF i = 0 THEN Fresh ELSE Take(After(args)[i - 1], args[i])]
<1>1. Len(args) \in Nat
  OBVIOUS
<1>2. \E f : ScanOf(args, Len(args), f)
  BY <1>1, ScanExists
<1>3. After(args) = CHOOSE f : ScanOf(args, Len(args), f)
  BY DEF After, ScanOf
<1>4. ScanOf(args, Len(args), After(args))
  BY <1>2, <1>3
<1> QED
  BY <1>4 DEF ScanOf

(* Which of the first n arguments are values.                               *)
ValuesOf(args, n, f) ==
  f = [i \in 1..n |-> IF i = 1 THEN FALSE ELSE args[i - 1] \in Plurals /\ ~ f[i - 1]]

LEMMA ValuesExist ==
  ASSUME NEW args, NEW N \in Nat
  PROVE  \E f : ValuesOf(args, N, f)
<1> DEFINE G == {n \in 0..N : \E f : ValuesOf(args, n, f)}
<1>1. 0 \in G
  <2> DEFINE f == [i \in 1..0 |-> FALSE]
  <2>1. ValuesOf(args, 0, f)
    BY DEF ValuesOf
  <2> QED
    BY <2>1
<1>2. ASSUME NEW n \in 0..N, n < N, n \in G PROVE n + 1 \in G
  <2>1. PICK f : ValuesOf(args, n, f)
    BY <1>2
  <2> DEFINE last == IF n = 0 THEN FALSE ELSE args[n] \in Plurals /\ ~ f[n]
             h == [i \in 1..(n + 1) |-> IF i = n + 1 THEN last ELSE f[i]]
             k == [i \in 1..(n + 1) |-> IF i = 1 THEN FALSE ELSE args[i - 1] \in Plurals /\ ~ h[i - 1]]
  <2>2. ASSUME NEW i \in 1..(n + 1) PROVE h[i] = k[i]
    <3>1. CASE i = n + 1 /\ n = 0
      BY <3>1
    <3>2. CASE i = n + 1 /\ n # 0
      <4>1. h[i] = (args[n] \in Plurals /\ ~ f[n])
        BY <3>2
      <4>2. i # 1 /\ i - 1 = n /\ n \in 1..(n + 1) /\ n # n + 1
        BY <3>2
      <4>3. h[n] = f[n]
        BY <4>2
      <4>4. k[i] = (args[i - 1] \in Plurals /\ ~ h[i - 1])
        BY <4>2
      <4> HIDE DEF h, k
      <4> QED
        BY <4>1, <4>2, <4>3, <4>4
    <3>3. CASE i # n + 1 /\ i = 1
      <4>1. i \in 1..n /\ h[i] = f[i] /\ k[i] = FALSE
        BY <3>3
      <4>2. f[i] = FALSE
        BY <2>1, <3>3, <4>1 DEF ValuesOf
      <4> HIDE DEF h, k
      <4> QED
        BY <4>1, <4>2
    <3>4. CASE i # n + 1 /\ i # 1
      <4>1. i \in 1..n /\ i - 1 \in 1..n /\ i - 1 \in 1..(n + 1) /\ i - 1 # n + 1
        BY <3>4
      <4>2. f[i] = (args[i - 1] \in Plurals /\ ~ f[i - 1])
        BY <2>1, <3>4, <4>1 DEF ValuesOf
      <4>3. h[i] = f[i] /\ h[i - 1] = f[i - 1]
        BY <3>4, <4>1
      <4>4. k[i] = (args[i - 1] \in Plurals /\ ~ h[i - 1])
        BY <3>4
      <4> HIDE DEF h, k
      <4> QED
        BY <4>2, <4>3, <4>4
    <3> QED
      BY <3>1, <3>2, <3>3, <3>4
  <2>3. h = k
    BY <2>2
  <2>4. ValuesOf(args, n + 1, h)
    BY <2>3 DEF ValuesOf
  <2> QED
    BY <1>2, <2>4
<1> HIDE DEF G
<1>3. 0..N \subseteq G
  BY <1>1, <1>2, UpToBound
<1> USE DEF G
<1> QED
  BY <1>3

(* An argument is a value if the one before it is a --plural and no value.  *)
LEMMA ValueAfter ==
  ASSUME NEW args \in Seq(Words)
  PROVE  IsValue(args) = [i \in 1..Len(args) |->
            IF i = 1 THEN FALSE ELSE args[i - 1] \in Plurals /\ ~ IsValue(args)[i - 1]]
<1>1. Len(args) \in Nat
  OBVIOUS
<1>2. \E f : ValuesOf(args, Len(args), f)
  BY <1>1, ValuesExist
<1>3. IsValue(args) = CHOOSE f : ValuesOf(args, Len(args), f)
  BY DEF IsValue, ValuesOf
<1>4. ValuesOf(args, Len(args), IsValue(args))
  BY <1>2, <1>3
<1> QED
  BY <1>4 DEF ValuesOf

----------------------------------------------------------------------------
(* One argument.                                                            *)

Scan == [name : Words, minimal : BOOLEAN, wants : BOOLEAN, bad : BOOLEAN,
         plural : Words \union {Inline[a] : a \in DOMAIN Inline}]

LEMMA FreshIsScan == Fresh \in Scan
BY GenAssumption DEF Fresh, Scan

LEMMA TakeIsScan ==
  ASSUME NEW s \in Scan, NEW a \in Words
  PROVE  Take(s, a) \in Scan
BY DEF Take, TakeValue, Scan

(* Flags begin with a dash, and no two kinds of them share one.             *)
LEMMA Kinds ==
  /\ \A a \in Minimals \union Plurals \union DOMAIN Inline : FlagLike(a)
  /\ ~ FlagLike("")
  /\ Minimals \intersect Plurals = {}
  /\ DOMAIN Inline \intersect (Minimals \union Plurals) = {}
<1>1. Minimals \intersect Plurals = {}
  BY DEF Minimals, Plurals
<1> QED
  BY <1>1, GenAssumption DEF FlagLike

(* The loop must stop here: a flag it does not know, or a second word.      *)
WrongAt(args, j) ==
  \/ j \in Unknown(args)
  \/ j \in WordsAt(args) /\ \E n \in NamesAt(args) : n < j

(* What the loop makes of one argument is what the argument means.          *)
LEMMA OneArgument ==
  ASSUME NEW args \in Seq(Words), NEW j \in 1..Len(args), NEW s \in Scan, ~ s.bad,
         s.wants <=> IsValue(args)[j],
         s.name # "" <=> \E n \in NamesAt(args) : n < j
  PROVE  LET t == Take(s, args[j]) IN
         /\ t.bad <=> WrongAt(args, j)
         /\ ~ t.bad =>
              /\ t.wants <=> j \in Own(args) /\ args[j] \in Plurals
              /\ t.name = IF j \in NamesAt(args) THEN args[j] ELSE s.name
              /\ t.minimal <=> s.minimal \/ j \in MinimalAt(args)
              /\ t.plural = IF j \in PluralAt(args) THEN PluralIs(args, j) ELSE s.plural
<1> DEFINE a == args[j]
           t == Take(s, a)
<1>2. /\ j \in Own(args) <=> ~ s.wants
      /\ j \in WordsAt(args) <=> ~ s.wants /\ ~ FlagLike(a)
      /\ j \in NamesAt(args) <=> ~ s.wants /\ ~ FlagLike(a) /\ a # ""
      /\ j \in MinimalAt(args) <=> ~ s.wants /\ a \in Minimals
      /\ j \in PluralAt(args) <=> s.wants \/ a \in DOMAIN Inline
      /\ j \in Unknown(args) <=>
           ~ s.wants /\ FlagLike(a) /\ a \notin Minimals \union Plurals \union DOMAIN Inline
  BY DEF Own, WordsAt, NamesAt, MinimalAt, PluralAt, Unknown
<1>3. PluralIs(args, j) = IF s.wants THEN a ELSE Inline[a]
  BY DEF PluralIs
<1>4. WrongAt(args, j) <=>
        ~ s.wants /\ \/ FlagLike(a) /\ a \notin Minimals \union Plurals \union DOMAIN Inline
                     \/ ~ FlagLike(a) /\ s.name # ""
  BY <1>2 DEF WrongAt
<1> HIDE DEF a
<1>5. CASE s.wants
  <2>1. t = [s EXCEPT !.plural = a, !.wants = FALSE]
    BY <1>5 DEF Take, TakeValue
  <2> QED
    BY <1>2, <1>3, <1>4, <1>5, <2>1 DEF Scan, a
<1>6. CASE ~ s.wants /\ a \in Minimals
  <2>1. t = [s EXCEPT !.minimal = TRUE]
    BY <1>6 DEF Take
  <2> QED
    BY <1>2, <1>3, <1>4, <1>6, <2>1, Kinds DEF Scan, a
<1>7. CASE ~ s.wants /\ a \in Plurals
  <2>1. t = [s EXCEPT !.wants = TRUE]
    BY <1>7, Kinds DEF Take
  <2> QED
    BY <1>2, <1>3, <1>4, <1>7, <2>1, Kinds DEF Scan, a
<1>8. CASE ~ s.wants /\ a \in DOMAIN Inline
  <2>1. t = [s EXCEPT !.plural = Inline[a]]
    BY <1>8, Kinds DEF Take
  <2> QED
    BY <1>2, <1>3, <1>4, <1>8, <2>1, Kinds DEF Scan, a
<1>9. CASE ~ s.wants /\ a \notin Minimals \union Plurals \union DOMAIN Inline /\ (FlagLike(a) \/ s.name # "")
  <2>1. t = [s EXCEPT !.bad = TRUE]
    BY <1>9 DEF Take
  <2>2. WrongAt(args, j) /\ t.bad
    BY <1>4, <1>9, <2>1 DEF Scan
  <2> QED
    BY <2>2 DEF a
<1>10. CASE ~ s.wants /\ ~ FlagLike(a) /\ s.name = ""
  <2>1. t = [s EXCEPT !.name = a]
    BY <1>10, Kinds DEF Take
  <2>2. a \notin Minimals \union Plurals \union DOMAIN Inline
    BY <1>10, Kinds
  <2>3. ~ t.bad /\ ~ WrongAt(args, j) /\ t.wants = s.wants /\ t.minimal = s.minimal
        /\ t.plural = s.plural /\ t.name = a
    BY <1>4, <1>10, <2>1 DEF Scan
  <2> QED
    BY <1>2, <1>10, <2>2, <2>3 DEF a
<1> QED
  BY <1>5, <1>6, <1>7, <1>8, <1>9, <1>10

----------------------------------------------------------------------------
(* The loop.                                                                *)

(* What the loop knows after i arguments is what these mean.                *)
Reads(args, i) ==
  LET s == After(args)[i] IN
  /\ s \in Scan
  /\ s.bad <=> \E j \in 1..i : WrongAt(args, j)
  /\ ~ s.bad =>
       /\ s.wants <=> i \in Own(args) /\ args[i] \in Plurals
       /\ \/ s.name = "" /\ \A n \in NamesAt(args) : n > i
          \/ \E n \in NamesAt(args) :
               n <= i /\ s.name = args[n] /\ \A m \in NamesAt(args) : n <= m
       /\ s.minimal <=> \E j \in MinimalAt(args) : j <= i
       /\ \/ s.plural = "" /\ \A j \in PluralAt(args) : j > i
          \/ \E j \in PluralAt(args) :
               /\ j <= i /\ s.plural = PluralIs(args, j)
               /\ \A k \in PluralAt(args) : k <= i => k <= j

(* All positions are those of arguments.                                    *)
LEMMA Positions ==
  ASSUME NEW args \in Seq(Words)
  PROVE  /\ \A i \in Own(args) : i \in 1..Len(args) /\ i \in Nat /\ i > 0
         /\ \A n \in NamesAt(args) : n \in 1..Len(args) /\ n \in Nat /\ n > 0 /\ args[n] # ""
         /\ \A m \in MinimalAt(args) : m \in 1..Len(args) /\ m \in Nat /\ m > 0
         /\ \A p \in PluralAt(args) : p \in 1..Len(args) /\ p \in Nat /\ p > 0
         /\ 0 \notin Own(args)
<1>1. Len(args) \in Nat
  OBVIOUS
<1>2. \A i \in 1..Len(args) : i \in Nat /\ i > 0
  BY <1>1
<1>3. /\ \A i \in Own(args) : i \in 1..Len(args)
      /\ \A n \in NamesAt(args) : n \in Own(args) /\ args[n] # ""
      /\ \A m \in MinimalAt(args) : m \in Own(args)
      /\ \A p \in PluralAt(args) : p \in 1..Len(args)
  BY DEF Own, WordsAt, NamesAt, MinimalAt, PluralAt
<1>4. 0 \notin 1..Len(args)
  BY <1>1
<1> QED
  BY <1>2, <1>3, <1>4

LEMMA ReadsNothing ==
  ASSUME NEW args \in Seq(Words)
  PROVE  Reads(args, 0)
<1>1. After(args)[0] = Fresh
  <2>1. 0 \in 0..Len(args)
    OBVIOUS
  <2> QED
    BY <2>1, AfterEach
<1>2. 0 \notin Own(args) /\ ~ \E m \in MinimalAt(args) : m <= 0
  <2>1. ASSUME NEW m \in MinimalAt(args) PROVE ~ (m <= 0)
    <3>1. m \in Nat /\ m > 0
      BY Positions
    <3> QED
      BY <3>1
  <2> QED
    BY <2>1, Positions
<1>3. (\A n \in NamesAt(args) : n > 0) /\ (\A p \in PluralAt(args) : p > 0)
  BY Positions
<1>4. /\ Fresh.name = "" /\ Fresh.plural = "" /\ Fresh.minimal = FALSE /\ Fresh.wants = FALSE
      /\ Fresh.bad = FALSE
  BY DEF Fresh
<1>5. ~ \E j \in 1..0 : WrongAt(args, j)
  OBVIOUS
<1> QED
  BY <1>1, <1>2, <1>3, <1>4, <1>5, FreshIsScan DEF Reads

LEMMA ReadsNext ==
  ASSUME NEW args \in Seq(Words), NEW i \in 0..Len(args), i < Len(args), Reads(args, i)
  PROVE  Reads(args, i + 1)
<1> DEFINE s == After(args)[i]
           t == After(args)[i + 1]
           j == i + 1
<1>0. /\ Len(args) \in Nat /\ j \in 1..Len(args) /\ j \in 0..Len(args) /\ j # 0 /\ j - 1 = i
      /\ args[j] \in Words
  OBVIOUS
<1>1. t = Take(s, args[j])
  BY <1>0, AfterEach
<1>2. s \in Scan /\ t \in Scan
  BY <1>0, <1>1, TakeIsScan DEF Reads
<1>3. \A n \in 1..Len(args) : (n <= j <=> n <= i \/ n = j) /\ (n < j <=> n <= i) /\ (n > i <=> ~ (n <= i))
  BY <1>0
<1>4. (\E k \in 1..j : WrongAt(args, k)) <=> (\E k \in 1..i : WrongAt(args, k)) \/ WrongAt(args, j)
  BY <1>0
<1>5. CASE s.bad
  <2>1. t = s
    BY <1>1, <1>5 DEF Take
  <2> HIDE DEF s, t, j
  <2>2. s.bad <=> \E k \in 1..i : WrongAt(args, k)
    BY DEF Reads, s
  <2> QED
    BY <1>2, <1>4, <1>5, <2>1, <2>2 DEF Reads, t, j
<1>6. CASE ~ s.bad
  <2>1. s.wants <=> IsValue(args)[j]
    <3>1. s.wants <=> i \in Own(args) /\ args[i] \in Plurals
      BY <1>6 DEF Reads
    <3>2. /\ j = 1 => IsValue(args)[j] = FALSE
          /\ j # 1 => IsValue(args)[j] = (args[j - 1] \in Plurals /\ ~ IsValue(args)[j - 1])
      <4> HIDE DEF j
      <4> QED
        BY <1>0, ValueAfter
    <3>3. j # 1 => (i \in Own(args) <=> ~ IsValue(args)[i])
      BY <1>0 DEF Own
    <3>4. j = 1 => i \notin Own(args)
      <4>1. 0 \notin Own(args)
        BY Positions
      <4> QED
        BY <4>1
    <3> HIDE DEF s, j
    <3> QED
      BY <1>0, <3>1, <3>2, <3>3, <3>4
  <2>2. s.name # "" <=> \E n \in NamesAt(args) : n < j
    BY <1>3, <1>6, Positions DEF Reads
  <2>3. /\ t.bad <=> WrongAt(args, j)
        /\ ~ t.bad =>
             /\ t.wants <=> j \in Own(args) /\ args[j] \in Plurals
             /\ t.name = IF j \in NamesAt(args) THEN args[j] ELSE s.name
             /\ t.minimal <=> s.minimal \/ j \in MinimalAt(args)
             /\ t.plural = IF j \in PluralAt(args) THEN PluralIs(args, j) ELSE s.plural
    <3> HIDE DEF s, t, j
    <3> QED
      BY <1>0, <1>1, <1>2, <1>6, <2>1, <2>2, OneArgument
  <2>4. /\ ~ (\E k \in 1..i : WrongAt(args, k))
        /\ \/ s.name = "" /\ \A n \in NamesAt(args) : n > i
           \/ \E n \in NamesAt(args) :
                n <= i /\ s.name = args[n] /\ \A m \in NamesAt(args) : n <= m
        /\ s.minimal <=> \E k \in MinimalAt(args) : k <= i
        /\ \/ s.plural = "" /\ \A k \in PluralAt(args) : k > i
           \/ \E p \in PluralAt(args) :
                /\ p <= i /\ s.plural = PluralIs(args, p)
                /\ \A k \in PluralAt(args) : k <= i => k <= p
    BY <1>6 DEF Reads
  <2> HIDE DEF s, t, j
  <2>5. t.bad <=> \E k \in 1..j : WrongAt(args, k)
    BY <1>4, <2>3, <2>4
  <2>6. ~ t.bad => \/ t.name = "" /\ \A n \in NamesAt(args) : n > j
                   \/ \E n \in NamesAt(args) :
                        n <= j /\ t.name = args[n] /\ \A m \in NamesAt(args) : n <= m
    <3> SUFFICES ASSUME ~ t.bad
                 PROVE  \/ t.name = "" /\ \A n \in NamesAt(args) : n > j
                        \/ \E n \in NamesAt(args) :
                             n <= j /\ t.name = args[n] /\ \A m \in NamesAt(args) : n <= m
      OBVIOUS
    <3>1. CASE s.name = ""
      <4>1. \A n \in NamesAt(args) : n > i
        BY <2>4, <3>1, Positions
      <4>2. \A n \in NamesAt(args) : j <= n /\ (n # j => n > j)
        <5>1. ASSUME NEW n \in NamesAt(args) PROVE j <= n /\ (n # j => n > j)
          <6>1. n \in Nat /\ n > i
            BY <4>1, Positions
          <6>2. i \in Nat
            BY <1>0
          <6> QED
            BY <6>1, <6>2 DEF j
        <5> QED
          BY <5>1
      <4>3. j <= j
        BY <1>0
      <4> QED
        BY <2>3, <3>1, <4>2, <4>3
    <3>2. CASE s.name # ""
      <4>1. PICK n \in NamesAt(args) :
              n <= i /\ s.name = args[n] /\ \A m \in NamesAt(args) : n <= m
        BY <2>4, <3>2
      <4>2. j \notin NamesAt(args)
        <5>1. n < j
          BY <1>3, <4>1, Positions
        <5>2. j \in NamesAt(args) => j \in WordsAt(args)
          BY DEF NamesAt
        <5> QED
          BY <2>3, <5>1, <5>2 DEF WrongAt
      <4> QED
        BY <1>3, <2>3, <4>1, <4>2, Positions
    <3> QED
      BY <3>1, <3>2
  <2>7. ~ t.bad => (t.minimal <=> \E k \in MinimalAt(args) : k <= j)
    BY <1>0, <1>3, <2>3, <2>4, Positions
  <2>8. ~ t.bad => \/ t.plural = "" /\ \A k \in PluralAt(args) : k > j
                   \/ \E p \in PluralAt(args) :
                        /\ p <= j /\ t.plural = PluralIs(args, p)
                        /\ \A k \in PluralAt(args) : k <= j => k <= p
    <3>1. CASE j \in PluralAt(args)
      <4>1. j <= j /\ ~ t.bad => t.plural = PluralIs(args, j)
        BY <2>3, <3>1
      <4>2. j <= j
        BY <1>0
      <4> QED
        BY <3>1, <4>1, <4>2
    <3>2. CASE j \notin PluralAt(args)
      <4>1. \A k \in PluralAt(args) : (k <= j <=> k <= i) /\ (k > j <=> k > i)
        <5>1. ASSUME NEW k \in PluralAt(args) PROVE (k <= j <=> k <= i) /\ (k > j <=> k > i)
          <6>1. k \in Nat /\ k # j
            BY <3>2, Positions
          <6>2. i \in Nat
            BY <1>0
          <6> QED
            BY <6>1, <6>2 DEF j
        <5> QED
          BY <5>1
      <4> QED
        BY <2>3, <2>4, <3>2, <4>1
    <3> QED
      BY <3>1, <3>2
  <2> QED
    BY <1>2, <2>3, <2>5, <2>6, <2>7, <2>8 DEF Reads, t, j
<1> QED
  BY <1>5, <1>6

LEMMA AllRead ==
  ASSUME NEW args \in Seq(Words)
  PROVE  Reads(args, Len(args))
<1> DEFINE G == {i \in 0..Len(args) : Reads(args, i)}
<1>1. Len(args) \in Nat /\ 0 \in 0..Len(args) /\ Len(args) \in 0..Len(args)
  OBVIOUS
<1>2. 0 \in G
  BY <1>1, ReadsNothing
<1>3. ASSUME NEW i \in 0..Len(args), i < Len(args), i \in G PROVE i + 1 \in G
  <2>1. i + 1 \in 0..Len(args)
    BY <1>1, <1>3
  <2>2. Reads(args, i + 1)
    BY <1>3, ReadsNext
  <2> QED
    BY <2>1, <2>2
<1> HIDE DEF G
<1>4. 0..Len(args) \subseteq G
  BY <1>1, <1>2, <1>3, UpToBound
<1>5. Len(args) \in G
  BY <1>1, <1>4
<1> QED
  BY <1>5 DEF G

----------------------------------------------------------------------------
(* The whole list.                                                          *)

LEMMA EarliestIs ==
  ASSUME NEW S \in SUBSET Nat, NEW n \in S, \A j \in S : n <= j
  PROVE  Earliest(S) = n
<1>1. ASSUME NEW i \in S, \A j \in S : i <= j PROVE i = n
  <2>1. i \in Nat /\ n \in Nat /\ i <= n /\ n <= i
    BY <1>1
  <2> QED
    BY <2>1
<1>2. \E i \in S : \A j \in S : i <= j
  OBVIOUS
<1> QED
  BY <1>1, <1>2 DEF Earliest

LEMMA LatestIs ==
  ASSUME NEW S \in SUBSET Nat, NEW n \in S, \A j \in S : j <= n
  PROVE  Latest(S) = n
<1>1. ASSUME NEW i \in S, \A j \in S : j <= i PROVE i = n
  <2>1. i \in Nat /\ n \in Nat /\ i <= n /\ n <= i
    BY <1>1
  <2> QED
    BY <2>1
<1>2. \E i \in S : \A j \in S : j <= i
  OBVIOUS
<1> QED
  BY <1>1, <1>2 DEF Latest

(* The loop stops with an error where the meaning of the list is an error.  *)
LEMMA WrongMeans ==
  ASSUME NEW args \in Seq(Words)
  PROVE  (\E j \in 1..Len(args) : WrongAt(args, j))
           <=> \/ Unknown(args) # {}
               \/ NamesAt(args) # {} /\ \E j \in WordsAt(args) : j > Earliest(NamesAt(args))
<1>1. Len(args) \in Nat
  OBVIOUS
<1>2. /\ Unknown(args) \subseteq 1..Len(args) /\ WordsAt(args) \subseteq 1..Len(args)
      /\ NamesAt(args) \subseteq 1..Len(args)
  BY DEF Unknown, NamesAt, WordsAt, Own
<1>3. CASE NamesAt(args) = {}
  BY <1>2, <1>3 DEF WrongAt
<1>4. CASE NamesAt(args) # {}
  <2> DEFINE n == Earliest(NamesAt(args))
  <2>1. 1..Len(args) \subseteq Nat
    BY <1>1
  <2>2. NamesAt(args) \in SUBSET Nat
    BY <1>2, <2>1
  <2>3. PICK e \in NamesAt(args) : \A m \in NamesAt(args) : e <= m
    BY <1>4, <2>2, LeastOf
  <2>4. n = e
    BY <2>2, <2>3, EarliestIs
  <2> HIDE DEF n
  <2>5. \A j \in WordsAt(args) : j > n <=> \E m \in NamesAt(args) : m < j
    <3>1. ASSUME NEW j \in WordsAt(args) PROVE j > n <=> \E m \in NamesAt(args) : m < j
      <4>1. j \in Nat /\ n \in Nat /\ n \in NamesAt(args)
        BY <1>2, <2>1, <2>2, <2>3, <2>4
      <4>2. ASSUME NEW m \in NamesAt(args), m < j PROVE j > n
        <5>1. m \in Nat /\ n <= m
          BY <2>2, <2>3, <2>4
        <5> QED
          BY <4>1, <4>2, <5>1
      <4>3. j > n => n < j
        BY <4>1
      <4> QED
        BY <4>1, <4>2, <4>3
    <3> QED
      BY <3>1
  <2> QED
    BY <1>2, <1>4, <2>5 DEF WrongAt, n
<1> QED
  BY <1>3, <1>4

(* "callers can write either order" (main.go:52-55): from every list of     *)
(* arguments, however long, the loop reads what the list means.             *)
THEOREM ArgumentsMean ==
  ASSUME NEW args \in Seq(Words)
  PROVE  Options(args) = Meaning(args)
<1> DEFINE s == Scanned(args)
           N == Len(args)
           n == Earliest(NamesAt(args))
           Stops == \/ Unknown(args) # {}
                    \/ NamesAt(args) # {} /\ \E j \in WordsAt(args) : j > n
<1>1. N \in Nat /\ s = After(args)[N]
  BY DEF Scanned
<1>2. s.bad <=> Stops
  <2>1. s.bad <=> \E j \in 1..N : WrongAt(args, j)
    BY <1>1, AllRead DEF Reads
  <2> QED
    BY <2>1, WrongMeans
<1>3. /\ NamesAt(args) \in SUBSET Nat /\ MinimalAt(args) \in SUBSET Nat
      /\ PluralAt(args) \in SUBSET Nat
  BY Positions
<1>4. /\ \A k \in NamesAt(args) : k <= N
      /\ \A k \in MinimalAt(args) : k <= N
      /\ \A k \in PluralAt(args) : k <= N
  <2>1. \A k \in 1..N : k <= N /\ k \in Nat
    BY <1>1
  <2> QED
    BY <2>1, Positions
<1>5. ~ s.bad =>
        /\ s.wants <=> Dangling(args)
        /\ s.name = "" <=> NamesAt(args) = {}
        /\ NamesAt(args) # {} => s.name = args[n]
        /\ s.minimal <=> MinimalAt(args) # {}
        /\ s.plural = IF PluralAt(args) = {} THEN "" ELSE PluralIs(args, Latest(PluralAt(args)))
  <2> SUFFICES ASSUME ~ s.bad
               PROVE  /\ s.wants <=> Dangling(args)
                      /\ s.name = "" <=> NamesAt(args) = {}
                      /\ NamesAt(args) # {} => s.name = args[n]
                      /\ s.minimal <=> MinimalAt(args) # {}
                      /\ s.plural = IF PluralAt(args) = {} THEN ""
                                    ELSE PluralIs(args, Latest(PluralAt(args)))
    OBVIOUS
  <2>1. /\ s.wants <=> N \in Own(args) /\ args[N] \in Plurals
        /\ \/ s.name = "" /\ \A k \in NamesAt(args) : k > N
           \/ \E k \in NamesAt(args) :
                k <= N /\ s.name = args[k] /\ \A m \in NamesAt(args) : k <= m
        /\ s.minimal <=> \E j \in MinimalAt(args) : j <= N
        /\ \/ s.plural = "" /\ \A j \in PluralAt(args) : j > N
           \/ \E j \in PluralAt(args) :
                /\ j <= N /\ s.plural = PluralIs(args, j)
                /\ \A k \in PluralAt(args) : k <= N => k <= j
    BY <1>1, AllRead DEF Reads
  <2> HIDE DEF s
  <2>2. \A k \in Nat : k <= N => ~ (k > N)
    BY <1>1
  <2>3. s.wants <=> Dangling(args)
    BY <2>1 DEF Dangling
  <2>4. s.minimal <=> MinimalAt(args) # {}
    BY <1>4, <2>1
  <2>5. (s.name = "" <=> NamesAt(args) = {}) /\ (NamesAt(args) # {} => s.name = args[n])
    <3>1. CASE NamesAt(args) = {}
      BY <2>1, <3>1
    <3>2. CASE NamesAt(args) # {}
      <4>1. ~ \A k \in NamesAt(args) : k > N
        BY <1>3, <1>4, <2>2, <3>2
      <4>2. PICK k \in NamesAt(args) : s.name = args[k] /\ \A m \in NamesAt(args) : k <= m
        BY <2>1, <4>1
      <4>3. n = k
        BY <1>3, <4>2, EarliestIs
      <4> HIDE DEF n
      <4> QED
        BY <3>2, <4>2, <4>3, Positions
    <3> QED
      BY <3>1, <3>2
  <2>6. s.plural = IF PluralAt(args) = {} THEN "" ELSE PluralIs(args, Latest(PluralAt(args)))
    <3>1. CASE PluralAt(args) = {}
      BY <2>1, <3>1
    <3>2. CASE PluralAt(args) # {}
      <4>1. ~ \A k \in PluralAt(args) : k > N
        BY <1>3, <1>4, <2>2, <3>2
      <4>2. PICK k \in PluralAt(args) :
              s.plural = PluralIs(args, k) /\ \A m \in PluralAt(args) : m <= k
        BY <1>4, <2>1, <4>1
      <4>3. Latest(PluralAt(args)) = k
        BY <1>3, <4>2, LatestIs
      <4> QED
        BY <3>2, <4>2, <4>3
    <3> QED
      BY <3>1, <3>2
  <2> QED
    BY <2>3, <2>4, <2>5, <2>6
<1>6. Options(args) =
        IF s.bad \/ s.wants \/ s.name = "" THEN Rejected
        ELSE IF ~ ValidName(s.name) THEN Rejected
        ELSE [name |-> s.name, flavor |-> IF s.minimal THEN "minimal" ELSE "full", plural |-> s.plural]
  BY DEF Options
<1>7. Meaning(args) =
        IF \/ Unknown(args) # {} \/ Dangling(args) \/ NamesAt(args) = {}
           \/ (\E j \in WordsAt(args) : j > n) \/ ~ ValidName(args[n])
          THEN Rejected
          ELSE [name |-> args[n],
                flavor |-> IF MinimalAt(args) = {} THEN "full" ELSE "minimal",
                plural |-> IF PluralAt(args) = {} THEN ""
                           ELSE PluralIs(args, Latest(PluralAt(args)))]
  BY DEF Meaning
<1> HIDE DEF s, n
<1>8. CASE s.bad
  BY <1>2, <1>6, <1>7, <1>8
<1>9. CASE ~ s.bad /\ (s.wants \/ s.name = "")
  BY <1>5, <1>6, <1>7, <1>9
<1>10. CASE ~ s.bad /\ ~ s.wants /\ s.name # ""
  <2>1. s.name = args[n] /\ ~ Dangling(args) /\ NamesAt(args) # {}
    BY <1>5, <1>10
  <2>2. Unknown(args) = {} /\ ~ \E j \in WordsAt(args) : j > n
    BY <1>2, <1>10, <2>1
  <2>3. (s.minimal <=> MinimalAt(args) # {})
        /\ s.plural = IF PluralAt(args) = {} THEN "" ELSE PluralIs(args, Latest(PluralAt(args)))
    BY <1>5, <1>10
  <2>4. (IF s.minimal THEN "minimal" ELSE "full")
          = (IF MinimalAt(args) = {} THEN "full" ELSE "minimal")
    BY <2>3
  <2>5. CASE ~ ValidName(args[n])
    <3>1. Meaning(args) = Rejected
      BY <1>7, <2>5
    <3>2. Options(args) = Rejected
      BY <1>6, <1>10, <2>1, <2>5
    <3> QED
      BY <3>1, <3>2
  <2>6. CASE ValidName(args[n])
    <3>1. Meaning(args) = [name |-> args[n],
                           flavor |-> IF MinimalAt(args) = {} THEN "full" ELSE "minimal",
                           plural |-> IF PluralAt(args) = {} THEN ""
                                      ELSE PluralIs(args, Latest(PluralAt(args)))]
      BY <1>7, <2>1, <2>2, <2>6
    <3>2. Options(args) = [name |-> s.name,
                           flavor |-> IF s.minimal THEN "minimal" ELSE "full",
                           plural |-> s.plural]
      BY <1>6, <1>10, <2>1, <2>6
    <3>3. s.plural = IF PluralAt(args) = {} THEN "" ELSE PluralIs(args, Latest(PluralAt(args)))
      BY <2>3
    <3>4. s.name = args[n]
      BY <2>1
    <3> DEFINE full == IF MinimalAt(args) = {} THEN "full" ELSE "minimal"
               small == IF s.minimal THEN "minimal" ELSE "full"
               last == IF PluralAt(args) = {} THEN "" ELSE PluralIs(args, Latest(PluralAt(args)))
    <3>5. /\ Meaning(args) = [name |-> args[n], flavor |-> full, plural |-> last]
          /\ Options(args) = [name |-> s.name, flavor |-> small, plural |-> s.plural]
          /\ full = small /\ s.plural = last
      BY <2>4, <3>1, <3>2, <3>3
    <3> HIDE DEF full, small, last
    <3> QED
      BY <3>4, <3>5
  <2> QED
    BY <2>5, <2>6
<1> QED
  BY <1>8, <1>9, <1>10

(* ... in every state of the system.                                        *)
THEOREM MeaningThroughout == Spec => []OptionsMean
<1>1. OptionsMean
  BY ArgumentsMean, GenAssumption DEF OptionsMean
<1> QED
  BY <1>1, PTL

----------------------------------------------------------------------------
(* Order.                                                                   *)

(* A set of naturals with a bound that is not empty has a greatest element. *)
LEMMA GreatestOf ==
  ASSUME NEW N \in Nat, NEW T \in SUBSET (0..N), T # {}
  PROVE  \E n \in T : \A m \in T : m <= n
<1> DEFINE U == {N - m : m \in T}
<1>1. U \in SUBSET Nat /\ U # {}
  <2>1. ASSUME NEW m \in T PROVE N - m \in Nat
    <3>1. m \in 0..N
      OBVIOUS
    <3> QED
      BY <3>1
  <2> QED
    BY <2>1
<1> HIDE DEF U
<1>2. PICK u \in U : \A v \in U : u <= v
  BY <1>1, LeastOf
<1> USE DEF U
<1>3. PICK n \in T : u = N - n
  OBVIOUS
<1>4. ASSUME NEW m \in T PROVE m <= n
  <2>1. N - n <= N - m
    BY <1>2, <1>3
  <2>2. m \in 0..N /\ n \in 0..N
    OBVIOUS
  <2> QED
    BY <2>1, <2>2
<1> QED
  BY <1>4

(* Neither a bare --plural, which belongs to the argument after it, nor an  *)
(* empty argument, which may come before the name but not after it.         *)
Plain(args) == \A i \in 1..Len(args) : args[i] \notin Plurals \union {""}

LEMMA PlainParts ==
  ASSUME NEW args \in Seq(Words), Plain(args)
  PROVE  LET all == 1..Len(args) IN
         /\ ~ Dangling(args)
         /\ WordsAt(args) = {i \in all : ~ FlagLike(args[i])}
         /\ NamesAt(args) = WordsAt(args)
         /\ Unknown(args) = {i \in all : FlagLike(args[i])
                               /\ args[i] \notin Minimals \union Plurals \union DOMAIN Inline}
         /\ MinimalAt(args) = {i \in all : args[i] \in Minimals}
         /\ PluralAt(args) = {i \in all : args[i] \in DOMAIN Inline}
         /\ \A i \in all : PluralIs(args, i) = Inline[args[i]]
<1>0. Len(args) \in Nat
  OBVIOUS
<1>1. \A i \in 1..Len(args) : ~ IsValue(args)[i]
  <2> SUFFICES ASSUME NEW i \in 1..Len(args) PROVE ~ IsValue(args)[i]
    OBVIOUS
  <2>1. CASE i = 1
    BY <2>1, ValueAfter
  <2>2. CASE i # 1
    <3>1. i - 1 \in 1..Len(args)
      BY <1>0, <2>2
    <3>2. args[i - 1] \notin Plurals
      BY <3>1 DEF Plain
    <3>3. IsValue(args)[i] = (args[i - 1] \in Plurals /\ ~ IsValue(args)[i - 1])
      BY <2>2, ValueAfter
    <3> QED
      BY <3>2, <3>3
  <2> QED
    BY <2>1, <2>2
<1>2. Own(args) = 1..Len(args)
  BY <1>1 DEF Own
<1>3. ~ Dangling(args)
  BY <1>2 DEF Dangling, Plain
<1>4. /\ WordsAt(args) = {i \in 1..Len(args) : ~ FlagLike(args[i])}
      /\ MinimalAt(args) = {i \in 1..Len(args) : args[i] \in Minimals}
      /\ Unknown(args) = {i \in 1..Len(args) : FlagLike(args[i])
                            /\ args[i] \notin Minimals \union Plurals \union DOMAIN Inline}
  BY <1>2 DEF WordsAt, MinimalAt, Unknown
<1>5. NamesAt(args) = WordsAt(args)
  BY <1>4 DEF NamesAt, Plain
<1>6. PluralAt(args) = {i \in 1..Len(args) : args[i] \in DOMAIN Inline}
  BY <1>1 DEF PluralAt
<1>7. \A i \in 1..Len(args) : PluralIs(args, i) = Inline[args[i]]
  BY <1>1 DEF PluralIs
<1> QED
  BY <1>3, <1>4, <1>5, <1>6, <1>7

(* Its --plural=values do not contradict each other.                        *)
Agreed(args) ==
  \A i, j \in 1..Len(args) :
    args[i] \in DOMAIN Inline /\ args[j] \in DOMAIN Inline => Inline[args[i]] = Inline[args[j]]

(* It has an unknown flag, or not exactly one word.                         *)
Malformed(args) ==
  LET all == 1..Len(args) IN
  \/ \E i \in all : FlagLike(args[i]) /\ args[i] \notin Minimals \union Plurals \union DOMAIN Inline
  \/ \A i \in all : FlagLike(args[i])
  \/ \E i, j \in all : i # j /\ ~ FlagLike(args[i]) /\ ~ FlagLike(args[j])

FlavorIn(args) == IF \E i \in 1..Len(args) : args[i] \in Minimals THEN "minimal" ELSE "full"

PluralIn(args) ==
  IF \E i \in 1..Len(args) : args[i] \in DOMAIN Inline
    THEN Inline[args[CHOOSE i \in 1..Len(args) : args[i] \in DOMAIN Inline]]
    ELSE ""

(* What a plain list means does not mention an order.                       *)
LEMMA PlainMeans ==
  ASSUME NEW args \in Seq(Words), Plain(args), Agreed(args)
  PROVE  /\ Malformed(args) => Meaning(args) = Rejected
         /\ \A w \in 1..Len(args) : ~ Malformed(args) /\ ~ FlagLike(args[w]) => Meaning(args) =
              IF ~ ValidName(args[w]) THEN Rejected
              ELSE [name |-> args[w], flavor |-> FlavorIn(args), plural |-> PluralIn(args)]
<1> DEFINE all == 1..Len(args)
           word(i) == ~ FlagLike(args[i])
           odd == \E i \in all : FlagLike(args[i])
                    /\ args[i] \notin Minimals \union Plurals \union DOMAIN Inline
           two == \E i, j \in all : i # j /\ word(i) /\ word(j)
           n == Earliest(NamesAt(args))
<1>0. Len(args) \in Nat /\ all \subseteq Nat /\ all \subseteq 0..Len(args)
  OBVIOUS
<1>1. /\ ~ Dangling(args) /\ WordsAt(args) = {i \in all : word(i)} /\ NamesAt(args) = WordsAt(args)
      /\ Unknown(args) # {} <=> odd
  BY PlainParts
<1>2. NamesAt(args) = {} <=> \A i \in all : ~ word(i)
  BY <1>1
<1>3. ASSUME NEW w \in all, word(w) PROVE n \in all /\ word(n) /\ (~ two => n = w)
                                          /\ (two <=> \E j \in WordsAt(args) : j > n)
  <2>1. NamesAt(args) \in SUBSET Nat /\ w \in NamesAt(args)
    BY <1>0, <1>1, <1>3
  <2>2. PICK e \in NamesAt(args) : \A m \in NamesAt(args) : e <= m
    BY <2>1, LeastOf
  <2>3. n = e
    BY <2>1, <2>2, EarliestIs
  <2> HIDE DEF n
  <2>4. n \in all /\ word(n) /\ (~ two => n = w)
    BY <1>1, <1>3, <2>2, <2>3
  <2>5. ASSUME NEW j \in WordsAt(args), j > n PROVE two
    <3>1. j \in Nat /\ n \in Nat /\ j # n
      BY <1>0, <1>1, <2>4, <2>5
    <3> QED
      BY <1>1, <2>4, <3>1
  <2>6. ASSUME two PROVE \E j \in WordsAt(args) : j > n
    <3>1. PICK j \in WordsAt(args) : j # n
      BY <1>1, <2>6
    <3>2. j \in Nat /\ n \in Nat /\ n <= j
      BY <1>0, <1>1, <2>2, <2>3, <2>4
    <3> QED
      BY <3>1, <3>2
  <2> QED
    BY <2>4, <2>5, <2>6
<1>4. (IF MinimalAt(args) = {} THEN "full" ELSE "minimal") = FlavorIn(args)
  <2>1. MinimalAt(args) = {i \in all : args[i] \in Minimals}
    BY PlainParts
  <2> QED
    BY <2>1 DEF FlavorIn
<1>5. (IF PluralAt(args) = {} THEN "" ELSE PluralIs(args, Latest(PluralAt(args)))) = PluralIn(args)
  <2>1. PluralAt(args) = {i \in all : args[i] \in DOMAIN Inline}
    BY PlainParts
  <2>2. CASE PluralAt(args) = {}
    BY <2>1, <2>2 DEF PluralIn
  <2>3. CASE PluralAt(args) # {}
    <3> DEFINE c == CHOOSE i \in all : args[i] \in DOMAIN Inline
    <3>1. \E i \in all : args[i] \in DOMAIN Inline
      BY <2>1, <2>3
    <3>2. c \in all /\ args[c] \in DOMAIN Inline
      BY <3>1
    <3>3. PluralAt(args) \in SUBSET (0..Len(args)) /\ PluralAt(args) \in SUBSET Nat
      BY <1>0, <2>1
    <3>4. PICK p \in PluralAt(args) : \A m \in PluralAt(args) : m <= p
      BY <1>0, <2>3, <3>3, GreatestOf
    <3>5. Latest(PluralAt(args)) = p
      BY <3>3, <3>4, LatestIs
    <3>6. p \in all /\ args[p] \in DOMAIN Inline
      BY <2>1
    <3>7. PluralIs(args, p) = Inline[args[p]]
      BY <3>6, PlainParts
    <3> HIDE DEF c
    <3>8. Inline[args[p]] = Inline[args[c]]
      BY <3>2, <3>6 DEF Agreed
    <3> QED
      BY <2>3, <3>1, <3>5, <3>7, <3>8 DEF c, PluralIn
  <2> QED
    BY <2>2, <2>3
<1> DEFINE first == IF MinimalAt(args) = {} THEN "full" ELSE "minimal"
           last == IF PluralAt(args) = {} THEN "" ELSE PluralIs(args, Latest(PluralAt(args)))
<1>6. Meaning(args) =
        IF \/ Unknown(args) # {} \/ Dangling(args) \/ NamesAt(args) = {}
           \/ (\E j \in WordsAt(args) : j > n) \/ ~ ValidName(args[n])
          THEN Rejected
          ELSE [name |-> args[n], flavor |-> first, plural |-> last]
  BY DEF Meaning
<1>7. first = FlavorIn(args) /\ last = PluralIn(args)
  BY <1>4, <1>5
<1>8. ASSUME odd \/ (\A i \in all : ~ word(i)) \/ two PROVE Meaning(args) = Rejected
  <2>1. CASE odd \/ \A i \in all : ~ word(i)
    BY <1>1, <1>2, <1>6, <2>1
  <2>2. CASE two
    <3>1. PICK w \in all : word(w)
      BY <2>2
    <3> HIDE DEF n, first, last, two, word, all
    <3>2. \E j \in WordsAt(args) : j > n
      BY <1>3, <2>2, <3>1
    <3> QED
      BY <1>6, <3>2
  <2> QED
    BY <1>8, <2>1, <2>2
<1>9. ASSUME ~ odd, ~ two, NEW w \in all, word(w)
      PROVE  Meaning(args) = IF ~ ValidName(args[w]) THEN Rejected
                             ELSE [name |-> args[w], flavor |-> FlavorIn(args),
                                   plural |-> PluralIn(args)]
  <2>1. n = w /\ ~ \E j \in WordsAt(args) : j > n
    BY <1>3, <1>9
  <2>2. Unknown(args) = {} /\ ~ Dangling(args) /\ NamesAt(args) # {}
    BY <1>1, <1>2, <1>9
  <2> HIDE DEF n, first, last, all, word
  <2> QED
    BY <1>6, <1>7, <2>1, <2>2
<1>10. Malformed(args) <=> odd \/ (\A i \in all : ~ word(i)) \/ two
  BY DEF Malformed
<1> HIDE DEF odd, two
<1> QED
  BY <1>8, <1>9, <1>10

(* "so callers can write either order" (main.go:52-54): a list that is put  *)
(* in any other order is read as before, if it is plain and its             *)
(* --plural=values do not contradict each other.  Where they do, the last   *)
(* one counts, and order matters.                                           *)
THEOREM EitherOrder ==
  ASSUME NEW a \in Seq(Words), NEW b \in Seq(Words), Plain(a), Agreed(a),
         NEW f \in [1..Len(b) -> 1..Len(a)],
         \A i, j \in 1..Len(b) : f[i] = f[j] => i = j,
         \A k \in 1..Len(a) : \E i \in 1..Len(b) : f[i] = k,
         \A i \in 1..Len(b) : b[i] = a[f[i]]
  PROVE  Options(a) = Options(b)
<1> DEFINE A == 1..Len(a)
           B == 1..Len(b)
           Known == Minimals \union Plurals \union DOMAIN Inline
<1>1. \A i \in B : f[i] \in A /\ b[i] = a[f[i]]
  OBVIOUS
<1>2. \A k \in A : \E i \in B : b[i] = a[k] /\ f[i] = k
  BY <1>1
<1>3. Plain(b)
  BY <1>1 DEF Plain
<1>4. Agreed(b)
  <2> SUFFICES ASSUME NEW i \in B, NEW j \in B, b[i] \in DOMAIN Inline, b[j] \in DOMAIN Inline
               PROVE  Inline[b[i]] = Inline[b[j]]
    BY DEF Agreed
  <2>1. f[i] \in A /\ f[j] \in A /\ b[i] = a[f[i]] /\ b[j] = a[f[j]]
    BY <1>1
  <2>2. \A k, l \in A : a[k] \in DOMAIN Inline /\ a[l] \in DOMAIN Inline
                         => Inline[a[k]] = Inline[a[l]]
    BY DEF Agreed
  <2> HIDE DEF A, B
  <2>3. a[f[i]] \in DOMAIN Inline /\ a[f[j]] \in DOMAIN Inline
    BY <2>1
  <2>4. Inline[a[f[i]]] = Inline[a[f[j]]]
    BY <2>1, <2>2, <2>3
  <2> QED
    BY <2>1, <2>4
<1>5. Malformed(a) <=> Malformed(b)
  <2> HIDE DEF A, B, Known
  <2>1. (\E i \in A : FlagLike(a[i]) /\ a[i] \notin Known)
          <=> (\E i \in B : FlagLike(b[i]) /\ b[i] \notin Known)
    BY <1>1, <1>2
  <2>2. (\A i \in A : FlagLike(a[i])) <=> (\A i \in B : FlagLike(b[i]))
    BY <1>1, <1>2
  <2>3. (\E i, j \in A : i # j /\ ~ FlagLike(a[i]) /\ ~ FlagLike(a[j]))
          => (\E i, j \in B : i # j /\ ~ FlagLike(b[i]) /\ ~ FlagLike(b[j]))
    BY <1>2
  <2>4. ASSUME NEW i \in B, NEW j \in B, i # j, ~ FlagLike(b[i]), ~ FlagLike(b[j])
        PROVE  \E k, l \in A : k # l /\ ~ FlagLike(a[k]) /\ ~ FlagLike(a[l])
    <3>1. f[i] \in A /\ f[j] \in A /\ b[i] = a[f[i]] /\ b[j] = a[f[j]]
      BY <1>1
    <3>2. f[i] # f[j]
      BY <2>4 DEF B
    <3> QED
      BY <2>4, <3>1, <3>2
  <2> QED
    BY <2>1, <2>2, <2>3, <2>4 DEF Malformed, A, B, Known
<1>6. FlavorIn(a) = FlavorIn(b)
  <2>1. (\E i \in A : a[i] \in Minimals) <=> (\E i \in B : b[i] \in Minimals)
    BY <1>1, <1>2
  <2> QED
    BY <2>1 DEF FlavorIn
<1>7. PluralIn(a) = PluralIn(b)
  <2> DEFINE c == CHOOSE i \in A : a[i] \in DOMAIN Inline
             d == CHOOSE i \in B : b[i] \in DOMAIN Inline
  <2>1. (\E i \in A : a[i] \in DOMAIN Inline) <=> (\E i \in B : b[i] \in DOMAIN Inline)
    BY <1>1, <1>2
  <2>2. CASE \E i \in B : b[i] \in DOMAIN Inline
    <3>1. c \in A /\ a[c] \in DOMAIN Inline
      BY <2>1, <2>2
    <3>2. d \in B /\ b[d] \in DOMAIN Inline
      BY <2>2
    <3> HIDE DEF c, d
    <3>3. f[d] \in A /\ b[d] = a[f[d]]
      BY <1>1, <3>2
    <3>4. Inline[a[c]] = Inline[b[d]]
      BY <3>1, <3>2, <3>3 DEF Agreed
    <3> QED
      BY <2>1, <2>2, <3>4 DEF PluralIn, c, d
  <2>3. CASE ~ \E i \in B : b[i] \in DOMAIN Inline
    BY <2>1, <2>3 DEF PluralIn
  <2> QED
    BY <2>2, <2>3
<1>8. Meaning(a) = Meaning(b)
  <2>1. CASE Malformed(a)
    BY <1>3, <1>4, <1>5, <2>1, PlainMeans
  <2>2. CASE ~ Malformed(a)
    <3>1. PICK w \in A : ~ FlagLike(a[w])
      BY <2>2 DEF Malformed
    <3>2. PICK v \in B : b[v] = a[w]
      BY <1>2
    <3>3. Meaning(a) = IF ~ ValidName(a[w]) THEN Rejected
                       ELSE [name |-> a[w], flavor |-> FlavorIn(a), plural |-> PluralIn(a)]
      BY <2>2, <3>1, PlainMeans
    <3>4. Meaning(b) = IF ~ ValidName(b[v]) THEN Rejected
                       ELSE [name |-> b[v], flavor |-> FlavorIn(b), plural |-> PluralIn(b)]
      BY <1>3, <1>4, <1>5, <2>2, <3>1, <3>2, PlainMeans
    <3> QED
      BY <1>6, <1>7, <3>2, <3>3, <3>4
  <2> QED
    BY <2>1, <2>2
<1> QED
  BY <1>8, ArgumentsMean

----------------------------------------------------------------------------
(* Types.                                                                   *)

LEMMA OutcomeTyped ==
  ASSUME NEW o \in Outcomes
  PROVE  o \in [name : Words, flavor : Flavors]
<1>1. PICK args \in ArgLists : o = Scaffold(Options(args))
  BY DEF Outcomes
<1>2. args \in Seq(Words)
  BY GenAssumption
<1> DEFINE s == Scanned(args)
<1>3. s \in Scan
  BY <1>2, AllRead DEF Reads, Scanned
<1>4. o.name = "" \/ o.name = s.name
  BY <1>1 DEF Options, Scaffold, Rejected
<1> HIDE DEF s
<1>5. o.name \in Words
  BY <1>3, <1>4, GenAssumption DEF Scan
<1> QED
  BY <1>1, <1>5, OutcomeHasTree DEF Scaffold

(* What a step does to the files is to write one of the module's tree.      *)
LEMMA FilesTyped ==
  ASSUME TypeOK, GenInv, NEW p \in Runs, Step(p)
  PROVE  files' \subseteq File
<1>1. CASE files' = files
  BY <1>1 DEF TypeOK
<1>2. CASE pc[p] = "write" /\ \E whole \in BOOLEAN : Put(p, whole)
  <2>1. PICK whole \in BOOLEAN : Put(p, whole)
    BY <1>2
  <2>2. next[p] \in 1..Len(TreeOf(p)) /\ TreeOf(p) \in Seq(STRING)
    BY <1>2, GenAssumption DEF GenInv, Shape, Progress, Building, TreeOf
  <2>3. TreeOf(p)[next[p]] \in STRING
    BY <2>2
  <2>4. ModuleOf(p) \in Words
    BY DEF TypeOK, ModuleOf
  <2> DEFINE f == [module |-> ModuleOf(p), path |-> TreeOf(p)[next[p]], by |-> p, whole |-> whole]
  <2>5. f \in File
    BY <2>3, <2>4 DEF File
  <2>6. files' \subseteq files \union {f}
    BY <2>1 DEF Put
  <2> QED
    BY <2>5, <2>6 DEF TypeOK
<1> QED
  BY <1>1, <1>2, FilesOfStep

(* A directory is made for a name that validateName allows.                 *)
LEMMA DirsTyped ==
  ASSUME TypeOK, GenInv, NEW p \in Runs, Step(p)
  PROVE  /\ dirs' \subseteq Words
         /\ \A n \in dirs' : \A i \in 1..Len(Spelling[n]) :
              Spelling[n][i] \in {"lower", "digit", "wide digit", "underscore"}
<1>1. CASE Mkdir(p) \/ MkdirFails(p)
  <2>1. ModuleOf(p) \in Words
    BY DEF TypeOK, ModuleOf
  <2>2. ValidName(ModuleOf(p)) /\ dirs' \subseteq dirs \union {ModuleOf(p)}
    BY <1>1 DEF Mkdir, MkdirFails, GenInv, Named
  <2> QED
    BY <2>1, <2>2 DEF TypeOK, ValidName
<1>2. CASE ~ (Mkdir(p) \/ MkdirFails(p))
  BY <1>2 DEF TypeOK, Step, Begin, Stat, Write, WriteFails, Crash
<1> QED
  BY <1>1, <1>2

LEMMA StepTyped ==
  ASSUME TypeOK, GenInv, NEW p \in Runs, Step(p)
  PROVE  TypeOK'
<1>1. opts' \in [Runs -> [name : Words, flavor : Flavors]]
  <2>1. CASE Begin(p)
    <3>1. PICK o \in Outcomes : opts' = [opts EXCEPT ![p] = o]
      BY <2>1 DEF Begin
    <3> QED
      BY <3>1, OutcomeTyped DEF TypeOK
  <2>2. CASE ~ Begin(p)
    BY <2>2 DEF TypeOK, Step, Stat, Mkdir, Write, WriteFails, MkdirFails, Crash
  <2> QED
    BY <2>1, <2>2
<1> QED
  BY <1>1, ShapeKept, FilesTyped, DirsTyped DEF TypeOK, Shape

(* Every run works with a name and a flavor that exist, and every directory *)
(* that is ever made has a name of lower-case letters, digits and           *)
(* underscores, whatever the arguments were (main.go:126).                  *)
THEOREM Typing == Spec => []TypeOK
<1>1. Init => TypeOK
  <2>1. "" \in Words
    BY GenAssumption
  <2>2. Scaffold(Rejected) \in [name : Words, flavor : Flavors]
    BY <2>1 DEF Scaffold, Rejected, Flavors
  <2>3. ASSUME Init PROVE /\ pc \in [Runs -> Labels] /\ next \in [Runs -> Nat]
                          /\ opts \in [Runs -> [name : Words, flavor : Flavors]]
    BY <2>2, <2>3 DEF Init, Labels
  <2>4. ASSUME Init PROVE before \in [Runs -> SUBSET Runs]
    BY <2>4 DEF Init
  <2>5. ASSUME Init PROVE dirs = {} /\ files = {}
    BY <2>5 DEF Init
  <2> QED
    BY <2>3, <2>4, <2>5 DEF TypeOK
<1>2. TypeOK /\ GenInv /\ [Next]_vars => TypeOK'
  <2>1. ASSUME TypeOK, GenInv, NEW p \in Runs, Step(p) PROVE TypeOK'
    BY <2>1, StepTyped
  <2>2. ASSUME TypeOK, UNCHANGED vars PROVE TypeOK'
    BY <2>2 DEF TypeOK, vars
  <2> QED
    BY <2>1, <2>2 DEF Next, Step, AllOver
<1> QED
  BY <1>1, <1>2, GenInvariant, PTL DEF Spec
====
