---- MODULE StorageProofs ----
(***************************************************************************)
(* The last write wins, and every torn download has an explanation: proved *)
(* of every provider, for any number of calls, keys and chunks, and with   *)
(* every fault.                                                            *)
(***************************************************************************)
EXTENDS Storage, TLAPS

Unended == {"idle", "called", "copying"}

(* A file's content is a sequence of chunks.                                *)
LEMMA FileOfType ==
  ASSUME NEW u \in Calls
  PROVE  FileOf(u) \in Content /\ Blank \in Content
BY DEF FileOf, Content, Blank

(* A call is about a key.                                                   *)
LEMMA KeyType ==
  ASSUME TypeOK, NEW c \in Calls
  PROVE  Key(c) \in Keys /\ call[c].key \in Keys /\ call[c].size \in 0..Chunks
<1>1. call[c] \in Uploads \union Others
  BY DEF TypeOK
<1>2. call[c].key \in Keys /\ call[c].size \in 0..Chunks
  BY <1>1, StorageAssumption DEF Uploads, Others, Places
<1> QED
  BY <1>2, StorageAssumption DEF Key

(* A Close that fails can lose chunks of the file, and touches no other.    *)
LEMMA ShortType ==
  ASSUME TypeOK, NEW u \in Calls, open[u] \in Calls, CloseFails(u)
  PROVE  data' \in [Calls -> Content] /\ \A f \in Calls \ {open[u]} : data'[f] = data[f]
<1>1. PICK n \in 0..(call[u].size - 1) :
        data' = [data EXCEPT ![open[u]] = Shortened(data[open[u]], u, n)]
  BY DEF CloseFails
<1>2. Shortened(data[open[u]], u, n) \in Content
  BY DEF Shortened, TypeOK, Content
<1> QED
  BY <1>1, <1>2 DEF TypeOK

(* Initially every variable has its type.                                   *)
LEMMA TypeInit == Init => TypeOK
<1> SUFFICES ASSUME Init PROVE TypeOK
  OBVIOUS
<1>1. data \in [Calls -> Content] /\ got \in [Calls -> Content]
  BY FileOfType DEF Init
<1>2. pos \in [Calls -> 0..Chunks] /\ \A u \in Calls : call[u].what = "upload" => pos[u] <= call[u].size
  BY StorageAssumption DEF Init, Uploads, Others, Places
<1>3. pc \in [Calls -> Labels]
  BY DEF Init, Labels
<1> QED
  BY <1>1, <1>2, <1>3 DEF Init, TypeOK

(* Every step of a call keeps every variable within its type.               *)
LEMMA TypeOfStep ==
  ASSUME TypeOK, FilesOfKey, NEW c \in Calls, Step(c)
  PROVE  TypeOK'
<1> USE DEF TypeOK, Goto, Labels
<1>1. Key(c) \in Keys /\ call[c].size \in 0..Chunks
  BY KeyType
<1>2. CASE Begin(c)
  BY <1>2 DEF Begin
<1>3. CASE Fails(c)
  BY <1>3 DEF Fails
<1>4. CASE Create(c)
  <2> DEFINE f == IF dir[Key(c)] = Nobody THEN c ELSE dir[Key(c)]
  <2>1. f \in Calls /\ Blank \in Content
    BY <1>1, FileOfType
  <2>2. dir' = [dir EXCEPT ![Key(c)] = f] /\ data' = [data EXCEPT ![f] = Blank]
        /\ open' = [open EXCEPT ![c] = f] /\ pc' = [pc EXCEPT ![c] = "copying"]
    BY <1>4 DEF Create, Truncated
  <2> HIDE DEF f
  <2> QED
    BY <1>1, <1>4, <2>1, <2>2 DEF Create
<1>5. CASE CopyIn(c)
  <2>1. pos' = [pos EXCEPT ![c] = pos[c] + 1] /\ pos[c] < call[c].size /\ pos[c] + 1 \in 0..Chunks
    BY <1>1, <1>5, StorageAssumption DEF CopyIn, Copied
  <2>2. ASSUME NEW d \in Content, NEW p PROVE [d EXCEPT ![p] = c] \in Content
    BY DEF Content
  <2>3. data' \in [Calls -> Content]
    BY <1>5, <2>2 DEF CopyIn
  <2>4. /\ pos' \in [Calls -> 0..Chunks]
        /\ \A u \in Calls : call[u].what = "upload" => pos'[u] <= call[u].size
    BY <1>1, <2>1
  <2> QED
    BY <1>5, <2>3, <2>4 DEF CopyIn
<1>6. CASE CloseFails(c)
  <2>1. open[c] \in Calls
    BY <1>6 DEF CloseFails, FilesOfKey
  <2>2. data' \in [Calls -> Content]
    BY <1>6, <2>1, ShortType
  <2> QED
    BY <1>6, <2>2 DEF CloseFails
<1>13. CASE Stored(c) \/ CopyInFails(c) \/ CopyOutFails(c) \/ Strays(c)
  BY <1>13 DEF Stored, CopyInFails, CopyOutFails, AfterCopyError, Strays
<1>7. CASE Open(c)
  BY <1>1, <1>7 DEF Open
<1>8. CASE CopyOut(c)
  <2>1. CASE AtEnd(c)
    BY <1>8, <2>1 DEF CopyOut
  <2>2. CASE ~ AtEnd(c)
    <3>1. pos[c] + 1 \in Places
      BY <2>2, StorageAssumption DEF AtEnd, Places
    <3>2. pos' = [pos EXCEPT ![c] = pos[c] + 1] /\ call[c].what = "download"
      BY <1>8, <2>2 DEF CopyOut
    <3>3. got' = [got EXCEPT ![c] = [got[c] EXCEPT ![pos[c] + 1] = data[open[c]][pos[c] + 1]]]
      BY <1>8, <2>2 DEF CopyOut
    <3>4. open[c] \in Calls
      BY <1>8 DEF CopyOut, FilesOfKey
    <3>5. data[open[c]][pos[c] + 1] \in Calls \union {Nobody}
      BY <3>1, <3>4 DEF Content
    <3>6. got' \in [Calls -> Content]
      BY <3>1, <3>3, <3>5 DEF Content
    <3>7. pos' \in [Calls -> 0..Chunks]
      BY <3>1, <3>2, StorageAssumption DEF Places
    <3>8. \A u \in Calls : call[u].what = "upload" => pos'[u] <= call[u].size
      BY <3>2
    <3> QED
      BY <1>8, <2>2, <3>6, <3>7, <3>8 DEF CopyOut
  <2> QED
    BY <2>1, <2>2
<1>9. CASE Remove(c)
  BY <1>1, <1>9 DEF Remove
<1>10. CASE PutObject(c)
  BY <1>1, <1>10, FileOfType DEF PutObject, Answered
<1>11. CASE GetObject(c)
  BY <1>1, <1>11 DEF GetObject
<1>12. CASE DeleteObject(c)
  BY <1>1, <1>12 DEF DeleteObject, Answered
<1> QED
  BY <1>2, <1>3, <1>4, <1>5, <1>6, <1>7, <1>8, <1>9, <1>10, <1>11, <1>12, <1>13 DEF Step

(* What a step of a call leaves alone: the other calls, what other calls    *)
(* have in before, and the files of every key that it does not write.       *)
LEMMA Effects ==
  ASSUME TypeOK, FilesOfKey, NEW c \in Calls, Step(c)
  PROVE  /\ UNCHANGED <<backend, call>>
         /\ pc[c] \in Unended /\ pc'[c] # "idle"
         /\ \A x \in Calls \ {c} :
              /\ pc'[x] = pc[x] /\ open'[x] = open[x] /\ pos'[x] = pos[x]
              /\ got'[x] = got[x] /\ before'[x] = before[x]
         /\ pc[c] # "idle" => before'[c] = before[c]
         /\ pc[c] = "idle" =>
              /\ Begin(c) /\ pc'[c] = "called" /\ UNCHANGED <<dir, data, open, pos, got>>
              /\ before'[c] = {x \in Calls : Ended(x)}
         /\ \A k \in Keys : dir'[k] # dir[k] => k = Key(c) /\ c \in Writers(k)
         /\ \A f \in Calls : data'[f] # data[f] => Key(f) = Key(c) /\ c \in Writers(Key(c))
         /\ stray \subseteq stray' /\ stray' \subseteq stray \union {c}
         /\ stray' # stray => ~ Local /\ c \in Writers(Key(c))
<1> USE DEF TypeOK, Goto, Unended
<1>1. Key(c) \in Keys
  BY KeyType
<1>2. CASE Begin(c) \/ Fails(c) \/ Strays(c)
  BY <1>2 DEF Begin, Fails, Strays, Writers
<1>3. CASE Create(c)
  <2> DEFINE f == IF dir[Key(c)] = Nobody THEN c ELSE dir[Key(c)]
  <2>1. f \in Calls /\ Key(f) = Key(c) /\ c \in Writers(Key(c))
    BY <1>1, <1>3 DEF FilesOfKey, Writers, Create
  <2>2. /\ dir' = [dir EXCEPT ![Key(c)] = f] /\ data' = [data EXCEPT ![f] = Blank]
        /\ open' = [open EXCEPT ![c] = f] /\ pc' = [pc EXCEPT ![c] = "copying"]
        /\ pc[c] = "called" /\ UNCHANGED <<backend, call, pos, got, before, stray>>
    BY <1>3 DEF Create, Truncated
  <2> HIDE DEF f
  <2> QED
    BY <1>1, <2>1, <2>2
<1>4. CASE CopyIn(c)
  <2>1. open[c] \in Calls /\ Key(open[c]) = Key(c) /\ c \in Writers(Key(c))
    BY <1>4 DEF CopyIn, FilesOfKey, Writers
  <2>2. \A f \in Calls \ {open[c]} : data'[f] = data[f]
    BY <1>4 DEF CopyIn
  <2> QED
    BY <1>4, <2>1, <2>2 DEF CopyIn
<1>5. CASE Stored(c) \/ CopyInFails(c) \/ CopyOutFails(c) \/ Open(c)
  BY <1>5 DEF Stored, CopyInFails, CopyOutFails, AfterCopyError, Open
<1>11. CASE CloseFails(c)
  <2>1. open[c] \in Calls /\ Key(open[c]) = Key(c) /\ c \in Writers(Key(c))
    BY <1>11 DEF CloseFails, FilesOfKey, Writers
  <2>2. \A f \in Calls \ {open[c]} : data'[f] = data[f]
    BY <1>11, <2>1, ShortType
  <2> QED
    BY <1>11, <2>1, <2>2 DEF CloseFails
<1>6. CASE CopyOut(c)
  BY <1>6 DEF CopyOut
<1>7. CASE Remove(c)
  BY <1>1, <1>7 DEF Remove, Writers
<1>8. CASE PutObject(c)
  BY <1>1, <1>8 DEF PutObject, Answered, Writers
<1>9. CASE GetObject(c)
  BY <1>9 DEF GetObject
<1>10. CASE DeleteObject(c)
  BY <1>1, <1>10 DEF DeleteObject, Answered, Writers
<1> QED
  BY <1>2, <1>3, <1>4, <1>5, <1>6, <1>7, <1>8, <1>9, <1>10, <1>11 DEF Step

(* What before says of a call stays true.                                   *)
LEMMA HistoryOfStep ==
  ASSUME TypeOK, FilesOfKey, History, NEW c \in Calls, Step(c)
  PROVE  History'
<1>1. ASSUME NEW x \in Calls, Ended(x) PROVE Ended(x)'
  BY <1>1, Effects DEF Ended, Unended
<1>2. ASSUME NEW d \in Calls, NEW x \in before'[d] PROVE Ended(x)'
  <2>1. x \in Calls
    BY <1>2, Effects DEF TypeOK
  <2>2. Ended(x)
    BY <1>2, Effects DEF History
  <2> QED
    BY <1>1, <2>1, <2>2
<1>3. ASSUME NEW d \in Calls, pc'[d] = "idle" PROVE before'[d] = {} /\ d \notin stray'
  BY <1>3, Effects DEF History
<1> QED
  BY <1>2, <1>3 DEF History

(* A file stays with its key.                                               *)
LEMMA FilesOfStep ==
  ASSUME TypeOK, FilesOfKey, NEW c \in Calls, Step(c)
  PROVE  FilesOfKey'
<1> USE DEF TypeOK, Goto, FilesOfKey
<1>1. Key(c) \in Keys /\ call' = call /\ \A x \in Calls : Key(x)' = Key(x)
  BY KeyType, Effects DEF Key, Local
<1>0. \A x \in stray' : ~ Local' /\ x \in Writers(Key(x))'
  BY <1>1, Effects DEF Writers, Local
<1>2. CASE Begin(c) \/ Fails(c) \/ Strays(c)
  BY <1>0, <1>1, <1>2 DEF Begin, Fails, Strays, Local
<1>3. CASE Create(c)
  <2> DEFINE f == IF dir[Key(c)] = Nobody THEN c ELSE dir[Key(c)]
  <2>1. f \in Calls /\ Key(f) = Key(c) /\ f # Nobody
    BY <1>1, StorageAssumption
  <2>2. /\ dir' = [dir EXCEPT ![Key(c)] = f] /\ open' = [open EXCEPT ![c] = f]
        /\ pc' = [pc EXCEPT ![c] = "copying"]
        /\ Local /\ call[c].what = "upload" /\ UNCHANGED <<backend, pos, got>>
    BY <1>3 DEF Create
  <2> HIDE DEF f
  <2> QED
    BY <1>0, <1>1, <2>1, <2>2 DEF Local
<1>4. CASE CopyIn(c) \/ Stored(c) \/ CopyInFails(c) \/ CloseFails(c) \/ CopyOutFails(c)
  BY <1>0, <1>1, <1>4 DEF CopyIn, Stored, CopyInFails, CloseFails, CopyOutFails, AfterCopyError,
     Local
<1>5. CASE Open(c)
  BY <1>0, <1>1, <1>5 DEF Open, Local
<1>6. CASE CopyOut(c)
  BY <1>0, <1>1, <1>6 DEF CopyOut, Local
<1>7. CASE Remove(c) \/ DeleteObject(c)
  BY <1>0, <1>1, <1>7 DEF Remove, DeleteObject, Answered, Local
<1>8. CASE PutObject(c)
  BY <1>0, <1>1, <1>8 DEF PutObject, Answered, Local
<1>9. CASE GetObject(c)
  BY <1>0, <1>1, <1>9 DEF GetObject, Local
<1> QED
  BY <1>2, <1>3, <1>4, <1>5, <1>6, <1>7, <1>8, <1>9 DEF Step

(* A write that is the latest after a step of another call was the latest   *)
(* before it, and the step has written nothing on its key.                  *)
LEMMA LatestBefore ==
  ASSUME TypeOK, FilesOfKey, History, NEW c \in Calls, Step(c),
         NEW w \in Calls, w \in Writers(Key(w)), pc'[w] # "idle", pc'[w] # "called", Latest(w)'
  PROVE  /\ pc[w] # "idle" /\ Latest(w)
         /\ c = w \/ c \notin Writers(Key(w))
<1>1. pc[w] # "idle"
  BY Effects
<1>2. before'[w] = before[w]
  BY <1>1, Effects
<1>3. \A k : Writers(k)' = Writers(k) /\ Key(w)' = Key(w)
  BY Effects DEF Writers, Key, Local
<1>4. Latest(w)
  BY <1>2, <1>3, Effects DEF Latest, Writers
<1>5. ASSUME c # w, c \in Writers(Key(w)) PROVE FALSE
  <2>1. c \in before'[w] \/ pc'[c] = "idle"
    BY <1>3, <1>5 DEF Latest
  <2>2. ~ Ended(c) /\ pc'[c] # "idle"
    BY Effects DEF Ended, Unended
  <2> QED
    BY <1>2, <2>1, <2>2 DEF History
<1> QED
  BY <1>1, <1>4, <1>5

(* Writing the next chunk of a prefix gives the next prefix.                *)
LEMMA NextPrefix ==
  ASSUME NEW F, NEW p \in Nat, NEW q, q = F[p + 1]
  PROVE  [[n \in Places |-> IF n <= p THEN F[n] ELSE Nobody] EXCEPT ![p + 1] = q]
           = [n \in Places |-> IF n <= p + 1 THEN F[n] ELSE Nobody]
<1>1. ASSUME NEW n \in Places
      PROVE  [[m \in Places |-> IF m <= p THEN F[m] ELSE Nobody] EXCEPT ![p + 1] = q][n]
               = [m \in Places |-> IF m <= p + 1 THEN F[m] ELSE Nobody][n]
  <2>0. n \in Nat
    BY StorageAssumption DEF Places
  <2>1. CASE n = p + 1
    BY <2>0, <2>1
  <2>2. CASE n # p + 1
    <3>1. n <= p <=> n <= p + 1
      BY <2>0, <2>2
    <3> QED
      BY <2>2, <3>1
  <2> QED
    BY <2>1, <2>2
<1> QED
  BY <1>1

(* The next chunk of an upload is its own.                                  *)
LEMMA NextChunk ==
  ASSUME TypeOK, NEW u \in Calls, pos[u] < call[u].size
  PROVE  FileOf(u)[pos[u] + 1] = u
<1>1. pos[u] \in Nat /\ call[u].size \in 0..Chunks
  BY KeyType DEF TypeOK
<1>2. pos[u] + 1 \in Places /\ pos[u] + 1 <= call[u].size
  BY <1>1, StorageAssumption DEF Places
<1> QED
  BY <1>2 DEF FileOf

(* A copy that has not begun, one that is one chunk further, and one that   *)
(* is complete.                                                             *)
LEMMA Prefixes ==
  ASSUME NEW w \in Calls
  PROVE  /\ Prefix(w, 0) = Blank
         /\ Prefix(w, Chunks) = FileOf(w)
         /\ Prefix(w, call[w].size) = FileOf(w)
         /\ \A p \in Nat : [Prefix(w, p) EXCEPT ![p + 1] = FileOf(w)[p + 1]] = Prefix(w, p + 1)
<1>1. Prefix(w, 0) = Blank
  BY DEF Prefix, Blank, Places
<1>2. Prefix(w, Chunks) = FileOf(w)
  BY DEF Prefix, FileOf, Places
<1>3. Prefix(w, call[w].size) = FileOf(w)
  BY DEF Prefix, FileOf, Places
<1>4. ASSUME NEW p \in Nat
      PROVE  [Prefix(w, p) EXCEPT ![p + 1] = FileOf(w)[p + 1]] = Prefix(w, p + 1)
  BY NextPrefix DEF Prefix
<1> QED
  BY <1>1, <1>2, <1>3, <1>4

(* The latest write stands.                                                 *)
LEMMA LatestOfStep ==
  ASSUME TypeOK, FilesOfKey, History, LatestStands,
         NEW c \in Calls, Step(c)
  PROVE  LatestStands'
<1> USE DEF TypeOK, Goto
<1>0. /\ call' = call
      /\ \A x \in Calls : Key(x)' = Key(x) /\ FileOf(x)' = FileOf(x)
      /\ \A x \in Calls, p \in Nat : Prefix(x, p)' = Prefix(x, p)
      /\ \A k : Writers(k)' = Writers(k)
  BY Effects DEF Key, Local, FileOf, Prefix, Writers
<1> SUFFICES ASSUME NEW w \in Calls, w \in Writers(Key(w)), Latest(w)',
                    pc'[w] \in {"copying", "done"}
             PROVE  /\ pc'[w] = "copying" =>
                         dir'[Key(w)] = open'[w] /\ data'[open'[w]] = Prefix(w, pos'[w])
                    /\ pc'[w] = "done" =>
                         IF call[w].what = "upload"
                           THEN dir'[Key(w)] # Nobody /\ data'[dir'[Key(w)]] = FileOf(w)
                           ELSE dir'[Key(w)] = Nobody
  <2> SUFFICES ASSUME NEW w \in Calls, (w \in Writers(Key(w)))', Latest(w)'
               PROVE  ( /\ pc[w] = "copying" => dir[Key(w)] = open[w] /\ data[open[w]] = Prefix(w, pos[w])
                        /\ pc[w] = "done" =>
                             IF call[w].what = "upload"
                               THEN dir[Key(w)] # Nobody /\ data[dir[Key(w)]] = FileOf(w)
                               ELSE dir[Key(w)] = Nobody )'
    BY DEF LatestStands
  <2>1. w \in Writers(Key(w))
    BY <1>0 DEF Writers
  <2>2. /\ Prefix(w, pos[w])' = Prefix(w, pos'[w]) /\ FileOf(w)' = FileOf(w)
        /\ Key(w)' = Key(w) /\ call'[w].what = call[w].what
    BY <1>0 DEF Prefix, FileOf
  <2> QED
    BY <2>1, <2>2
<1>1. pc[w] # "idle" /\ Latest(w) /\ (c = w \/ c \notin Writers(Key(w)))
  BY LatestBefore
<1>2. /\ pc[w] = "copying" => dir[Key(w)] = open[w] /\ data[open[w]] = Prefix(w, pos[w])
      /\ pc[w] = "done" =>
           IF call[w].what = "upload"
             THEN dir[Key(w)] # Nobody /\ data[dir[Key(w)]] = FileOf(w)
             ELSE dir[Key(w)] = Nobody
  BY <1>1 DEF LatestStands
<1>3. Key(w) \in Keys /\ pos[w] \in Nat /\ call[w].what # "download"
  BY KeyType DEF Writers
<1>4. CASE c # w
  <2>1. c \notin Writers(Key(w)) /\ pc'[w] = pc[w] /\ open'[w] = open[w] /\ pos'[w] = pos[w]
    BY <1>1, <1>4, Effects
  <2>2. dir'[Key(w)] = dir[Key(w)]
    BY <1>3, <2>1, Effects
  <2>3. dir[Key(w)] \in Calls => data'[dir[Key(w)]] = data[dir[Key(w)]]
    BY <1>3, <2>1, Effects, StorageAssumption DEF FilesOfKey
  <2>4. pc[w] = "copying" => open[w] \in Calls
    BY DEF FilesOfKey
  <2> QED
    BY <1>2, <1>3, <2>1, <2>2, <2>3, <2>4
<1>5. CASE c = w
  <2>1. CASE Begin(w) \/ Fails(w) \/ Strays(w)
    BY <2>1 DEF Begin, Fails, Strays
  <2>2. CASE Create(w)
    <3> DEFINE f == IF dir[Key(w)] = Nobody THEN w ELSE dir[Key(w)]
    <3>1. dir' = [dir EXCEPT ![Key(w)] = f] /\ data' = [data EXCEPT ![f] = Blank]
          /\ open' = [open EXCEPT ![w] = f] /\ pc' = [pc EXCEPT ![w] = "copying"] /\ pos' = pos
          /\ pc[w] = "called"
      BY <2>2 DEF Create, Truncated
    <3>2. f \in Calls
      BY <1>3
    <3>3. pos[w] = 0
      BY <3>1 DEF FilesOfKey
    <3> HIDE DEF f
    <3> QED
      BY <1>3, <3>1, <3>2, <3>3, Prefixes
  <2>3. CASE CopyIn(w)
    <3>1. open[w] \in Calls /\ pos'[w] = pos[w] + 1
      BY <2>3 DEF CopyIn, FilesOfKey, Copied
    <3>2. data'[open[w]] = [data[open[w]] EXCEPT ![pos[w] + 1] = w]
      BY <2>3, <3>1 DEF CopyIn
    <3>3. FileOf(w)[pos[w] + 1] = w
      BY <2>3, NextChunk DEF CopyIn
    <3>4. data'[open[w]] = Prefix(w, pos[w] + 1)
      BY <1>2, <1>3, <2>3, <3>2, <3>3, Prefixes DEF CopyIn
    <3> QED
      BY <1>2, <2>3, <3>1, <3>4 DEF CopyIn
  <2>4. CASE Stored(w)
    <3>1. open[w] \in Calls /\ data[open[w]] = FileOf(w)
      BY <1>2, <2>4, Prefixes DEF Stored, FilesOfKey
    <3> QED
      BY <1>2, <2>4, <3>1, StorageAssumption DEF Stored
  <2>8. CASE CloseFails(w)
    BY <2>8 DEF CloseFails
  <2>5. CASE CopyInFails(w) \/ CopyOutFails(w) \/ Open(w) \/ CopyOut(w) \/ GetObject(w)
    BY <1>3, <2>5 DEF CopyInFails, AfterCopyError, CopyOutFails, Open, CopyOut, GetObject
  <2>6. CASE Remove(w) \/ DeleteObject(w)
    BY <1>3, <2>6 DEF Remove, DeleteObject, Answered
  <2>7. CASE PutObject(w)
    BY <1>3, <2>7, StorageAssumption DEF PutObject, Answered
  <2> QED
    BY <1>5, <2>1, <2>2, <2>3, <2>4, <2>5, <2>6, <2>7, <2>8 DEF Step
<1> QED
  BY <1>4, <1>5

(* What LastWrite says of a download that has not ended, with Latest.       *)
LEMMA LastIsLatest ==
  ASSUME TypeOK, History, NEW w \in Calls, NEW d \in Calls, ~ Ended(d),
         call[d].what = "download"
  PROVE  LastWrite(w, d) <=> w \in Writers(Key(d)) /\ w \in before[d] /\ Latest(w)
<1>1. ASSUME w \in Writers(Key(d)) PROVE Key(w) = Key(d)
  BY <1>1 DEF Writers
<1>2. \A x \in Calls : d \notin before[x]
  BY DEF History
<1> QED
  BY <1>1, <1>2 DEF LastWrite, Latest, Writers

(* A write that a download is told of was the last one before the step that *)
(* tells it, too, and is not what the step is about.                        *)
LEMMA LastBefore ==
  ASSUME TypeOK, FilesOfKey, History, NEW c \in Calls, Step(c),
         NEW w \in Calls, NEW d \in Calls, call[d].what = "download",
         pc'[d] \notin {"idle", "called"}, LastWrite(w, d)'
  PROVE  /\ w # c /\ w # d /\ w \in before[d] /\ pc'[w] = pc[w]
         /\ LastWrite(w, d) /\ Key(w) = Key(d)
<1>1. call' = call /\ pc[d] # "idle" /\ before'[d] = before[d]
  BY Effects
<1>2. /\ w \in Writers(Key(d)) /\ w \in before[d] /\ Key(w) = Key(d)
      /\ \A x \in Writers(Key(d)) \ {w} :
            (x \in before'[w] /\ x \notin stray') \/ d \in before'[x] \/ pc'[x] = "idle"
  BY <1>1, Effects DEF LastWrite, Writers, Key, Local
<1>3. Ended(w) /\ w # c /\ w # d
  BY <1>2, Effects DEF History, Ended, Unended, Writers
<1>4. before'[w] = before[w] /\ pc'[w] = pc[w]
  BY <1>3, Effects
<1>5. ASSUME NEW x \in Writers(Key(d)) \ {w}
      PROVE  (x \in before[w] /\ x \notin stray) \/ d \in before[x] \/ pc[x] = "idle"
  <2>1. x \in Calls
    BY DEF Writers
  <2> QED
    BY <1>2, <1>4, <2>1, Effects
<1> QED
  BY <1>2, <1>3, <1>4, <1>5 DEF LastWrite

(* A download that began after the latest write reads it.                   *)
LEMMA ReadsOfStep ==
  ASSUME TypeOK, FilesOfKey, History, LatestStands, ReadsLatest, NEW c \in Calls, Step(c)
  PROVE  ReadsLatest'
<1> USE DEF TypeOK, Goto
<1> SUFFICES ASSUME NEW w \in Calls, NEW d \in Calls, call[d].what = "download",
                      pc'[d] = "copying", LastWrite(w, d)', pc'[w] = "done"
               PROVE  /\ call[w].what = "upload"
                      /\ open'[d] = dir'[Key(d)]
                      /\ got'[d] = Prefix(w, pos'[d])
  <2>1. call' = call /\ backend' = backend
    BY Effects
  <2> QED
    BY <2>1 DEF ReadsLatest, Prefix, FileOf, Key, Local
<1>2. /\ w # c /\ w # d /\ w \in before[d] /\ pc[w] = "done"
      /\ LastWrite(w, d) /\ Key(w) = Key(d)
  BY LastBefore
<1>3. Key(d) \in Keys
  BY KeyType
<1>4. ~ Ended(d) /\ Latest(w) /\ w \in Writers(Key(w))
  <2>1. pc[d] \in Unended
    BY Effects DEF Unended
  <2> QED
    BY <1>2, <2>1, LastIsLatest DEF Ended, Unended
<1>5. IF call[w].what = "upload"
        THEN dir[Key(d)] # Nobody /\ data[dir[Key(d)]] = FileOf(w)
        ELSE dir[Key(d)] = Nobody
  BY <1>2, <1>4 DEF LatestStands
<1>6. CASE c # d
  <2>1. pc[d] = "copying" /\ open'[d] = open[d] /\ pos'[d] = pos[d] /\ got'[d] = got[d]
    BY <1>6, Effects
  <2>2. Latest(w)'
    <3>1. (~ Ended(d) /\ History /\ TypeOK /\ call[d].what = "download")'
      BY HistoryOfStep, TypeOfStep, Effects DEF Ended
    <3>2. \A x \in Calls : d \notin before'[x]
      BY <3>1 DEF History
    <3> QED
      BY <1>2, <3>2, Effects DEF LastWrite, Latest, Writers, Key, Local
  <2>3. c \notin Writers(Key(w))
    BY <1>2, <1>4, <2>2, LatestBefore
  <2>4. dir'[Key(d)] = dir[Key(d)]
    BY <1>2, <1>3, <2>3, Effects
  <2> QED
    BY <1>2, <2>1, <2>4 DEF ReadsLatest
<1>7. CASE c = d
  <2>1. CASE Open(d)
    <3>1. dir[Key(d)] # Nobody /\ open'[d] = dir[Key(d)] /\ dir' = dir
      BY <2>1 DEF Open
    <3>2. pos'[d] = 0 /\ got'[d] = Blank
      BY <2>1 DEF Open, FilesOfKey
    <3> QED
      BY <1>5, <3>1, <3>2, Prefixes
  <2>2. CASE CopyOut(d)
    <3>1. pc[d] = "copying" /\ ~ AtEnd(d) /\ open' = open /\ dir' = dir
      BY <2>2 DEF CopyOut
    <3>2. /\ got'[d] = [got[d] EXCEPT ![pos[d] + 1] = data[open[d]][pos[d] + 1]]
          /\ pos'[d] = pos[d] + 1
      BY <2>2, <3>1 DEF CopyOut
    <3>3. call[w].what = "upload" /\ open[d] = dir[Key(d)] /\ got[d] = Prefix(w, pos[d])
      BY <1>2, <3>1 DEF ReadsLatest
    <3>4. got'[d] = Prefix(w, pos[d] + 1)
      <4>1. pos[d] \in Nat /\ data[open[d]] = FileOf(w)
        BY <1>5, <3>3
      <4>2. got'[d] = [Prefix(w, pos[d]) EXCEPT ![pos[d] + 1] = FileOf(w)[pos[d] + 1]]
        BY <3>2, <3>3, <4>1
      <4> HIDE DEF TypeOK
      <4> QED
        BY <4>1, <4>2, Prefixes
    <3> QED
      BY <3>1, <3>2, <3>3, <3>4
  <2>3. CASE Begin(d) \/ Fails(d) \/ CopyOutFails(d) \/ GetObject(d)
    BY <2>3 DEF Begin, Fails, CopyOutFails, GetObject
  <2>4. ~ (Create(d) \/ CopyIn(d) \/ Stored(d) \/ CopyInFails(d) \/ CloseFails(d)
           \/ Remove(d) \/ PutObject(d) \/ DeleteObject(d) \/ Strays(d))
    BY DEF Create, CopyIn, Stored, CopyInFails, CloseFails, Remove, PutObject, DeleteObject,
       Strays
  <2> QED
    BY <1>7, <2>1, <2>2, <2>3, <2>4 DEF Step
<1> QED
  BY <1>6, <1>7

(* A download answers the last write before it.                             *)
LEMMA WinsOfStep ==
  ASSUME TypeOK, FilesOfKey, History, LatestStands, ReadsLatest, LastWriteWins,
         NEW c \in Calls, Step(c)
  PROVE  LastWriteWins'
<1> USE DEF TypeOK, Goto
<1> SUFFICES ASSUME NEW w \in Calls, NEW d \in Calls, call[d].what = "download",
                      pc'[d] \in {"done", "missing"}, LastWrite(w, d)', pc'[w] = "done"
               PROVE  IF call[w].what = "upload"
                        THEN pc'[d] = "done" /\ got'[d] = FileOf(w)
                        ELSE pc'[d] = "missing"
  <2>1. call' = call
    BY Effects
  <2> QED
    BY <2>1 DEF LastWriteWins, FileOf
<1>2. /\ w # c /\ w # d /\ w \in before[d] /\ pc[w] = "done"
      /\ LastWrite(w, d) /\ Key(w) = Key(d)
  BY LastBefore
<1>3. CASE c # d
  <2>1. pc[d] = pc'[d] /\ got'[d] = got[d]
    BY <1>3, Effects
  <2> QED
    BY <1>2, <2>1 DEF LastWriteWins
<1>4. CASE c = d
  <2>1. ~ Ended(d)
    BY <1>4, Effects DEF Ended, Unended
  <2>2. Latest(w) /\ w \in Writers(Key(w))
    BY <1>2, <2>1, LastIsLatest
  <2>3. IF call[w].what = "upload"
          THEN dir[Key(d)] # Nobody /\ data[dir[Key(d)]] = FileOf(w)
          ELSE dir[Key(d)] = Nobody
    BY <1>2, <2>2 DEF LatestStands
  <2>4. CASE Open(d)
    BY <2>3, <2>4 DEF Open
  <2>5. CASE CopyOut(d)
    <3>1. pc[d] = "copying" /\ AtEnd(d) /\ got' = got /\ pc'[d] = "done"
      BY <2>5 DEF CopyOut
    <3>2. call[w].what = "upload" /\ open[d] = dir[Key(d)] /\ got[d] = Prefix(w, pos[d])
      BY <1>2, <3>1 DEF ReadsLatest
    <3>3. \A n \in (pos[d] + 1)..Chunks : FileOf(w)[n] = Nobody
      BY <2>3, <3>1, <3>2 DEF AtEnd
    <3>4. \A n \in Places : n <= pos[d] \/ n \in (pos[d] + 1)..Chunks
      BY StorageAssumption DEF Places
    <3>5. Prefix(w, pos[d]) = FileOf(w)
      <4>1. \A n \in Places : Prefix(w, pos[d])[n] = FileOf(w)[n]
        BY <3>3, <3>4 DEF Prefix
      <4> QED
        BY <4>1 DEF Prefix, FileOf
    <3> QED
      BY <3>1, <3>2, <3>5
  <2>6. CASE GetObject(d)
    BY <2>3, <2>6 DEF GetObject
  <2>7. CASE Begin(d) \/ Fails(d) \/ CopyOutFails(d)
    BY <2>7 DEF Begin, Fails, CopyOutFails
  <2>8. ~ (Create(d) \/ CopyIn(d) \/ Stored(d) \/ CopyInFails(d) \/ CloseFails(d)
           \/ Remove(d) \/ PutObject(d) \/ DeleteObject(d) \/ Strays(d))
    BY DEF Create, CopyIn, Stored, CopyInFails, CloseFails, Remove, PutObject, DeleteObject,
       Strays
  <2> QED
    BY <1>4, <2>4, <2>5, <2>6, <2>7, <2>8 DEF Step
<1> QED
  BY <1>3, <1>4

(* What a request does that comes late: the write that its call asked for.  *)
LEMMA LateEffects ==
  ASSUME TypeOK, FilesOfKey, NEW x \in Calls, Late(x)
  PROVE  /\ UNCHANGED <<backend, call, pc, open, pos, got, before, stray>>
         /\ x \in stray /\ ~ Local /\ x \in Writers(Key(x)) /\ Key(x) \in Keys
         /\ \A k \in Keys \ {Key(x)} : dir'[k] = dir[k]
         /\ \A f \in Calls \ {x} : data'[f] = data[f]
         /\ call[x].what = "upload" => dir'[Key(x)] = x /\ data'[x] = FileOf(x)
         /\ call[x].what # "upload" => dir'[Key(x)] = Nobody
         /\ dir' \in [Keys -> Calls \union {Nobody}] /\ data' \in [Calls -> Content]
<1>1. Key(x) \in Keys /\ FileOf(x) \in Content
  BY KeyType, FileOfType
<1>2. /\ UNCHANGED <<backend, call, pc, open, pos, got, before, stray>>
      /\ x \in stray /\ ~ Local /\ x \in Writers(Key(x))
  BY DEF Late, FilesOfKey
<1>3. CASE call[x].what = "upload"
  <2>1. dir' = [dir EXCEPT ![Key(x)] = x] /\ data' = [data EXCEPT ![x] = FileOf(x)]
    BY <1>3 DEF Late
  <2> QED
    BY <1>1, <1>2, <1>3, <2>1 DEF TypeOK
<1>4. CASE call[x].what # "upload"
  <2>1. dir' = [dir EXCEPT ![Key(x)] = Nobody] /\ data' = data
    BY <1>4 DEF Late
  <2> QED
    BY <1>1, <1>2, <1>4, <2>1 DEF TypeOK
<1> QED
  BY <1>3, <1>4

(* The base of the invariants.                                              *)
Base == TypeOK /\ History /\ FilesOfKey

LEMMA BaseOfLate ==
  ASSUME Base, NEW x \in Calls, Late(x)
  PROVE  Base'
<1>1. TypeOK /\ History /\ FilesOfKey
  BY DEF Base
<1>2. TypeOK'
  BY <1>1, LateEffects DEF TypeOK, Labels
<1>3. History'
  BY <1>1, LateEffects DEF History, Ended
<1>4. Local' = Local /\ \A y \in Calls : Key(y)' = Key(y) /\ call'[y] = call[y]
  BY <1>1, LateEffects DEF Key, Local
<1>5. \A k \in Keys : dir'[k] # Nobody => Key(dir'[k]) = k
  BY <1>1, LateEffects DEF FilesOfKey
<1>6. \A k \in Keys : dir'[k] # Nobody => Key(dir[k])' = k
  BY <1>1, <1>4, <1>5, LateEffects
<1>7. \A y \in stray' : ~ Local' /\ y \in Writers(Key(y))'
  BY <1>1, <1>4, LateEffects DEF FilesOfKey, Writers
<1>8. \A c \in Calls : open'[c] # Nobody => Key(open[c])' = Key(c)'
  BY <1>1, <1>4, LateEffects DEF FilesOfKey, TypeOK
<1>9. /\ \A c \in Calls : pc'[c] = "copying" =>
            Local' /\ open'[c] # Nobody /\ call'[c].what \in {"upload", "download"}
      /\ \A c \in Calls : pc'[c] \in {"idle", "called"} => pos'[c] = 0 /\ got'[c] = Blank
  BY <1>1, <1>4, LateEffects DEF FilesOfKey
<1>10. FilesOfKey'
  BY <1>6, <1>7, <1>8, <1>9 DEF FilesOfKey, Blank
<1> QED
  BY <1>2, <1>3, <1>10 DEF Base

LEMMA CrashEffects ==
  ASSUME TypeOK, Crash
  PROVE  /\ UNCHANGED <<backend, call, dir, data, open, pos, got, before, stray>>
         /\ pc' \in [Calls -> Labels]
         /\ \A c \in Calls :
              /\ pc'[c] \in Labels \ {"called", "copying"}
              /\ pc'[c] = pc[c] \/ (pc'[c] = "gone" /\ ~ Ended(c) /\ pc[c] # "idle")
BY DEF TypeOK, Crash, IsOpen, Labels, Ended

(* Nothing is left of an open call after a crash, and nothing else changes. *)
LEMMA BaseOfCrash ==
  ASSUME Base, Crash
  PROVE  Base'
<1>1. TypeOK /\ History /\ FilesOfKey
  BY DEF Base
<1>2. TypeOK'
  BY <1>1, CrashEffects DEF TypeOK
<1>3. History'
  BY <1>1, CrashEffects DEF History, Ended, TypeOK
<1>4. UNCHANGED <<backend, call, dir, data, open, pos, got, before, stray>>
  BY <1>1, CrashEffects
<1>5. \A c \in Calls : pc'[c] # "copying" /\ (pc'[c] \in {"idle", "called"} => pc[c] = "idle")
  BY <1>1, CrashEffects
<1>6. /\ Local' = Local
      /\ \A k : Writers(k)' = Writers(k)
      /\ \A c : Key(c)' = Key(c)
  BY <1>4 DEF Writers, Key, Local
<1>7. FilesOfKey'
  BY <1>1, <1>4, <1>5, <1>6 DEF FilesOfKey, Blank
<1> QED
  BY <1>2, <1>3, <1>7 DEF Base

LEMMA BaseInit == Init => Base
<1> SUFFICES ASSUME Init PROVE Base
  OBVIOUS
<1>1. \A c \in Calls : pc[c] = "idle" /\ before[c] = {} /\ open[c] = Nobody
                       /\ pos[c] = 0 /\ got[c] = Blank
  BY DEF Init
<1>2. History /\ FilesOfKey
  BY <1>1 DEF Init, History, FilesOfKey
<1> QED
  BY <1>2, TypeInit DEF Base

LEMMA BaseOfNext == Base /\ [Next]_vars => Base'
<1> SUFFICES ASSUME Base, [Next]_vars PROVE Base'
  OBVIOUS
<1>1. CASE Crash
  BY <1>1, BaseOfCrash
<1>2. ASSUME NEW c \in Calls, Step(c) PROVE Base'
  BY <1>2, TypeOfStep, HistoryOfStep, FilesOfStep DEF Base
<1>3. ASSUME NEW x \in Calls, Late(x) PROVE Base'
  BY <1>3, BaseOfLate
<1>4. CASE UNCHANGED vars
  BY <1>4 DEF vars, Base, TypeOK, History, Ended, FilesOfKey, Local, Key, Writers
<1> QED
  BY <1>1, <1>2, <1>3, <1>4 DEF Next, AllEnded

(* Every variable always has its type.                                      *)
THEOREM Typing == Spec => []TypeOK
<1>1. Base => TypeOK
  BY DEF Base
<1> QED
  BY <1>1, BaseInit, BaseOfNext, PTL DEF Spec

(* A crash leaves the latest write as it is.                                *)
LEMMA InvOfCrash ==
  ASSUME StorageInv, Crash
  PROVE  StorageInv'
<1>0. TypeOK /\ History /\ FilesOfKey /\ LatestStands /\ ReadsLatest /\ LastWriteWins
  BY DEF StorageInv
<1>1. Base'
  BY <1>0, BaseOfCrash DEF Base
<1>2. /\ UNCHANGED <<backend, call, dir, data, open, pos, got, before, stray>>
      /\ \A c \in Calls : pc'[c] \in {"idle", "done", "missing"} => pc[c] = pc'[c]
      /\ \A c \in Calls : pc'[c] # "copying"
  BY <1>0, CrashEffects
<1>3. ASSUME NEW w \in Calls, Latest(w)' PROVE Latest(w)
  BY <1>2, <1>3 DEF Latest, Writers, Key, Local
<1>4. LatestStands'
  BY <1>0, <1>2, <1>3 DEF LatestStands, Writers, Key, Local, FileOf
<1>5. ReadsLatest'
  BY <1>2 DEF ReadsLatest
<1>6. ASSUME NEW w \in Calls, NEW d \in Calls, LastWrite(w, d)' PROVE LastWrite(w, d)
  BY <1>2, <1>6 DEF LastWrite, Writers, Key, Local
<1>7. LastWriteWins'
  BY <1>0, <1>2, <1>6 DEF LastWriteWins, FileOf
<1> QED
  BY <1>1, <1>4, <1>5, <1>7 DEF StorageInv, Base

(* Nor does a request that comes late touch a key whose latest write is     *)
(* another call's.                                                          *)
LEMMA InvOfLate ==
  ASSUME StorageInv, NEW x \in Calls, Late(x)
  PROVE  StorageInv'
<1>0. TypeOK /\ History /\ FilesOfKey /\ LatestStands /\ ReadsLatest /\ LastWriteWins
  BY DEF StorageInv
<1>1. Base'
  BY <1>0, BaseOfLate DEF Base
<1>2. UNCHANGED <<backend, call, pc, open, pos, got, before, stray>> /\ ~ Local /\ x \in stray
  BY <1>0, LateEffects
<1>3. \A c \in Calls : pc[c] # "copying"
  BY <1>0, <1>2 DEF FilesOfKey
<1>4. LatestStands'
  <2> SUFFICES ASSUME NEW w \in Calls, w \in Writers(Key(w)), Latest(w), pc[w] = "done"
               PROVE  IF call[w].what = "upload"
                        THEN dir'[Key(w)] # Nobody /\ data'[dir'[Key(w)]] = FileOf(w)
                        ELSE dir'[Key(w)] = Nobody
    BY <1>2, <1>3 DEF LatestStands, Latest, Writers, Key, Local, FileOf
  <2>1. Key(w) \in Keys /\ Nobody \notin Calls
    BY <1>0, KeyType, StorageAssumption
  <2>2. CASE x = w
    BY <1>0, <2>1, <2>2, LateEffects
  <2>3. CASE x # w
    <3>1. Key(x) # Key(w)
      <4>1. pc[x] # "idle"
        BY <1>0, <1>2 DEF History
      <4> QED
        BY <1>0, <1>2, <2>3, <4>1, LateEffects DEF Latest
    <3>2. dir'[Key(w)] = dir[Key(w)]
      BY <1>0, <2>1, <3>1, LateEffects
    <3>3. dir[Key(w)] \in Calls => Key(dir[Key(w)]) = Key(w) /\ dir[Key(w)] # x
      BY <1>0, <2>1, <3>1 DEF FilesOfKey
    <3>4. dir[Key(w)] \in Calls => data'[dir[Key(w)]] = data[dir[Key(w)]]
      BY <1>0, <3>3, LateEffects
    <3>5. dir[Key(w)] \in Calls \union {Nobody}
      BY <1>0, <2>1 DEF TypeOK
    <3>6. IF call[w].what = "upload"
            THEN dir[Key(w)] # Nobody /\ data[dir[Key(w)]] = FileOf(w)
            ELSE dir[Key(w)] = Nobody
      BY <1>0 DEF LatestStands
    <3> QED
      BY <3>2, <3>4, <3>5, <3>6
  <2> QED
    BY <2>2, <2>3
<1>5. ReadsLatest'
  BY <1>2, <1>3 DEF ReadsLatest
<1>6. ASSUME NEW w \in Calls, NEW d \in Calls, LastWrite(w, d)' PROVE LastWrite(w, d)
  BY <1>2, <1>6 DEF LastWrite, Writers, Key, Local
<1>7. LastWriteWins'
  BY <1>0, <1>2, <1>6 DEF LastWriteWins, FileOf
<1> QED
  BY <1>1, <1>4, <1>5, <1>7 DEF StorageInv, Base

(* Initially no call has begun.                                             *)
LEMMA InvInit == Init => StorageInv
<1> SUFFICES ASSUME Init PROVE StorageInv
  OBVIOUS
<1>1. \A c \in Calls : pc[c] = "idle"
  BY DEF Init
<1>2. LatestStands /\ ReadsLatest /\ LastWriteWins
  BY <1>1 DEF LatestStands, ReadsLatest, LastWriteWins
<1> QED
  BY <1>2, BaseInit DEF StorageInv, Base

(* Every step keeps the invariant.                                          *)
LEMMA InvOfNext == StorageInv /\ [Next]_vars => StorageInv'
<1> SUFFICES ASSUME StorageInv, [Next]_vars PROVE StorageInv'
  OBVIOUS
<1>1. CASE Crash
  BY <1>1, InvOfCrash
<1>2. ASSUME NEW c \in Calls, Step(c) PROVE StorageInv'
  BY <1>2, TypeOfStep, HistoryOfStep, FilesOfStep, LatestOfStep, ReadsOfStep, WinsOfStep
     DEF StorageInv
<1>3. ASSUME NEW x \in Calls, Late(x) PROVE StorageInv'
  BY <1>3, InvOfLate
<1>4. CASE UNCHANGED vars
  <2>1. Base'
    BY <1>4, BaseOfNext DEF StorageInv, Base
  <2>4. /\ \A w : Key(w)' = Key(w) /\ FileOf(w)' = FileOf(w) /\ (Latest(w)' <=> Latest(w))
        /\ \A w, p : Prefix(w, p)' = Prefix(w, p)
        /\ \A k : Writers(k)' = Writers(k)
    BY <1>4 DEF vars, Latest, Writers, Key, Local, Prefix, FileOf
  <2>2. LatestStands'
    BY <1>4, <2>4 DEF vars, StorageInv, LatestStands, Prefix, FileOf
  <2>3. ReadsLatest' /\ LastWriteWins'
    BY <1>4 DEF vars, StorageInv, ReadsLatest, LastWriteWins, LastWrite, Writers, Key, Local,
       Prefix, FileOf
  <2> QED
    BY <2>1, <2>2, <2>3 DEF StorageInv, Base
<1> QED
  BY <1>1, <1>2, <1>3, <1>4 DEF Next, AllEnded

(* The calls, the files that they open and their keys, and what the latest  *)
(* write has left, always fit together.                                     *)
THEOREM StorageInvariant == Spec => []StorageInv
BY InvInit, InvOfNext, PTL DEF Spec

(* A download always answers the last write before it, if that succeeded    *)
(* and no request of an earlier one is still on its way: from every         *)
(* provider (provider.go:43-44 and 66-67) and with every fault.  An upload  *)
(* whose Close fails says that it succeeded (local.go:88) and has not.      *)
THEOREM LastWriteAlwaysWins == Spec => []LastWriteWins
<1>1. StorageInv => LastWriteWins
  BY DEF StorageInv
<1> QED
  BY <1>1, StorageInvariant, PTL

----------------------------------------------------------------------------
(* Torn downloads.  Where no upload under a key has failed, died, been cut  *)
(* short or run beside another, every file that is not being written is one upload's.    *)

Whole(content, k) == \E u \in Uploaders(k) : content = FileOf(u)

Orderly(k) ==
  \A u \in Uploaders(k) :
    pc[u] \notin {"failed", "gone", "short"} /\ \A x \in Uploaders(k) \ {u} : ~ Overlap(u, x)

Undisturbed(d) == \A u \in Uploaders(Key(d)) : ~ Overlap(u, d)

InUse(f) == (\E k \in Keys : dir[k] = f) \/ (\E c \in Calls : open[c] = f)

BeingWritten(f) ==
  \E x \in Calls : call[x].what = "upload" /\ pc[x] = "copying" /\ open[x] = f

(* An upload has written what it has copied.                                *)
CopyStands ==
  \A k \in Keys : \A x \in Uploaders(k) :
    pc[x] = "copying" /\ Orderly(k) => data[open[x]] = Prefix(x, pos[x])

FilesWhole ==
  Local => \A f \in Calls, k \in Keys :
    k = Key(f) /\ InUse(f) /\ Orderly(k) /\ ~ BeingWritten(f) => Whole(data[f], k)

(* A download has read as much of that file as it has copied.               *)
ReadsWhole ==
  \A d \in Calls, k \in Keys :
    /\ call[d].what = "download" /\ pc[d] = "copying"
    /\ k = Key(d) /\ Orderly(k) /\ Undisturbed(d)
    => \E u \in Uploaders(k) : data[open[d]] = FileOf(u) /\ got[d] = Prefix(u, pos[d])

ObjectsWhole ==
  ~ Local => \A k \in Keys : dir[k] # Nobody => Whole(data[dir[k]], k)

AnswersWhole ==
  \A d \in Calls, k \in Keys :
    /\ call[d].what = "download" /\ pc[d] = "done" /\ k = Key(d)
    /\ Local => Orderly(k) /\ Undisturbed(d)
    => Whole(got[d], k)

TornInv == CopyStands /\ FilesWhole /\ ReadsWhole /\ ObjectsWhole /\ AnswersWhole

(* What a call asks for and what it would write never change.               *)
LEMMA Rigid ==
  ASSUME UNCHANGED <<backend, call>>
  PROVE  /\ Local' = Local
         /\ \A x \in Calls : Key(x)' = Key(x) /\ FileOf(x)' = FileOf(x)
         /\ \A x \in Calls : \A p : Prefix(x, p)' = Prefix(x, p)
         /\ \A k : Uploaders(k)' = Uploaders(k)
         /\ \A k, content : Whole(content, k)' <=> Whole(content, k)
<1>1. /\ Local' = Local
      /\ \A x \in Calls : Key(x)' = Key(x) /\ FileOf(x)' = FileOf(x)
      /\ \A x \in Calls : \A p : Prefix(x, p)' = Prefix(x, p)
      /\ \A k : Uploaders(k)' = Uploaders(k)
  BY DEF Local, Key, FileOf, Prefix, Uploaders
<1>2. ASSUME NEW k, NEW content PROVE Whole(content, k)' <=> Whole(content, k)
  BY <1>1 DEF Whole, Uploaders
<1> QED
  BY <1>1, <1>2

(* Two calls that overlap have always overlapped.                           *)
LEMMA OverlapStays ==
  ASSUME TypeOK, FilesOfKey, NEW c \in Calls, Step(c), NEW x \in Calls, NEW y \in Calls,
         Overlap(x, y)
  PROVE  Overlap(x, y)'
<1>1. /\ pc'[x] # "idle" /\ pc'[y] # "idle"
      /\ before'[x] = before[x] /\ before'[y] = before[y]
  BY Effects DEF Overlap
<1> QED
  BY <1>1 DEF Overlap

(* Uploads that are orderly after a step were so before it; and if the step *)
(* was of one of them, no other was open.                                   *)
LEMMA OrderlyBefore ==
  ASSUME TypeOK, FilesOfKey, History, NEW c \in Calls, Step(c), NEW k, Orderly(k)'
  PROVE  /\ Orderly(k)
         /\ c \in Uploaders(k) =>
              /\ pc'[c] \notin {"failed", "short"}
              /\ \A x \in Uploaders(k) \ {c} : pc[x] \notin {"called", "copying"}
<1>1. Uploaders(k)' = Uploaders(k) /\ Uploaders(k) \subseteq Calls
  BY Effects, Rigid DEF Uploaders
<1>2. ASSUME NEW u \in Uploaders(k)
      PROVE  pc[u] \notin {"failed", "gone", "short"} /\ \A x \in Uploaders(k) \ {u} : ~ Overlap(u, x)
  <2>1. pc'[u] \notin {"failed", "gone", "short"} /\ \A x \in Uploaders(k) \ {u} : ~ Overlap(u, x)'
    BY <1>1 DEF Orderly
  <2>2. pc[u] \notin {"failed", "gone", "short"}
    BY <1>1, <2>1, Effects DEF Unended
  <2> QED
    BY <1>1, <2>1, <2>2, OverlapStays
<1>3. ASSUME c \in Uploaders(k), NEW x \in Uploaders(k) \ {c}, pc[x] \in {"called", "copying"}
      PROVE  FALSE
  <2>1. ~ Overlap(c, x)' /\ x \in Calls
    BY <1>1, <1>3 DEF Orderly
  <2>2. pc'[c] # "idle" /\ pc'[x] # "idle" /\ ~ Ended(x)' /\ ~ Ended(c) /\ ~ Ended(x)
    BY <1>3, <2>1, Effects DEF Ended, Unended
  <2>3. c \notin before'[x]
    BY <1>3, <2>1, <2>2, Effects DEF History
  <2>4. History'
    BY HistoryOfStep
  <2>5. x \notin before'[c]
    BY <2>2, <2>4 DEF History
  <2> QED
    BY <2>1, <2>2, <2>3, <2>5 DEF Overlap
<1>4. c \in Uploaders(k) => pc'[c] \notin {"failed", "short"}
  BY <1>1 DEF Orderly
<1> QED
  BY <1>2, <1>3, <1>4 DEF Orderly

(* A download that is undisturbed after a step was so before it; and if it  *)
(* has begun and not ended, the step was of no upload under its key.        *)
LEMMA UndisturbedBefore ==
  ASSUME TypeOK, FilesOfKey, History, NEW c \in Calls, Step(c), NEW d \in Calls,
         Undisturbed(d)'
  PROVE  /\ Undisturbed(d)
         /\ pc[d] \in {"called", "copying"} =>
              c \notin Uploaders(Key(d)) /\ \A x \in Uploaders(Key(d)) : pc[x] # "copying"
<1>1. /\ \A x \in Uploaders(Key(d)) : ~ Overlap(x, d)'
      /\ Uploaders(Key(d)) \subseteq Calls
  BY Effects, Rigid DEF Undisturbed, Uploaders, Key, Local
<1>2. Undisturbed(d)
  BY <1>1, OverlapStays DEF Undisturbed
<1>3. ASSUME pc[d] \in {"called", "copying"}, NEW x \in Uploaders(Key(d)),
             x = c \/ pc[x] = "copying"
      PROVE  FALSE
  <2>1. x \in Calls /\ pc'[x] # "idle" /\ pc'[d] # "idle" /\ ~ Ended(x) /\ ~ Ended(d)
    BY <1>1, <1>3, Effects DEF Ended, Unended
  <2>2. before'[d] = before[d] /\ x \notin before'[d]
    BY <1>3, <2>1, Effects DEF History
  <2>3. d \in before'[x]
    BY <1>1, <2>1, <2>2 DEF Overlap
  <2>4. d \notin before[x] /\ x = c /\ pc[c] = "idle"
    BY <1>3, <2>1, <2>3, Effects DEF History
  <2> QED
    BY <2>1, <2>3, <2>4, Effects
<1> QED
  BY <1>2, <1>3

(* Only uploads change what a file holds, and of the local provider's only  *)
(* the one that they have open or fail to close.                            *)
LEMMA DataByUploads ==
  ASSUME TypeOK, FilesOfKey, NEW c \in Calls, Step(c),
         NEW f \in Calls, data'[f] # data[f]
  PROVE  c \in Uploaders(Key(f)) /\ (Local => pc'[c] \in {"copying", "short"} /\ open'[c] = f)
<1>1. Key(f) = Key(c)
  BY Effects
<1>2. CASE Create(c)
  <2> DEFINE g == IF dir[Key(c)] = Nobody THEN c ELSE dir[Key(c)]
  <2>1. /\ data' = [data EXCEPT ![g] = Blank] /\ open' = [open EXCEPT ![c] = g]
        /\ pc' = [pc EXCEPT ![c] = "copying"] /\ call[c].what = "upload"
    BY <1>2 DEF Create, Truncated, Goto
  <2> HIDE DEF g
  <2>2. f = g
    BY <2>1 DEF TypeOK
  <2> QED
    BY <1>1, <2>1, <2>2 DEF TypeOK, Uploaders
<1>3. CASE CopyIn(c)
  BY <1>1, <1>3 DEF CopyIn, TypeOK, Uploaders
<1>4. CASE PutObject(c)
  BY <1>1, <1>4 DEF PutObject, Uploaders
<1>6. CASE CloseFails(c)
  <2>1. open[c] \in Calls /\ open' = open /\ pc'[c] = "short" /\ call[c].what = "upload"
    BY <1>6 DEF CloseFails, Goto, FilesOfKey, TypeOK
  <2> QED
    BY <1>1, <1>6, <2>1, ShortType DEF Uploaders
<1>5. UNCHANGED data \/ Create(c) \/ CopyIn(c) \/ CloseFails(c) \/ PutObject(c)
  BY DEF Step, Begin, Fails, Stored, CopyInFails, Open, CopyOut, CopyOutFails, Remove,
     GetObject, DeleteObject, Strays
<1> QED
  BY <1>2, <1>3, <1>4, <1>5, <1>6

(* What an orderly upload has copied stands.                                *)
LEMMA CopyOfStep ==
  ASSUME TypeOK, FilesOfKey, History, CopyStands,
         NEW c \in Calls, Step(c)
  PROVE  CopyStands'
<1> SUFFICES ASSUME NEW k \in Keys, NEW x \in Uploaders(k), pc'[x] = "copying", Orderly(k)'
             PROVE  data'[open'[x]] = Prefix(x, pos'[x])
  BY Effects, Rigid DEF CopyStands, Uploaders, Prefix
<1>1. x \in Calls /\ call[x].what = "upload" /\ Key(x) = k /\ pos[x] \in Nat
  BY DEF Uploaders, TypeOK
<1>2. Orderly(k)
  BY OrderlyBefore
<1>3. CASE c # x
  <2>1. pc[x] = "copying" /\ open'[x] = open[x] /\ pos'[x] = pos[x]
    BY <1>1, <1>3, Effects
  <2>2. c \notin Uploaders(k)
    BY <1>1, <1>3, <2>1, OrderlyBefore
  <2>3. open[x] \in Calls /\ Key(open[x]) = k
    BY <1>1, <2>1 DEF FilesOfKey, TypeOK
  <2>4. data'[open[x]] = data[open[x]]
    BY <2>2, <2>3, DataByUploads
  <2> QED
    BY <1>1, <1>2, <2>1, <2>4 DEF CopyStands
<1>4. CASE c = x /\ Create(x)
  <2> DEFINE f == IF dir[k] = Nobody THEN x ELSE dir[k]
  <2>1. /\ data' = [data EXCEPT ![f] = Blank] /\ open' = [open EXCEPT ![x] = f]
        /\ pos' = pos /\ pc[x] = "called"
    BY <1>1, <1>4 DEF Create, Truncated
  <2>2. f \in Calls /\ pos[x] = 0
    BY <1>1, <2>1 DEF TypeOK, FilesOfKey
  <2> HIDE DEF f
  <2>3. data'[open'[x]] = Blank
    BY <1>1, <2>1, <2>2 DEF TypeOK
  <2> QED
    BY <1>1, <2>1, <2>2, <2>3, Prefixes
<1>5. CASE c = x /\ CopyIn(x)
  <2>1. /\ open[x] \in Calls /\ open' = open /\ pos'[x] = pos[x] + 1
        /\ data[open[x]] = Prefix(x, pos[x])
    BY <1>1, <1>2, <1>5 DEF CopyIn, FilesOfKey, Copied, TypeOK, CopyStands
  <2>2. data'[open[x]] = [data[open[x]] EXCEPT ![pos[x] + 1] = x]
    BY <1>5, <2>1 DEF CopyIn, TypeOK
  <2>3. FileOf(x)[pos[x] + 1] = x
    BY <1>1, <1>5, NextChunk DEF CopyIn
  <2> QED
    BY <1>1, <2>1, <2>2, <2>3, Prefixes
<1>6. c = x => Create(x) \/ CopyIn(x)
  BY <1>1 DEF Step, Begin, Fails, Stored, CopyInFails, CloseFails, AfterCopyError, Open, CopyOut,
              CopyOutFails, Remove, PutObject, Answered, GetObject, DeleteObject, Strays,
              Goto, TypeOK
<1> QED
  BY <1>3, <1>4, <1>5, <1>6

(* An orderly file that is not being written is one upload's.               *)
LEMMA FilesWholeOfStep ==
  ASSUME TypeOK, FilesOfKey, History, CopyStands, FilesWhole,
         NEW c \in Calls, Step(c)
  PROVE  FilesWhole'
<1> SUFFICES ASSUME Local, NEW f \in Calls, NEW k \in Keys, k = Key(f), InUse(f)',
                    Orderly(k)', ~ BeingWritten(f)'
             PROVE  Whole(data'[f], k)
  <2> SUFFICES ASSUME Local', NEW f \in Calls, NEW k \in Keys, k = Key(f)', InUse(f)',
                      Orderly(k)', ~ BeingWritten(f)'
               PROVE  Whole(data[f], k)'
    BY DEF FilesWhole
  <2>1. Local /\ k = Key(f)
    BY Effects, Rigid
  <2>2. Whole(data'[f], k)
    BY <2>1
  <2>3. Uploaders(k)' = Uploaders(k) /\ \A u \in Calls : FileOf(u)' = FileOf(u)
    BY Effects, Rigid
  <2>4. Uploaders(k) \subseteq Calls
    BY DEF Uploaders
  <2> QED
    BY <2>2, <2>3, <2>4 DEF Whole
<1>0. call' = call /\ Orderly(k) /\ Nobody \notin Calls
  BY Effects, OrderlyBefore, StorageAssumption
<1>1. data'[f] = data[f]
  <2>1. ASSUME data'[f] # data[f] PROVE FALSE
    <3>1. c \in Uploaders(k) /\ pc'[c] \in {"copying", "short"} /\ open'[c] = f
      BY <2>1, DataByUploads
    <3>2. pc'[c] = "copying"
      BY <3>1, OrderlyBefore
    <3> QED
      BY <1>0, <3>1, <3>2 DEF BeingWritten, Uploaders
  <2> QED
    BY <2>1
<1>2. InUse(f)
  <2>1. CASE Create(c)
    <3> DEFINE g == IF dir[Key(c)] = Nobody THEN c ELSE dir[Key(c)]
    <3>1. /\ dir' = [dir EXCEPT ![Key(c)] = g] /\ open' = [open EXCEPT ![c] = g]
          /\ pc' = [pc EXCEPT ![c] = "copying"] /\ call'[c].what = "upload"
      BY <1>0, <2>1 DEF Create, Goto
    <3> HIDE DEF g
    <3>2. f # g
      BY <3>1 DEF BeingWritten, TypeOK
    <3> QED
      BY <3>1, <3>2 DEF InUse, TypeOK
  <2>2. CASE Open(c)
    <3>1. Key(c) \in Keys
      BY KeyType
    <3> QED
      BY <2>2, <3>1 DEF Open, InUse, TypeOK
  <2>3. CASE UNCHANGED <<dir, open>>
    BY <2>3 DEF InUse
  <2>4. CASE Remove(c)
    BY <1>0, <2>4 DEF Remove, InUse, TypeOK
  <2> QED
    BY <2>1, <2>2, <2>3, <2>4 DEF Step, Begin, Fails, CopyIn, Stored, CopyInFails, CloseFails,
       CopyOut, CopyOutFails, PutObject, GetObject, DeleteObject, Strays
<1>3. CASE ~ BeingWritten(f)
  BY <1>0, <1>1, <1>2, <1>3 DEF FilesWhole
<1>4. CASE BeingWritten(f)
  <2>1. PICK x \in Calls : call[x].what = "upload" /\ pc[x] = "copying" /\ open[x] = f
    BY <1>4 DEF BeingWritten
  <2>2. x \in Uploaders(k)
    BY <1>0, <2>1 DEF FilesOfKey, Uploaders
  <2>3. c = x
    BY <1>0, <2>1, Effects DEF BeingWritten
  <2>4. ~ CopyIn(x) /\ ~ CopyInFails(x) /\ ~ CloseFails(x)
    <3>1. CopyIn(x) => pc' = pc /\ open' = open
      BY DEF CopyIn
    <3>2. CopyInFails(x) \/ CloseFails(x) => pc'[x] \in {"failed", "short"}
      BY DEF CopyInFails, CloseFails, Goto, AfterCopyError, TypeOK
    <3> QED
      BY <1>0, <2>1, <2>2, <2>3, <3>1, <3>2, OrderlyBefore DEF BeingWritten
  <2>5. Stored(x)
    BY <2>1, <2>3, <2>4 DEF Step, Begin, Fails, Create, Open, CopyOut, CopyOutFails, Remove,
       PutObject, GetObject, DeleteObject, Strays
  <2>6. data[f] = Prefix(x, call[x].size)
    BY <1>0, <2>1, <2>2, <2>5 DEF Stored, CopyStands
  <2> QED
    BY <1>1, <2>2, <2>6, Prefixes DEF Whole
<1> QED
  BY <1>3, <1>4

(* An undisturbed download has read as much of one upload as it has copied. *)
LEMMA ReadsWholeOfStep ==
  ASSUME TypeOK, FilesOfKey, History, FilesWhole, ReadsWhole,
         NEW c \in Calls, Step(c)
  PROVE  ReadsWhole'
<1> USE DEF Goto
<1> SUFFICES ASSUME NEW d \in Calls, NEW k \in Keys, call[d].what = "download",
                    pc'[d] = "copying", k = Key(d), Orderly(k)', Undisturbed(d)'
             PROVE  \E u \in Uploaders(k) :
                      data'[open'[d]] = FileOf(u) /\ got'[d] = Prefix(u, pos'[d])
  <2> SUFFICES ASSUME NEW d \in Calls, NEW k \in Keys, call'[d].what = "download",
                      pc'[d] = "copying", k = Key(d)', Orderly(k)', Undisturbed(d)'
               PROVE  ( \E u \in Uploaders(k) :
                          data[open[d]] = FileOf(u) /\ got[d] = Prefix(u, pos[d]) )'
    BY DEF ReadsWhole
  <2>1. call' = call /\ Key(d)' = Key(d)
    BY Effects, Rigid
  <2>2. PICK u \in Uploaders(k) : data'[open'[d]] = FileOf(u) /\ got'[d] = Prefix(u, pos'[d])
    BY <2>1
  <2>3. u \in Calls
    BY DEF Uploaders
  <2>4. Uploaders(k)' = Uploaders(k) /\ FileOf(u)' = FileOf(u)
    BY <2>3, Effects, Rigid
  <2>5. Prefix(u, pos[d])' = Prefix(u, pos'[d])
    BY <2>4 DEF Prefix
  <2> QED
    BY <2>2, <2>4, <2>5
<1>1. /\ Orderly(k) /\ Undisturbed(d) /\ Nobody \notin Calls
      /\ Uploaders(k) \subseteq Calls /\ pos[d] \in Nat
  BY OrderlyBefore, UndisturbedBefore, StorageAssumption DEF Uploaders, TypeOK
<1>2. CASE c # d
  <2>1. pc[d] = "copying" /\ open'[d] = open[d] /\ pos'[d] = pos[d] /\ got'[d] = got[d]
    BY <1>2, Effects
  <2>2. open[d] \in Calls /\ Key(open[d]) = k
    BY <2>1 DEF FilesOfKey, TypeOK
  <2>3. data'[open[d]] = data[open[d]]
    BY <2>1, <2>2, DataByUploads, UndisturbedBefore
  <2> QED
    BY <1>1, <2>1, <2>3 DEF ReadsWhole
<1>3. CASE c = d /\ Open(d)
  <2>1. /\ Local /\ open'[d] = dir[k] /\ dir[k] # Nobody /\ data' = data
        /\ pos'[d] = 0 /\ got'[d] = Blank /\ pc[d] = "called"
    BY <1>3 DEF Open, FilesOfKey, TypeOK
  <2>2. dir[k] \in Calls /\ Key(dir[k]) = k /\ InUse(dir[k])
    BY <2>1 DEF FilesOfKey, InUse, TypeOK
  <2>3. ~ BeingWritten(dir[k])
    BY <1>1, <2>1, <2>2, UndisturbedBefore DEF BeingWritten, FilesOfKey, Uploaders
  <2>4. Whole(data[dir[k]], k)
    BY <1>1, <2>1, <2>2, <2>3 DEF FilesWhole
  <2> QED
    BY <1>1, <2>1, <2>4, Prefixes DEF Whole
<1>4. CASE c = d /\ CopyOut(d)
  <2>1. /\ pc[d] = "copying" /\ open' = open /\ data' = data
        /\ got'[d] = [got[d] EXCEPT ![pos[d] + 1] = data[open[d]][pos[d] + 1]]
        /\ pos'[d] = pos[d] + 1
    BY <1>4 DEF CopyOut, TypeOK
  <2>2. PICK u \in Uploaders(k) : data[open[d]] = FileOf(u) /\ got[d] = Prefix(u, pos[d])
    BY <1>1, <2>1 DEF ReadsWhole
  <2>3. got'[d] = Prefix(u, pos'[d])
    BY <1>1, <2>1, <2>2, Prefixes
  <2> QED
    BY <2>1, <2>2, <2>3
<1>5. c = d => Open(d) \/ CopyOut(d)
  BY DEF Step, Begin, Fails, Create, CopyIn, Stored, CopyInFails, CloseFails, CopyOutFails,
         Remove, PutObject, GetObject, DeleteObject, Strays, TypeOK
<1> QED
  BY <1>2, <1>3, <1>4, <1>5

(* An object is one upload's whole file.                                    *)
LEMMA ObjectsOfStep ==
  ASSUME TypeOK, FilesOfKey, ObjectsWhole, NEW c \in Calls, Step(c)
  PROVE  ObjectsWhole'
<1> SUFFICES ASSUME ~ Local, NEW k \in Keys, dir'[k] # Nobody
             PROVE  Whole(data'[dir'[k]], k)
  <2> SUFFICES ASSUME (~ Local)', NEW k \in Keys, dir'[k] # Nobody
               PROVE  Whole(data[dir[k]], k)'
    BY DEF ObjectsWhole
  <2>1. ~ Local
    BY Effects, Rigid
  <2>2. Whole(data'[dir'[k]], k)
    BY <2>1
  <2>3. Uploaders(k)' = Uploaders(k) /\ \A u \in Calls : FileOf(u)' = FileOf(u)
    BY Effects, Rigid
  <2>4. Uploaders(k) \subseteq Calls
    BY DEF Uploaders
  <2> QED
    BY <2>2, <2>3, <2>4 DEF Whole
<1>1. Key(c) \in Keys /\ Nobody \notin Calls
  BY KeyType, StorageAssumption
<1>2. CASE PutObject(c)
  <2>1. dir' = [dir EXCEPT ![Key(c)] = c] /\ data' = [data EXCEPT ![c] = FileOf(c)]
    BY <1>2 DEF PutObject
  <2>2. CASE k = Key(c)
    <3>1. dir'[k] = c /\ data'[c] = FileOf(c) /\ c \in Uploaders(k)
      BY <1>1, <1>2, <2>1, <2>2 DEF PutObject, Uploaders, TypeOK
    <3> QED
      BY <3>1 DEF Whole
  <2>3. CASE k # Key(c)
    <3>1. dir'[k] = dir[k] /\ dir[k] \in Calls /\ Key(dir[k]) = k
      BY <1>1, <2>1, <2>3 DEF FilesOfKey, TypeOK
    <3>2. data'[dir[k]] = data[dir[k]]
      BY <2>1, <2>3, <3>1 DEF TypeOK
    <3> QED
      BY <3>1, <3>2 DEF ObjectsWhole
  <2> QED
    BY <2>2, <2>3
<1>3. CASE DeleteObject(c)
  BY <1>1, <1>3 DEF DeleteObject, ObjectsWhole, TypeOK
<1>4. CASE UNCHANGED <<dir, data>>
  BY <1>4 DEF ObjectsWhole
<1>5. UNCHANGED <<dir, data>> \/ PutObject(c) \/ DeleteObject(c)
  <2>1. ~ (Create(c) \/ CopyIn(c) \/ CloseFails(c) \/ Remove(c))
    BY DEF Create, CopyIn, CloseFails, Remove, FilesOfKey
  <2> QED
    BY <2>1 DEF Step, Begin, Fails, Stored, CopyInFails, Open, CopyOut,
       CopyOutFails, GetObject, Strays
<1> QED
  BY <1>2, <1>3, <1>4, <1>5

(* What a download answers is one upload's whole file, unless it is of the  *)
(* local provider and was disturbed.                                        *)
LEMMA AnswersOfStep ==
  ASSUME TypeOK, FilesOfKey, History, ReadsWhole, ObjectsWhole, AnswersWhole,
         NEW c \in Calls, Step(c)
  PROVE  AnswersWhole'
<1> USE DEF Goto
<1> SUFFICES ASSUME NEW d \in Calls, NEW k \in Keys, call[d].what = "download",
                    pc'[d] = "done", k = Key(d), Local => Orderly(k)' /\ Undisturbed(d)'
             PROVE  Whole(got'[d], k)
  <2> SUFFICES ASSUME NEW d \in Calls, NEW k \in Keys, call'[d].what = "download",
                      pc'[d] = "done", k = Key(d)', Local' => Orderly(k)' /\ Undisturbed(d)'
               PROVE  Whole(got[d], k)'
    BY DEF AnswersWhole
  <2>1. call' = call /\ Key(d)' = Key(d) /\ Local' = Local
    BY Effects, Rigid
  <2>2. Whole(got'[d], k)
    BY <2>1
  <2>3. Uploaders(k)' = Uploaders(k) /\ \A u \in Calls : FileOf(u)' = FileOf(u)
    BY Effects, Rigid
  <2>4. Uploaders(k) \subseteq Calls
    BY DEF Uploaders
  <2> QED
    BY <2>2, <2>3, <2>4 DEF Whole
<1>1. Local => Orderly(k) /\ Undisturbed(d)
  BY OrderlyBefore, UndisturbedBefore
<1>2. CASE c # d
  <2>1. pc[d] = "done" /\ got'[d] = got[d]
    BY <1>2, Effects
  <2> QED
    BY <1>1, <2>1 DEF AnswersWhole
<1>3. CASE c = d /\ CopyOut(d)
  <2>1. pc[d] = "copying" /\ AtEnd(d) /\ got' = got /\ Local
    BY <1>3 DEF CopyOut, FilesOfKey, TypeOK
  <2>2. PICK u \in Uploaders(k) : data[open[d]] = FileOf(u) /\ got[d] = Prefix(u, pos[d])
    BY <1>1, <2>1 DEF ReadsWhole
  <2>3. \A n \in Places : n <= pos[d] \/ n \in (pos[d] + 1)..Chunks
    BY StorageAssumption DEF Places, TypeOK
  <2>4. \A n \in Places : Prefix(u, pos[d])[n] = FileOf(u)[n]
    BY <2>1, <2>2, <2>3 DEF Prefix, AtEnd
  <2>5. Prefix(u, pos[d]) = FileOf(u)
    BY <2>4 DEF Prefix, FileOf
  <2> QED
    BY <2>1, <2>2, <2>5 DEF Whole
<1>4. CASE c = d /\ GetObject(d)
  BY <1>4 DEF GetObject, ObjectsWhole, TypeOK
<1>5. c = d => CopyOut(d) \/ GetObject(d)
  BY DEF Step, Begin, Fails, Create, CopyIn, Stored, CopyInFails, CloseFails,
         AfterCopyError, Open, CopyOutFails, Remove, PutObject, DeleteObject, Strays, TypeOK
<1> QED
  BY <1>2, <1>3, <1>4, <1>5

(* An upload that dies leaves the files of its key disorderly.              *)
LEMMA TornOfCrash ==
  ASSUME TypeOK, FilesOfKey, TornInv, Crash
  PROVE  TornInv'
<1>1. /\ UNCHANGED <<backend, call, dir, data, open, pos, got, before, stray>>
      /\ \A c \in Calls :
           /\ pc'[c] \notin {"called", "copying"}
           /\ pc'[c] # pc[c] => pc'[c] = "gone" /\ pc[c] # "idle"
           /\ pc[c] = "copying" => pc'[c] = "gone"
  BY DEF Crash, IsOpen, TypeOK
<1>2. /\ Local' = Local
      /\ \A k : Uploaders(k)' = Uploaders(k) /\ Uploaders(k) \subseteq Calls
      /\ \A x \in Calls : Key(x)' = Key(x) /\ FileOf(x)' = FileOf(x)
  BY <1>1, Rigid DEF Uploaders
<1>3. \A x, y \in Calls : Overlap(x, y)' <=> Overlap(x, y)
  BY <1>1 DEF Overlap
<1>4. ASSUME NEW k, Orderly(k)'
      PROVE  Orderly(k) /\ \A x \in Uploaders(k) : pc[x] # "copying"
  BY <1>1, <1>2, <1>3, <1>4 DEF Orderly
<1>5. ASSUME NEW d \in Calls, Undisturbed(d)' PROVE Undisturbed(d)
  <2>1. Uploaders(Key(d))' = Uploaders(Key(d))
    BY <1>1 DEF Uploaders, Key, Local
  <2> QED
    BY <1>2, <1>3, <1>5, <2>1 DEF Undisturbed
<1>6. CopyStands' /\ ReadsWhole'
  BY <1>1, <1>2 DEF CopyStands, ReadsWhole
<1>7. FilesWhole'
  <2> SUFFICES ASSUME Local', NEW f \in Calls, NEW k \in Keys, k = Key(f)', InUse(f)',
                      Orderly(k)'
               PROVE  Whole(data[f], k)'
    BY DEF FilesWhole
  <2>1. Local /\ k = Key(f) /\ InUse(f) /\ data' = data
    BY <1>1, <1>2 DEF InUse
  <2>2. ~ BeingWritten(f)
    BY <1>4, <2>1, StorageAssumption DEF BeingWritten, FilesOfKey, Uploaders
  <2>3. Whole(data[f], k)
    BY <1>4, <2>1, <2>2 DEF TornInv, FilesWhole
  <2> QED
    BY <1>1, <1>2, <2>3 DEF Whole
<1>8. ObjectsWhole'
  <2> SUFFICES ASSUME (~ Local)', NEW k \in Keys, dir'[k] # Nobody
               PROVE  Whole(data[dir[k]], k)'
    BY DEF ObjectsWhole
  <2>1. Whole(data[dir[k]], k)
    BY <1>1, <1>2 DEF TornInv, ObjectsWhole
  <2> QED
    BY <1>1, <1>2, <2>1 DEF Whole
<1>9. AnswersWhole'
  <2> SUFFICES ASSUME NEW d \in Calls, NEW k \in Keys, call'[d].what = "download",
                      pc'[d] = "done", k = Key(d)', Local' => Orderly(k)' /\ Undisturbed(d)'
               PROVE  Whole(got[d], k)'
    BY DEF AnswersWhole
  <2>1. Whole(got[d], k)
    BY <1>1, <1>2, <1>4, <1>5 DEF TornInv, AnswersWhole
  <2> QED
    BY <1>1, <1>2, <2>1 DEF Whole
<1> QED
  BY <1>6, <1>7, <1>8, <1>9 DEF TornInv

(* A request that comes late puts a whole file under its key, or none.      *)
LEMMA TornOfLate ==
  ASSUME TypeOK, FilesOfKey, TornInv, NEW x \in Calls, Late(x)
  PROVE  TornInv'
<1>1. UNCHANGED <<backend, call, pc, open, pos, got, before, stray>> /\ ~ Local
  BY LateEffects
<1>2. /\ Local' = Local
      /\ \A k : Uploaders(k)' = Uploaders(k) /\ Uploaders(k) \subseteq Calls
      /\ \A y \in Calls : Key(y)' = Key(y) /\ FileOf(y)' = FileOf(y)
      /\ \A k, content : Whole(content, k)' <=> Whole(content, k)
  BY <1>1, Rigid DEF Uploaders
<1>3. \A c \in Calls : pc'[c] # "copying"
  BY <1>1 DEF FilesOfKey
<1>4. CopyStands' /\ ReadsWhole'
  BY <1>2, <1>3 DEF CopyStands, ReadsWhole
<1>5. FilesWhole'
  BY <1>1, <1>2 DEF FilesWhole
<1>6. ObjectsWhole'
  <2> SUFFICES ASSUME NEW k \in Keys, dir'[k] # Nobody
               PROVE  Whole(data'[dir'[k]], k)
    BY <1>2 DEF ObjectsWhole, Whole
  <2>1. CASE k = Key(x)
    <3>1. dir'[k] = x /\ data'[x] = FileOf(x) /\ x \in Uploaders(k)
      BY <2>1, LateEffects DEF Uploaders
    <3> QED
      BY <3>1 DEF Whole
  <2>2. CASE k # Key(x)
    <3>1. dir'[k] = dir[k] /\ dir[k] \in Calls /\ dir[k] # x
      BY <2>2, LateEffects DEF FilesOfKey, TypeOK
    <3>2. data'[dir[k]] = data[dir[k]]
      BY <3>1, LateEffects
    <3> QED
      BY <1>1, <3>1, <3>2 DEF TornInv, ObjectsWhole
  <2> QED
    BY <2>1, <2>2
<1>7. AnswersWhole'
  <2> SUFFICES ASSUME NEW d \in Calls, NEW k \in Keys, call'[d].what = "download",
                      pc'[d] = "done", k = Key(d)'
               PROVE  Whole(got[d], k)'
    BY DEF AnswersWhole
  <2>1. Whole(got[d], k)
    BY <1>1, <1>2 DEF TornInv, AnswersWhole
  <2> QED
    BY <1>1, <1>2, <2>1 DEF Whole
<1> QED
  BY <1>4, <1>5, <1>6, <1>7 DEF TornInv

(* Initially there are no files and no answers.                             *)
LEMMA TornInit == Init => TornInv
<1> SUFFICES ASSUME Init PROVE TornInv
  OBVIOUS
<1>1. /\ \A c \in Calls : pc[c] = "idle" /\ open[c] = Nobody
      /\ \A k \in Keys : dir[k] = Nobody
  BY DEF Init
<1>2. \A f \in Calls : ~ InUse(f)
  BY <1>1, StorageAssumption DEF InUse
<1>3. CopyStands /\ ReadsWhole /\ AnswersWhole
  BY <1>1 DEF CopyStands, ReadsWhole, AnswersWhole, Uploaders
<1>4. FilesWhole /\ ObjectsWhole
  BY <1>1, <1>2 DEF FilesWhole, ObjectsWhole
<1> QED
  BY <1>3, <1>4 DEF TornInv

(* Every step keeps the invariant.                                          *)
LEMMA TornOfNext == Base /\ TornInv /\ [Next]_vars => TornInv'
<1> SUFFICES ASSUME Base, TornInv, [Next]_vars PROVE TornInv'
  OBVIOUS
<1>1. TypeOK /\ FilesOfKey /\ History
  BY DEF Base
<1>2. CASE Crash
  BY <1>1, <1>2, TornOfCrash
<1>3. ASSUME NEW c \in Calls, Step(c) PROVE TornInv'
  <2>1. CopyStands' /\ FilesWhole' /\ ReadsWhole'
    BY <1>1, <1>3, CopyOfStep, FilesWholeOfStep, ReadsWholeOfStep DEF TornInv
  <2>2. ObjectsWhole' /\ AnswersWhole'
    BY <1>1, <1>3, ObjectsOfStep, AnswersOfStep DEF TornInv
  <2> QED
    BY <2>1, <2>2 DEF TornInv
<1>5. ASSUME NEW x \in Calls, Late(x) PROVE TornInv'
  BY <1>1, <1>5, TornOfLate
<1>4. CASE UNCHANGED vars
  <2>1. /\ UNCHANGED <<backend, call, pc, dir, data, open, pos, got, before, stray>>
        /\ \A k, content : Whole(content, k)' <=> Whole(content, k)
        /\ \A k : Orderly(k)' <=> Orderly(k)
        /\ \A d : Undisturbed(d)' <=> Undisturbed(d)
        /\ \A k : Uploaders(k)' = Uploaders(k)
    BY <1>4 DEF vars, Whole, Orderly, Undisturbed, Overlap, Uploaders, FileOf, Key, Local
  <2>2. CopyStands'
    BY <2>1 DEF TornInv, CopyStands, Prefix, FileOf
  <2>3. FilesWhole'
    BY <2>1 DEF TornInv, FilesWhole, InUse, BeingWritten, Whole, Uploaders, FileOf, Key, Local
  <2>4. ReadsWhole'
    BY <2>1 DEF TornInv, ReadsWhole, Prefix, FileOf, Key, Local
  <2>5. ObjectsWhole' /\ AnswersWhole'
    BY <2>1 DEF TornInv, ObjectsWhole, AnswersWhole, Whole, Uploaders, FileOf, Key, Local
  <2> QED
    BY <2>2, <2>3, <2>4, <2>5 DEF TornInv
<1> QED
  BY <1>2, <1>3, <1>4, <1>5 DEF Next, AllEnded

(* A download of S3 returns one upload's whole file, always; and one of the *)
(* local provider, unless an upload under the key failed, or died, or was   *)
(* cut short by a Close that failed, or ran while it read or beside another *)
(* upload (local.go:84-95).                                                 *)
THEOREM TornAlwaysExplained == Spec => []TornExplained
<1>1. TypeOK /\ AnswersWhole => TornExplained
  <2> SUFFICES ASSUME TypeOK, AnswersWhole, NEW d \in Calls,
                      call[d].what = "download", pc[d] = "done",
                      \A u \in Uploaders(Key(d)) : got[d] # FileOf(u)
               PROVE  /\ Local
                      /\ \E u \in Uploaders(Key(d)) :
                           \/ pc[u] \in {"failed", "gone", "short"}
                           \/ Overlap(u, d)
                           \/ \E x \in Uploaders(Key(d)) \ {u} : Overlap(u, x)
    BY DEF TornExplained
  <2>1. Key(d) \in Keys /\ ~ Whole(got[d], Key(d))
    BY KeyType DEF Whole
  <2>2. Local /\ ~ (Orderly(Key(d)) /\ Undisturbed(d))
    BY <2>1 DEF AnswersWhole
  <2> QED
    BY <2>2 DEF Orderly, Undisturbed
<1>2. Init => Base /\ TornInv
  BY BaseInit, TornInit
<1>3. Base /\ TornInv /\ [Next]_vars => (Base /\ TornInv)'
  BY BaseOfNext, TornOfNext
<1>4. Base /\ TornInv => TornExplained
  BY <1>1 DEF Base, TornInv
<1> QED
  BY <1>2, <1>3, <1>4, PTL DEF Spec
====
