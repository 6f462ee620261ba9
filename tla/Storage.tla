---- MODULE Storage ----
(***************************************************************************)
(* The storage providers of internal/providers/storage, as their callers   *)
(* see them: uploads, downloads and deletes of files under keys, any       *)
(* number of them at once.  A local call is a sequence of system calls on  *)
(* a file; a call of S3 (and of R2, which is S3 at another address) is one *)
(* request.                                                                *)
(***************************************************************************)
EXTENDS Integers, FiniteSets

CONSTANTS
  Calls,     \* calls of a provider's methods
  Nobody,    \* no call: what a place holds that no upload has written
  Keys,      \* keys of files
  Clean,     \* Clean[k]: the key spelled as the path that filepath.Join makes of it
  Chunks,    \* BOUND: a file is at most as many reads and writes of io.Copy
  Backends,  \* the providers that the calls may be made of
  Faults     \* what may go wrong

ASSUME StorageAssumption ==
  /\ Nobody \notin Calls
  /\ Chunks \in Nat \ {0}
  /\ Clean \in [Keys -> Keys]
  /\ Backends \subseteq {"local", "s3"}
  /\ Faults \subseteq {"disk", "body", "close", "network", "crash"}

VARIABLES
  backend,  \* the provider; fixed
  call,     \* what each call asks for; fixed
  pc,       \* how far each call is, or how it ended; a "short" one says it is done
  dir,      \* dir[k]: the file under a key, named by the upload that made it
  data,     \* data[f][n]: the upload that wrote the n-th chunk of a file
  open,     \* open[c]: the file that a local call has open
  pos,      \* pos[c]: how many chunks a local call has copied
  got,      \* got[c][n]: the n-th chunk that a download has returned
  before,   \* history: before[c], the calls that had ended when c began
  stray     \* writes of which a request got no answer: it may act at any time

vars == <<backend, call, pc, dir, data, open, pos, got, before, stray>>

----------------------------------------------------------------------------
Places == 1..Chunks

Content == [Places -> Calls \union {Nobody}]

Blank == [n \in Places |-> Nobody]

Uploads == [what: {"upload"}, key: Keys, size: Places]
Others  == [what: {"download", "delete"}, key: Keys, size: {0}]

(* The file that an upload was given.                                       *)
FileOf(u) == [n \in Places |-> IF n <= call[u].size THEN u ELSE Nobody]

Ended(c) == pc[c] \in {"done", "short", "missing", "failed", "gone"}

IsOpen(c) == pc[c] \in {"called", "copying"}

Local == backend = "local"

Goto(c, label) == pc' = [pc EXCEPT ![c] = label]

(* The name of the file that a call is about: "x", "./x" and "a/../x" are   *)
(* one file of the local provider, and three objects of S3.                 *)
Key(c) == IF Local THEN Clean[call[c].key] ELSE call[c].key

Init ==
  /\ backend \in Backends
  /\ call \in [Calls -> Uploads \union Others]
  /\ pc = [c \in Calls |-> "idle"]
  /\ dir = [k \in Keys |-> Nobody]
  /\ data = [c \in Calls |-> Blank]
  /\ open = [c \in Calls |-> Nobody]
  /\ pos = [c \in Calls |-> 0]
  /\ got = [c \in Calls |-> Blank]
  /\ before = [c \in Calls |-> {}]
  /\ stray = {}

Begin(c) ==
  /\ pc[c] = "idle"
  /\ before' = [before EXCEPT ![c] = {x \in Calls : Ended(x)}]
  /\ Goto(c, "called")
  /\ UNCHANGED <<backend, call, dir, data, open, pos, got, stray>>

(* A call that fails before it has had an effect: MkdirAll, Create, Open or *)
(* Remove of the local provider; or a request that S3 did not get.          *)
Fails(c) ==
  /\ pc[c] = "called"
  /\ (IF Local THEN "disk" ELSE "network") \in Faults
  /\ Goto(c, "failed")
  /\ UNCHANGED <<backend, call, dir, data, open, pos, got, before, stray>>

----------------------------------------------------------------------------
(* The local provider.                                                      *)

(* os.Create: the file under the key, a new one if there is none, and empty *)
(* either way, whoever else has it open.                                    *)
TruncatedNot(content) == content     \* mutant: OpenFile without O_TRUNC

Truncated(content) == Blank

Create(u) ==
  LET f == IF dir[Key(u)] = Nobody THEN u ELSE dir[Key(u)] IN
  /\ Local
  /\ pc[u] = "called" /\ call[u].what = "upload"
  /\ dir' = [dir EXCEPT ![Key(u)] = f]
  /\ data' = [data EXCEPT ![f] = Truncated(@)]
  /\ open' = [open EXCEPT ![u] = f]
  /\ Goto(u, "copying")
  /\ UNCHANGED <<backend, call, pos, got, before, stray>>

(* io.Copy: one write, at the call's own offset.                            *)
CopiedTwice(n) == n + 2              \* mutant: the offset is advanced twice

Copied(n) == n + 1

CopyIn(u) ==
  /\ pc[u] = "copying" /\ call[u].what = "upload"
  /\ pos[u] < call[u].size
  /\ data' = [data EXCEPT ![open[u]][pos[u] + 1] = u]
  /\ pos' = [pos EXCEPT ![u] = Copied(@)]
  /\ UNCHANGED <<backend, call, pc, dir, open, got, before, stray>>

(* The reader is at its end: the file's metadata go to the caller.          *)
Stored(u) ==
  /\ pc[u] = "copying" /\ call[u].what = "upload"
  /\ pos[u] = call[u].size
  /\ Goto(u, "done")
  /\ UNCHANGED <<backend, call, dir, data, open, pos, got, before, stray>>

(* The same, but the deferred Close fails: some file systems report only    *)
(* then that they could not write.  The error is dropped and the caller is  *)
(* told what it is told by Stored; the file is short of what u wrote after  *)
(* the n-th chunk.                                                          *)
Shortened(content, u, n) ==
  [m \in Places |-> IF m > n /\ content[m] = u THEN Nobody ELSE content[m]]

CloseFails(u) ==
  /\ pc[u] = "copying" /\ call[u].what = "upload"
  /\ pos[u] = call[u].size
  /\ "close" \in Faults
  /\ \E n \in 0..(call[u].size - 1) : data' = [data EXCEPT ![open[u]] = Shortened(@, u, n)]
  /\ Goto(u, "short")
  /\ UNCHANGED <<backend, call, dir, open, pos, got, before, stray>>

(* A read of the body, the last one too, or a write to the disk fails, and  *)
(* the file is left as it is.                                               *)
AfterCopyErrorIgnored == "done"      \* mutant: io.Copy's error is not looked at

AfterCopyError == "failed"

CopyInFails(u) ==
  /\ pc[u] = "copying" /\ call[u].what = "upload"
  /\ Faults \intersect {"disk", "body"} # {}
  /\ Goto(u, AfterCopyError)
  /\ UNCHANGED <<backend, call, dir, data, open, pos, got, before, stray>>

(* os.Open: ErrNotFound if there is no file.                                *)
Open(d) ==
  /\ Local
  /\ pc[d] = "called" /\ call[d].what = "download"
  /\ open' = [open EXCEPT ![d] = dir[Key(d)]]
  /\ Goto(d, IF dir[Key(d)] = Nobody THEN "missing" ELSE "copying")
  /\ UNCHANGED <<backend, call, dir, data, pos, got, before, stray>>

(* The caller reads from the file that Download has returned, up to its end *)
(* as it is by then.                                                        *)
AtEnd(d) == \A n \in (pos[d] + 1)..Chunks : data[open[d]][n] = Nobody

CopyOut(d) ==
  /\ pc[d] = "copying" /\ call[d].what = "download"
  /\ IF AtEnd(d)
       THEN Goto(d, "done") /\ UNCHANGED <<got, pos>>
       ELSE /\ got' = [got EXCEPT ![d][pos[d] + 1] = data[open[d]][pos[d] + 1]]
            /\ pos' = [pos EXCEPT ![d] = @ + 1]
            /\ UNCHANGED pc
  /\ UNCHANGED <<backend, call, dir, data, open, before, stray>>

CopyOutFails(d) ==
  /\ pc[d] = "copying" /\ call[d].what = "download"
  /\ "disk" \in Faults
  /\ Goto(d, "failed")
  /\ UNCHANGED <<backend, call, dir, data, open, pos, got, before, stray>>

(* os.Remove: the key goes, a file that is open stays with those who have   *)
(* it open; that there is no file is no error.                              *)
Remove(x) ==
  /\ Local
  /\ pc[x] = "called" /\ call[x].what = "delete"
  /\ dir' = [dir EXCEPT ![Key(x)] = Nobody]
  /\ Goto(x, "done")
  /\ UNCHANGED <<backend, call, data, open, pos, got, before, stray>>

----------------------------------------------------------------------------
(* S3 and R2.  A request may take effect and its answer be lost: the call   *)
(* fails, or the SDK sends the request again.  Or the client gives one up   *)
(* that is still on its way, and sends it again, or the call fails.         *)
Strays(c) ==
  /\ ~ Local /\ "network" \in Faults
  /\ pc[c] = "called" /\ call[c].what # "download"
  /\ stray' = stray \union {c}
  /\ UNCHANGED <<backend, call, pc, dir, data, open, pos, got, before>>

Answered(c) ==
  \/ Goto(c, "done")
  \/ "network" \in Faults /\ Goto(c, "failed")
  \/ "network" \in Faults /\ UNCHANGED pc

PutObject(u) ==
  /\ ~ Local
  /\ pc[u] = "called" /\ call[u].what = "upload"
  /\ dir' = [dir EXCEPT ![Key(u)] = u]
  /\ data' = [data EXCEPT ![u] = FileOf(u)]
  /\ Answered(u)
  /\ UNCHANGED <<backend, call, open, pos, got, before, stray>>

(* NoSuchKey becomes ErrNotFound.  S3 sends the whole object or the read of *)
(* its body fails, which is a call that Fails.                              *)
GetObject(d) ==
  /\ ~ Local
  /\ pc[d] = "called" /\ call[d].what = "download"
  /\ IF dir[Key(d)] = Nobody
       THEN Goto(d, "missing") /\ UNCHANGED got
       ELSE Goto(d, "done") /\ got' = [got EXCEPT ![d] = data[dir[Key(d)]]]
  /\ UNCHANGED <<backend, call, dir, data, open, pos, before, stray>>

DeleteObject(x) ==
  /\ ~ Local
  /\ pc[x] = "called" /\ call[x].what = "delete"
  /\ dir' = [dir EXCEPT ![Key(x)] = Nobody]
  /\ Answered(x)
  /\ UNCHANGED <<backend, call, data, open, pos, got, before, stray>>

(* A request that was given up arrives after all, whatever has become of    *)
(* its call.                                                                *)
Late(x) ==
  /\ x \in stray
  /\ IF call[x].what = "upload"
       THEN /\ dir' = [dir EXCEPT ![Key(x)] = x]
            /\ data' = [data EXCEPT ![x] = FileOf(x)]
       ELSE dir' = [dir EXCEPT ![Key(x)] = Nobody] /\ UNCHANGED data
  /\ UNCHANGED <<backend, call, pc, open, pos, got, before, stray>>

----------------------------------------------------------------------------
(* The process dies with the calls that it had open.                        *)
Crash ==
  /\ "crash" \in Faults
  /\ \E c \in Calls : IsOpen(c)
  /\ pc' = [c \in Calls |-> IF IsOpen(c) THEN "gone" ELSE pc[c]]
  /\ UNCHANGED <<backend, call, dir, data, open, pos, got, before, stray>>

AllEnded ==
  /\ \A c \in Calls : Ended(c)
  /\ UNCHANGED vars

(* What a call does.                                                        *)
Step(c) ==
  \/ Begin(c) \/ Fails(c)
  \/ Create(c) \/ CopyIn(c) \/ Stored(c) \/ CopyInFails(c) \/ CloseFails(c)
  \/ Open(c) \/ CopyOut(c) \/ CopyOutFails(c) \/ Remove(c)
  \/ PutObject(c) \/ GetObject(c) \/ DeleteObject(c) \/ Strays(c)

Next ==
  \/ \E c \in Calls : Step(c) \/ Late(c)
  \/ Crash
  \/ AllEnded

Spec == Init /\ [][Next]_vars

----------------------------------------------------------------------------
(* Properties.                                                              *)

Labels == {"idle", "called", "copying", "done", "short", "missing", "failed", "gone"}

(* Every variable holds values of its type.                                 *)
TypeOK ==
  /\ backend \in Backends
  /\ call \in [Calls -> Uploads \union Others]
  /\ pc \in [Calls -> Labels]
  /\ dir \in [Keys -> Calls \union {Nobody}]
  /\ data \in [Calls -> Content]
  /\ open \in [Calls -> Calls \union {Nobody}]
  /\ pos \in [Calls -> 0..Chunks]
  /\ \A u \in Calls : call[u].what = "upload" => pos[u] <= call[u].size
  /\ got \in [Calls -> Content]
  /\ before \in [Calls -> SUBSET Calls]
  /\ stray \subseteq Calls

Writers(k) == {c \in Calls : call[c].what # "download" /\ Key(c) = k}

(* w is the last write that d can see: every other write on the key had     *)
(* ended before w began, with an answer to each of its requests, or has not *)
(* begun before d ended.                                                    *)
LastWrite(w, d) ==
  /\ w \in Writers(Key(d)) /\ w \in before[d]
  /\ \A x \in Writers(Key(d)) \ {w} :
       (x \in before[w] /\ x \notin stray) \/ d \in before[x] \/ pc[x] = "idle"

(* What a download answers after a last write that succeeded is that write: *)
(* the whole file of an upload and nothing else (provider.go:43-44), and    *)
(* ErrNotFound after a delete (provider.go:66-67), whatever earlier calls   *)
(* failed, crashed or left behind, but for a request to S3 that is still on *)
(* its way.  An upload whose Close fails did not succeed, whatever it says. *)
LastWriteWins ==
  \A w, d \in Calls :
    call[d].what = "download" /\ pc[d] \in {"done", "missing"} /\ LastWrite(w, d) /\ pc[w] = "done" =>
      IF call[w].what = "upload"
        THEN pc[d] = "done" /\ got[d] = FileOf(w)
        ELSE pc[d] = "missing"

Uploaders(k) == {u \in Calls : call[u].what = "upload" /\ Key(u) = k}

(* Both have begun, and neither had ended when the other did.               *)
Overlap(c, d) ==
  "idle" \notin {pc[c], pc[d]} /\ c \notin before[d] /\ d \notin before[c]

(* A download that returns something else than the whole file of one upload *)
(* under its key has read from the local provider, and from a file that an  *)
(* upload under the key left when it failed or died or its Close failed, or *)
(* that was written while it was read, or by two uploads at once.           *)
TornExplained ==
  \A d \in Calls :
    /\ call[d].what = "download" /\ pc[d] = "done"
    /\ \A u \in Uploaders(Key(d)) : got[d] # FileOf(u)
    =>
    /\ Local
    /\ \E u \in Uploaders(Key(d)) :
         \/ pc[u] \in {"failed", "gone", "short"}
         \/ Overlap(u, d)
         \/ \E x \in Uploaders(Key(d)) \ {u} : Overlap(u, x)

----------------------------------------------------------------------------
(* The inductive invariant behind LastWriteWins.                            *)

(* What before says of a call stays true.                                   *)
History ==
  \A c \in Calls :
    /\ \A x \in before[c] : Ended(x)
    /\ pc[c] = "idle" => before[c] = {} /\ c \notin stray

(* A file belongs to one key, whoever has it open.                          *)
FilesOfKey ==
  /\ \A k \in Keys : dir[k] # Nobody => Key(dir[k]) = k
  /\ \A c \in Calls : open[c] # Nobody => Key(open[c]) = Key(c)
  /\ \A c \in Calls : pc[c] = "copying" =>
       Local /\ open[c] # Nobody /\ call[c].what \in {"upload", "download"}
  /\ \A c \in Calls : pc[c] \in {"idle", "called"} => pos[c] = 0 /\ got[c] = Blank
  /\ \A c \in stray : ~ Local /\ c \in Writers(Key(c))

(* No other write on the key has begun since w did, or is on its way.       *)
Latest(w) ==
  \A x \in Writers(Key(w)) \ {w} : (x \in before[w] /\ x \notin stray) \/ pc[x] = "idle"

Prefix(w, p) == [n \in Places |-> IF n <= p THEN FileOf(w)[n] ELSE Nobody]

(* The latest write is what the key holds, as far as it has come.           *)
LatestStands ==
  \A w \in Calls : w \in Writers(Key(w)) /\ Latest(w) =>
    /\ pc[w] = "copying" => dir[Key(w)] = open[w] /\ data[open[w]] = Prefix(w, pos[w])
    /\ pc[w] = "done" =>
         IF call[w].what = "upload"
           THEN dir[Key(w)] # Nobody /\ data[dir[Key(w)]] = FileOf(w)
           ELSE dir[Key(w)] = Nobody

(* A download that began after it reads it.                                 *)
ReadsLatest ==
  \A w, d \in Calls :
    call[d].what = "download" /\ pc[d] = "copying" /\ LastWrite(w, d) /\ pc[w] = "done" =>
      /\ call[w].what = "upload"
      /\ open[d] = dir[Key(d)]
      /\ got[d] = Prefix(w, pos[d])

StorageInv ==
  TypeOK /\ History /\ FilesOfKey /\ LatestStands /\ ReadsLatest /\ LastWriteWins
====
