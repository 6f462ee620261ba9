---- MODULE AnswerProofs ----
(***************************************************************************)
(* What clients may conclude from the answers of the middleware on a key   *)
(* that nothing disturbed: that they agree, and that a refusal is earned;  *)
(* and where the documented promises that the code breaks do hold.  All    *)
(* rest on the invariants of IdempotencyProofs.                            *)
(***************************************************************************)
EXTENDS IdempotencyProofs

(* The whole body was read, or the key is disturbed.                        *)
BodyKept ==
  \A r \in Requests : op[r].key \notin disturbed => body[r] = op[r].body

(* An attempt that has missed finds the key still free when it saves.       *)
FreeUntilSaved ==
  \A r \in Requests :
    Keyed(r) /\ op[r].key \notin disturbed /\ pc[r] \in {"handle", "reply", "save"}
      => RowsOf(op[r].key) = {}

(* What c.Error was called for is answered by ErrorHandler, or by Recover.  *)
ErrorsOuter ==
  \A r \in Requests : pc[r] = "answered" /\ r \in errs => resp[r].kind \in OuterKinds

(* Behind an answer is a row: the answer itself, or that of another body.   *)
AnswerHasRow ==
  \A r \in Requests :
    /\ Keyed(r) /\ op[r].key \notin disturbed
    /\ pc[r] \in {"errors", "answered"}
    /\ r \notin errs /\ resp[r].kind \notin OuterKinds
    => \E row \in table :
         /\ row.key = op[r].key
         /\ IF resp[r].kind = "reused" THEN row.hash # body[r]
                                       ELSE row.hash = body[r] /\ row.resp = resp[r]

(* Who is refused has seen the row of an attempt with another body.         *)
ReuseWitnessed ==
  \A r \in Requests :
    resp[r].kind = "reused" =>
      \E q \in Requests :
        SameKey(q, r) /\ body[q] # body[r] /\ pc[q] \notin {"idle", "read"}

AnswerInv == BodyKept /\ FreeUntilSaved /\ ErrorsOuter /\ AnswerHasRow /\ ReuseWitnessed

----------------------------------------------------------------------------
(* A cut body disturbs the key; afterwards the body is fixed.               *)
LEMMA BodyKeptStep == TypeOK /\ BodyKept /\ [Next]_vars => BodyKept'
<1> SUFFICES ASSUME TypeOK, BodyKept, [Next]_vars, NEW r \in Requests,
                    op'[r].key \notin disturbed'
             PROVE  body'[r] = op'[r].body
  BY DEF BodyKept
<1>1. op' = op /\ body[r] = op[r].body
  BY Monotone DEF BodyKept
<1>2. CASE Receive(r)
  BY <1>1, <1>2 DEF Receive, Disturb, TypeOK
<1>3. CASE \E q \in Requests \ {r} : Receive(q)
  BY <1>1, <1>3 DEF Receive, TypeOK
<1>4. CASE UNCHANGED body
  BY <1>1, <1>4
<1> QED
  BY <1>2, <1>3, <1>4 DEF Next, Serve, Arrive, Replay, Refuse, Miss, LookupFails, Reject, Execute,
     ExecuteFails, Acknowledge, AcknowledgeLost, Panic, Save, SaveFails, SaveNull, Finish,
     Cancel, Crash, Tick, Ended, vars

(* A row of the key would have to come from another open attempt on it.     *)
LEMMA FreeStep == TypeOK /\ Alone /\ FreeUntilSaved /\ [Next]_vars => FreeUntilSaved'
<1> SUFFICES ASSUME TypeOK, Alone, FreeUntilSaved, [Next]_vars, NEW r \in Requests,
                    Keyed(r)', op'[r].key \notin disturbed', pc'[r] \in {"handle", "reply", "save"}
             PROVE  RowsOf(op[r].key)' = {}
  BY Monotone DEF FreeUntilSaved
<1>1. Keyed(r) /\ op[r].key \notin disturbed /\ op' = op
  BY Monotone DEF Keyed
<1>2. RowsOf(op[r].key) = {} /\ (pc[r] \in {"handle", "reply", "save"} \/ Miss(r))
  <2>1. CASE pc[r] \in {"handle", "reply", "save"}
    BY <1>1, <2>1 DEF FreeUntilSaved
  <2>2. CASE pc[r] \notin {"handle", "reply", "save"}
    <3>1. Arrive(r) \/ Receive(r) \/ Serve(r)
      BY <2>2, Moves
    <3>2. ~ Arrive(r) /\ ~ Receive(r)
      BY <1>1 DEF Arrive, Receive, Goto, TypeOK
    <3>3. ~ LookupFails(r)
      BY <1>1 DEF LookupFails, Disturb
    <3>4. Miss(r)
      BY <2>2, <3>1, <3>2, <3>3 DEF Serve, Replay, Refuse, Reject, Execute, ExecuteFails, Fail,
         Acknowledge, AcknowledgeLost, Panic, Save, SaveFails, SaveNull, Finish, Goto, TypeOK
    <3> QED
      BY <1>1, <3>4 DEF Miss, Disturb
  <2> QED
    BY <2>1, <2>2
<1>3. CASE table' = table
  BY <1>1, <1>2, <1>3 DEF RowsOf
<1>4. CASE table' # table
  <2>1. PICK q \in Requests : Save(q) /\ table' = table \union {Captured(q)}
    BY <1>4, TableChanges
  <2>2. Working(q) /\ pc'[q] = "errors"
    BY <2>1 DEF Save, Working, InFlight, Goto, TypeOK
  <2>3. q # r
    BY <2>2
  <2>4. Working(r)
    <3>1. pc'[r] = pc[r]
      BY <2>1, <2>3 DEF Save, Goto, TypeOK
    <3> QED
      BY <3>1 DEF Working, InFlight
  <2>5. op[q].key # op[r].key
    BY <1>1, <2>2, <2>3, <2>4 DEF Alone, SameKey, Keyed
  <2> QED
    BY <1>1, <1>2, <2>1, <2>5 DEF RowsOf, Captured
<1> QED
  BY <1>3, <1>4

(* ErrorHandler and Recover are the ways to an answer, and the last.        *)
LEMMA ErrorsStep == TypeOK /\ Written /\ ErrorsOuter /\ [Next]_vars => ErrorsOuter'
<1> SUFFICES ASSUME TypeOK, Written, ErrorsOuter, [Next]_vars, NEW r \in Requests,
                    pc'[r] = "answered", r \in errs'
             PROVE  resp'[r].kind \in OuterKinds
  BY DEF ErrorsOuter
<1>1. CASE Serve(r)
  <2>1. Panic(r) \/ Finish(r)
    BY <1>1 DEF Serve, Replay, Refuse, Miss, LookupFails, Reject, Execute, ExecuteFails, Fail,
       Acknowledge, AcknowledgeLost, Save, SaveFails, SaveNull, Goto, AfterHandler, TypeOK
  <2> QED
    BY <2>1 DEF Panic, Finish, Reported, OuterKinds, Write, Own, TypeOK
<1>2. CASE ~ Serve(r)
  <2>1. resp'[r] = resp[r] /\ r \in errs
    BY <1>2, NotServed
  <2>2. pc[r] = "answered"
    BY <1>2, Moves DEF Arrive, Receive, Goto, TypeOK
  <2> QED
    BY <2>1, <2>2 DEF ErrorsOuter
<1> QED
  BY <1>1, <1>2

(* An answer on an undisturbed key is saved, or comes from what was.        *)
LEMMA AnswerStep ==
  /\ TypeInv /\ Written /\ RowsCaptured /\ FreeUntilSaved /\ AnswerHasRow
  /\ [Next]_vars
  => AnswerHasRow'
<1> SUFFICES ASSUME TypeOK, Written, RowsCaptured, FreeUntilSaved, AnswerHasRow, [Next]_vars,
                    NEW r \in Requests,
                    Keyed(r)', op'[r].key \notin disturbed', pc'[r] \in {"errors", "answered"},
                    r \notin errs', resp'[r].kind \notin OuterKinds
             PROVE  \E row \in table' :
                      /\ row.key = op'[r].key
                      /\ IF resp'[r].kind = "reused" THEN row.hash # body'[r]
                           ELSE row.hash = body'[r] /\ row.resp = resp'[r]
  BY DEF AnswerHasRow, TypeInv
<1>1. Keyed(r) /\ op[r].key \notin disturbed /\ op' = op /\ table \subseteq table'
  BY Monotone DEF Keyed
<1>2. CASE ~ Serve(r)
  <2>1. resp'[r] = resp[r] /\ r \notin errs
    BY <1>2, NotServed
  <2>2. pc[r] = pc'[r]
    BY <1>2, Moves DEF Arrive, Receive, Goto, TypeOK
  <2>3. body'[r] = body[r]
    BY <2>2, BodyFixed
  <2> QED
    BY <1>1, <2>1, <2>2, <2>3 DEF AnswerHasRow
<1>3. CASE Replay(r)
  <2>1. PICK row \in table : row.key = op[r].key /\ row.hash = body[r] /\ Write(r, row.resp)
    BY <1>3 DEF Replay, Found, RowsOf, Matches
  <2>2. row.resp.kind # "reused" /\ resp'[r] = row.resp /\ body' = body
    BY <1>3, <2>1 DEF Replay, Write, RowsCaptured, TypeOK
  <2> QED
    BY <1>1, <2>1, <2>2
<1>4. CASE Refuse(r)
  <2>1. PICK row \in table : row.key = op[r].key /\ row.hash # body[r]
    BY <1>4 DEF Refuse, Found, RowsOf, Matches
  <2>2. resp'[r].kind = "reused" /\ body' = body
    BY <1>4 DEF Refuse, Write, Own, TypeOK
  <2> QED
    BY <1>1, <2>1, <2>2
<1>5. CASE Save(r)
  <2>1. pc[r] = "save" /\ UNCHANGED <<body, resp>>
    BY <1>5 DEF Save
  <2>2. table' = table \union {Captured(r)}
    BY <1>1, <1>5, <2>1 DEF Save, Inserted, Captured, FreeUntilSaved
  <2>3. resp[r].kind # "reused"
    BY <2>1 DEF Written
  <2>4. /\ Captured(r).key = op[r].key /\ Captured(r).hash = body[r]
        /\ Captured(r).resp = resp[r] /\ Captured(r) \in table'
    BY <2>2 DEF Captured
  <2> QED
    BY <1>1, <2>1, <2>3, <2>4
<1>6. CASE SaveFails(r)
  BY <1>1, <1>6 DEF SaveFails, Disturb
<1>7. CASE SaveNull(r)
  BY <1>7 DEF SaveNull, Written
<1>8. CASE Finish(r)
  <2>1. pc[r] = "errors" /\ r \notin errs /\ UNCHANGED <<body, resp>>
    BY <1>8 DEF Finish
  <2> QED
    BY <1>1, <2>1 DEF AnswerHasRow
<1>9. CASE Panic(r)
  BY <1>9 DEF Panic, OuterKinds, Write, Own, TypeOK
<1> QED
  BY <1>1, <1>2, <1>3, <1>4, <1>5, <1>6, <1>7, <1>8, <1>9 DEF Serve, Miss, LookupFails, Reject,
     Execute, ExecuteFails, Fail, Acknowledge, AcknowledgeLost, Goto, AfterHandler, Keyed, TypeOK

(* Bodies do not change once read, so whom a refusal accuses stays accused. *)
LEMMA ReuseStep ==
  TypeOK /\ Written /\ RowsCaptured /\ ReuseWitnessed /\ [Next]_vars => ReuseWitnessed'
<1> SUFFICES ASSUME TypeOK, Written, RowsCaptured, ReuseWitnessed, [Next]_vars,
                    NEW r \in Requests, resp'[r].kind = "reused"
             PROVE  \E q \in Requests : SameKey(q, r)' /\ body'[q] # body'[r] /\ pc'[q] \notin {"idle", "read"}
  BY DEF ReuseWitnessed
<1>1. op' = op
  BY Monotone
<1>2. ASSUME NEW q \in Requests, pc[q] \notin {"idle", "read"} PROVE pc'[q] \notin {"idle", "read"}
  BY <1>2, Moves DEF Serve, Arrive, Receive, Replay, Refuse, Miss, LookupFails, Reject, Execute,
     ExecuteFails, Fail, Acknowledge, AcknowledgeLost, Panic, Save, SaveFails, SaveNull, Finish,
     Goto, AfterHandler, TypeOK
<1>3. \E q \in Requests :
        /\ SameKey(q, r) /\ body[q] # body[r]
        /\ pc[q] \notin {"idle", "read"} /\ pc[r] \notin {"idle", "read"}
  <2>1. CASE resp[r].kind = "reused"
    <3>1. Own(r, "blank").kind = "blank"
      BY DEF Own
    <3>2. pc[r] \notin {"idle", "read"}
      BY <2>1, <3>1 DEF Written
    <3> QED
      BY <2>1, <3>2 DEF ReuseWitnessed
  <2>2. CASE resp[r].kind # "reused"
    <3>1. Serve(r)
      BY <2>2, NotServed
    <3>2. ~ Replay(r)
      <4>1. ASSUME NEW row \in table, Write(r, row.resp) PROVE FALSE
        BY <4>1 DEF Write, RowsCaptured, TypeOK
      <4> QED
        BY <4>1 DEF Replay, Found, RowsOf
    <3>3. ~ Finish(r)
      BY <2>2 DEF Finish, Reported, Write, Own, TypeOK
    <3>4. Refuse(r)
      BY <2>2, <3>1, <3>2, <3>3 DEF Serve, Miss, LookupFails, Reject, Execute, ExecuteFails, Fail,
         Acknowledge, AcknowledgeLost, Panic, Save, SaveFails, SaveNull, Write, Own, TypeOK
    <3>5. PICK row \in table : row.key = op[r].key /\ row.hash # body[r]
      BY <3>4 DEF Refuse, Found, RowsOf, Matches
    <3> DEFINE q == row.resp.of
    <3>6. q \in Requests /\ row.key \in Keys
      BY DEF TypeOK, Row, Response
    <3>7. op[q].key = row.key /\ body[q] = row.hash /\ pc[q] \notin {"idle", "read"}
      BY DEF RowsCaptured
    <3>8. SameKey(q, r)
      BY <3>5, <3>6, <3>7, IdempotencyAssumption DEF SameKey, Keyed
    <3>9. pc[r] \notin {"idle", "read"}
      BY <3>4 DEF Refuse
    <3> QED
      BY <3>5, <3>6, <3>7, <3>8, <3>9
  <2> QED
    BY <2>1, <2>2
<1>4. PICK q \in Requests :
        /\ SameKey(q, r) /\ body[q] # body[r]
        /\ pc[q] \notin {"idle", "read"} /\ pc[r] \notin {"idle", "read"}
  BY <1>3
<1>5. body'[q] = body[q] /\ body'[r] = body[r] /\ pc'[q] \notin {"idle", "read"} /\ SameKey(q, r)'
  BY <1>1, <1>2, <1>4, BodyFixed DEF SameKey, Keyed
<1> QED
  BY <1>4, <1>5

----------------------------------------------------------------------------
(* The invariant of answers holds in every environment.                     *)
THEOREM AnswerInvariant == Spec => []AnswerInv
<1>1. Init => AnswerInv
  BY DEF Init, AnswerInv, BodyKept, FreeUntilSaved, ErrorsOuter, AnswerHasRow, ReuseWitnessed, Own
<1>2. AnswerInv /\ ProtectionInv /\ ReplayInv /\ [Next]_vars => AnswerInv'
  BY BodyKeptStep, FreeStep, ErrorsStep, AnswerStep, ReuseStep
     DEF AnswerInv, ProtectionInv, ReplayInv, TypeInv
<1> QED
  BY <1>1, <1>2, Protection, ReplayInvariant, PTL DEF Spec

(* Every reachable state is well typed.                                     *)
THEOREM WellTyped == Spec => []TypeOK
<1>1. TypeInv => TypeOK
  BY DEF TypeInv
<1> QED
  BY <1>1, Typing, PTL

(* On a key that nothing disturbed, clients that send the same body get one *)
(* answer, errors reported by c.Error and panics aside, or are all refused, *)
(* whoever of them ran the handler and however many replays there were.     *)
THEOREM AnswersAgree == Spec => []SameAnswer
<1>1. AnswerInv /\ ReplayInv => SameAnswer
  <2> SUFFICES ASSUME AnswerInv, ReplayInv, NEW q \in Requests, NEW r \in Requests,
                      SameKey(q, r), op[r].key \notin disturbed, op[q].body = op[r].body,
                      pc[q] = "answered", pc[r] = "answered",
                      resp[q].kind \notin OuterKinds, resp[r].kind \notin OuterKinds
               PROVE  \/ resp[q] = resp[r]
                      \/ resp[q].kind = "reused" /\ resp[r].kind = "reused"
    BY DEF SameAnswer
  <2>1. Keyed(q) /\ Keyed(r) /\ op[q].key = op[r].key /\ body[q] = body[r]
    BY DEF SameKey, Keyed, AnswerInv, BodyKept
  <2>2. q \notin errs /\ r \notin errs
    BY DEF AnswerInv, ErrorsOuter
  <2>3. PICK m \in table :
          /\ m.key = op[q].key
          /\ IF resp[q].kind = "reused" THEN m.hash # body[q] ELSE m.hash = body[q] /\ m.resp = resp[q]
    BY <2>1, <2>2 DEF AnswerInv, AnswerHasRow
  <2>4. PICK n \in table :
          /\ n.key = op[r].key
          /\ IF resp[r].kind = "reused" THEN n.hash # body[r] ELSE n.hash = body[r] /\ n.resp = resp[r]
    BY <2>1, <2>2 DEF AnswerInv, AnswerHasRow
  <2>5. m = n
    BY <2>1, <2>3, <2>4 DEF ReplayInv, PrimaryKey
  <2> QED
    BY <2>1, <2>3, <2>4, <2>5
<1> QED
  BY <1>1, AnswerInvariant, ReplayInvariant, PTL

(* In every environment, nobody is told IDEMPOTENCY_KEY_REUSED unless a      *)
(* client did send another body under the key, or a body was cut.           *)
THEOREM RefusedOnlyForReuse == Spec => []RefusedOnlyOnReuse
<1>1. AnswerInv => RefusedOnlyOnReuse
  <2> SUFFICES ASSUME AnswerInv, NEW r \in Requests, resp[r].kind = "reused"
               PROVE  \E q \in Requests \ {r} :
                        /\ SameKey(q, r) /\ pc[q] \notin {"idle", "read"}
                        /\ op[q].body # op[r].body \/ Cut(q) \/ Cut(r)
    BY DEF RefusedOnlyOnReuse
  <2>1. PICK q \in Requests : SameKey(q, r) /\ body[q] # body[r] /\ pc[q] \notin {"idle", "read"}
    BY DEF AnswerInv, ReuseWitnessed
  <2>2. op[q].body # op[r].body \/ Cut(q) \/ Cut(r)
    BY <2>1 DEF Cut
  <2> QED
    BY <2>1, <2>2
<1> QED
  BY <1>1, AnswerInvariant, PTL

----------------------------------------------------------------------------
(* Where the documented promises hold.  AtMostOnce, FailsClosed, SavedIsLive *)
(* and CachedAnswer are each violated in a run; what that run needs, and    *)
(* only that, is excluded by the assumptions of the theorems below.         *)

(* A row lives for TTL from a moment that is not before the first.          *)
Clocked == now \in 0..MaxTime /\ \A row \in table : row.expires >= TTL

LEMMA ClockedThroughout == Spec => []Clocked
<1>1. Init => Clocked
  BY IdempotencyAssumption DEF Init, Clocked
<1>2. Clocked /\ [Next]_vars => Clocked'
  <2> SUFFICES ASSUME Clocked, [Next]_vars PROVE Clocked'
    OBVIOUS
  <2>1. now' \in 0..MaxTime
    <3>1. CASE Tick
      BY <3>1, IdempotencyAssumption DEF Clocked, Tick
    <3>2. CASE ~ Tick
      <4>1. now' = now
        BY <3>2 DEF Next, Serve, Arrive, Receive, Replay, Refuse, Miss, LookupFails, Reject,
           Execute, ExecuteFails, Acknowledge, AcknowledgeLost, Panic, Save, SaveFails, SaveNull, Finish,
           Cancel, Crash, Ended, vars
      <4> QED
        BY <4>1 DEF Clocked
    <3> QED
      BY <3>1, <3>2
  <2>2. ASSUME NEW row \in table' PROVE row.expires >= TTL
    <3>1. CASE table' = table
      BY <3>1 DEF Clocked
    <3>2. CASE table' # table
      <4>1. PICK r \in Requests : table' = table \union {Captured(r)}
        BY <3>2, TableChanges
      <4>2. Captured(r).expires >= TTL
        BY IdempotencyAssumption DEF Captured, Clocked
      <4> QED
        BY <4>1, <4>2 DEF Clocked
    <3> QED
      BY <3>1, <3>2
  <2> QED
    BY <2>1, <2>2 DEF Clocked
<1> QED
  BY <1>1, <1>2, PTL DEF Spec

LEMMA NoneExpired ==
  ASSUME Clocked, MaxTime < TTL, NEW row \in table, row.expires \in Nat
  PROVE  row.expires > now
BY IdempotencyAssumption DEF Clocked

(* "store the response against the key for 48 hours" (idempotency.go:6-7):  *)
(* true of every Save, under all faults, until the first row expires.       *)
THEOREM SavedIsLiveUntilExpiry ==
  ASSUME MaxTime < TTL
  PROVE  Spec => SavedIsLive
<1> DEFINE Live == \A r \in Requests :
             Save(r) => \E row \in table' : row.key = op[r].key /\ row.expires > now
<1>1. TypeOK /\ Clocked /\ [Next]_vars => [Live]_vars
  <2> SUFFICES ASSUME TypeOK, Clocked, NEW r \in Requests, Save(r)
               PROVE  \E row \in table' : row.key = op[r].key /\ row.expires > now
    OBVIOUS
  <2>1. CASE RowsOf(op[r].key) = {}
    <3>1. Captured(r) \in table' /\ Captured(r).key = op[r].key
      BY <2>1 DEF Save, Inserted, Captured
    <3>2. Captured(r).expires > now
      BY IdempotencyAssumption DEF Captured, TypeOK
    <3> QED
      BY <3>1, <3>2
  <2>2. CASE RowsOf(op[r].key) # {}
    <3>1. PICK row \in table : row.key = op[r].key
      BY <2>2 DEF RowsOf
    <3>2. row \in table'
      BY <3>1 DEF Save, Inserted
    <3>3. row.expires > now
      BY NoneExpired DEF TypeOK, Row
    <3> QED
      BY <3>1, <3>2, <3>3
  <2> QED
    BY <2>1, <2>2
<1>2. SavedIsLive <=> [][Live]_vars
  BY DEF SavedIsLive
<1> HIDE DEF Live
<1> QED
  BY <1>1, <1>2, WellTyped, ClockedThroughout, PTL DEF Spec

(* Nobody's context ends early if clients do not go away.                   *)
LEMMA NobodyCancelled ==
  ASSUME "cancel" \notin Faults
  PROVE  Spec => [](cancelled = {})
<1>1. Init => cancelled = {}
  BY DEF Init
<1>2. cancelled = {} /\ [Next]_vars => (cancelled = {})'
  BY DEF Next, Serve, Arrive, Receive, Replay, Refuse, Miss, LookupFails, Reject, Execute,
     ExecuteFails, Acknowledge, AcknowledgeLost, Panic, Save, SaveFails, SaveNull, Finish,
     Cancel, Crash, Tick, Ended, vars
<1> QED
  BY <1>1, <1>2, PTL DEF Spec

(* "FAILS CLOSED" (idempotency.go:17-18): true as long as Get has no reason *)
(* to fail, which is when the words promise nothing.                        *)
THEOREM FailsClosedIfGetWorks ==
  ASSUME Faults \intersect {"db", "cancel"} = {}
  PROVE  Spec => FailsClosed
<1> DEFINE Closed == \A r \in Requests : pc[r] = "get" /\ pc'[r] = "handle" => Found(r) = {}
<1>1. TypeOK /\ cancelled = {} /\ [Next]_vars => [Closed]_vars
  <2> SUFFICES ASSUME TypeOK, cancelled = {}, [Next]_vars, NEW r \in Requests,
                      pc[r] = "get", pc'[r] = "handle"
               PROVE  Found(r) = {}
    OBVIOUS
  <2>1. Serve(r)
    BY Moves DEF Arrive, Receive
  <2>2. Miss(r) \/ LookupFails(r)
    BY <2>1 DEF Serve, Replay, Refuse, Reject, Execute, ExecuteFails, Acknowledge,
       AcknowledgeLost, Panic, Save, SaveFails, SaveNull, Finish, Goto, TypeOK
  <2> QED
    BY <2>2 DEF Miss, LookupFails
<1>2. FailsClosed <=> [][Closed]_vars
  BY DEF FailsClosed
<1>3. Spec => [](cancelled = {})
  BY NobodyCancelled
<1> HIDE DEF Closed
<1> QED
  BY <1>1, <1>2, <1>3, WellTyped, PTL DEF Spec

(* Clients that take turns have one attempt open on a key.                  *)
Turns ==
  \A q, r \in Requests : SameKey(q, r) /\ InFlight(q) /\ InFlight(r) => q = r

LEMMA TurnsTaken ==
  ASSUME "cancel" \notin Faults, ~ Overlap
  PROVE  Spec => []Turns
<1>1. Init => Turns
  BY DEF Init, Turns, InFlight
<1>2. TypeOK /\ cancelled = {} /\ Turns /\ [Next]_vars => Turns'
  <2> SUFFICES ASSUME TypeOK, cancelled = {}, Turns, [Next]_vars,
                      NEW q \in Requests, NEW r \in Requests,
                      SameKey(q, r)', InFlight(q)', InFlight(r)', q # r
               PROVE  FALSE
    BY DEF Turns
  <2>1. SameKey(q, r) /\ SameKey(r, q)
    BY Monotone DEF SameKey, Keyed
  <2>2. ASSUME NEW x \in Requests, NEW y \in Requests, x # y, SameKey(y, x),
               InFlight(x)', InFlight(y)', ~ InFlight(x)
        PROVE  FALSE
    <3>1. Arrive(x)
      BY <2>2, Moves DEF Serve, Receive, Replay, Refuse, Miss, LookupFails, Reject, Execute,
         ExecuteFails, Acknowledge, AcknowledgeLost, Panic, Save, SaveFails, SaveNull, Finish,
         InFlight
    <3>2. InFlight(y)
      BY <2>2, <3>1 DEF Arrive, Goto, InFlight, TypeOK
    <3> QED
      BY <2>2, <3>1, <3>2 DEF Arrive
  <2>3. InFlight(q) /\ InFlight(r)
    BY <2>1, <2>2
  <2> QED
    BY <2>1, <2>3 DEF Turns
<1>3. Spec => [](cancelled = {})
  BY NobodyCancelled
<1> QED
  BY <1>1, <1>2, <1>3, WellTyped, PTL DEF Spec

(* Without faults, overlapping attempts and expired rows only a key that    *)
(* the table cannot hold is ever disturbed.                                 *)
LEMMA OnlyUnfitDisturbed ==
  ASSUME Faults = {}, ~ Overlap, MaxTime < TTL
  PROVE  Spec => [](disturbed \subseteq Unfit)
<1>1. Init => disturbed \subseteq Unfit
  BY DEF Init
<1>2. /\ TypeOK /\ Clocked /\ Turns /\ cancelled = {} /\ disturbed \subseteq Unfit
      /\ [Next]_vars
      => (disturbed \subseteq Unfit)'
  <2> SUFFICES ASSUME TypeOK, Clocked, Turns, cancelled = {}, disturbed \subseteq Unfit,
                      [Next]_vars
               PROVE  disturbed' \subseteq Unfit
    OBVIOUS
  <2>1. ASSUME NEW r \in Requests, Receive(r) PROVE disturbed' \subseteq Unfit
    <3>1. ASSUME NEW q \in Requests, SameKey(q, r), Working(q) PROVE FALSE
      <4>1. q = r
        BY <2>1, <3>1 DEF Turns, Receive, Working, InFlight
      <4> QED
        BY <2>1, <3>1, <4>1 DEF Receive, Working
    <3> QED
      BY <2>1, <3>1 DEF Receive
  <2>2. ASSUME NEW r \in Requests, Miss(r) PROVE disturbed' \subseteq Unfit
    <3>1. RowsOf(op[r].key) = {}
      <4> SUFFICES ASSUME NEW row \in RowsOf(op[r].key) PROVE FALSE
        OBVIOUS
      <4>1. row \in table /\ row.expires \in Nat
        BY DEF RowsOf, TypeOK, Row
      <4>2. row.expires > now
        BY <4>1, NoneExpired
      <4> QED
        BY <2>2, <4>2 DEF Miss, Found
    <3> QED
      BY <2>2, <3>1 DEF Miss
  <2>3. ASSUME NEW r \in Requests, SaveFails(r) PROVE disturbed' \subseteq Unfit
    BY <2>3 DEF SaveFails, Disturb
  <2>4. ASSUME NEW r \in Requests,
               LookupFails(r) \/ AcknowledgeLost(r) \/ Panic(r) \/ Cancel(r) \/ Crash
        PROVE  FALSE
    BY <2>4 DEF LookupFails, AcknowledgeLost, CallMayFail, BackendFault, Panic, Cancel, Crash
  <2>5. ASSUME Crash PROVE FALSE
    BY <2>5 DEF Crash
  <2>6. ASSUME NEW r \in Requests,
               \/ Arrive(r) \/ Replay(r) \/ Refuse(r) \/ Reject(r) \/ Execute(r)
               \/ ExecuteFails(r) \/ Acknowledge(r) \/ Save(r) \/ SaveNull(r) \/ Finish(r)
        PROVE  disturbed' \subseteq Unfit
    BY <2>6 DEF Arrive, Replay, Refuse, Reject, Execute, ExecuteFails, Acknowledge, Save, SaveNull,
       Finish
  <2>7. ASSUME Tick \/ Ended \/ UNCHANGED vars PROVE disturbed' \subseteq Unfit
    BY <2>7 DEF Tick, Ended, vars
  <2> QED
    BY <2>1, <2>2, <2>3, <2>4, <2>5, <2>6, <2>7 DEF Next, Serve
<1>3. Spec => [](cancelled = {})
  BY NobodyCancelled
<1>4. Spec => []Turns
  BY TurnsTaken
<1> QED
  BY <1>1, <1>2, <1>3, <1>4, WellTyped, ClockedThroughout, PTL DEF Spec

(* AtMostOnce and CachedAnswer of the keys that the table can hold.         *)
OnceIfFit ==
  \A q, r \in effects : SameKey(q, r) /\ op[r].key \notin Unfit => q = r

CachedIfFit ==
  \A q, r \in Requests :
    /\ SameKey(q, r) /\ op[r].key \notin Unfit /\ op[q].body = op[r].body
    /\ pc[q] = "answered" /\ pc[r] = "answered"
    => \/ resp[q] = resp[r]
       \/ resp[q].kind = "reused" /\ resp[r].kind = "reused"

(* "the request is NOT processed again" (idempotency.go:8-9): true if       *)
(* clients wait for an answer before they try again, nothing fails, no      *)
(* attempt comes after the 48 hours, and the key fits its column; without   *)
(* the last, idem_longkey shows two effects.                                *)
THEOREM OnceIfClientsTakeTurns ==
  ASSUME Faults = {}, ~ Overlap, MaxTime < TTL
  PROVE  Spec => []OnceIfFit
<1>1. AtMostOnceUndisturbed /\ disturbed \subseteq Unfit => OnceIfFit
  BY DEF AtMostOnceUndisturbed, OnceIfFit
<1>2. Spec => [](disturbed \subseteq Unfit)
  BY OnlyUnfitDisturbed
<1> QED
  BY <1>1, <1>2, OnceOnAnUndisturbedKey, PTL

(* Nothing is given to c.Error if nothing fails and Postgres takes every    *)
(* body that binds.                                                         *)
Errorless == errs = {} /\ \A r \in Requests : resp[r].kind \notin OuterKinds

LEMMA NoErrors ==
  ASSUME Faults = {}, \A e \in Endpoints : \A b \in Bodies : Verdict[e][b] # "refused"
  PROVE  Spec => []Errorless
<1>1. Init => Errorless
  BY DEF Init, Errorless, OuterKinds, Own
<1>2. TypeOK /\ RowsCaptured /\ cancelled = {} /\ Errorless /\ [Next]_vars => Errorless'
  <2> SUFFICES ASSUME TypeOK, RowsCaptured, cancelled = {}, Errorless, [Next]_vars
               PROVE  Errorless'
    OBVIOUS
  <2>1. ASSUME NEW r \in Requests,
               \/ ExecuteFails(r) \/ AcknowledgeLost(r) \/ Panic(r)
        PROVE  FALSE
    <3>1. VerdictOf(r) # "refused" /\ ~ CallMayFail(r)
      BY DEF VerdictOf, CallMayFail, BackendFault, TypeOK, Operation
    <3> QED
      BY <2>1, <3>1 DEF ExecuteFails, AcknowledgeLost, Panic
  <2>2. ASSUME NEW r \in Requests, Replay(r) PROVE Errorless'
    <3>1. PICK row \in table : resp' = [resp EXCEPT ![r] = row.resp]
      BY <2>2 DEF Replay, Write, Found, RowsOf
    <3>2. row.resp.kind \notin OuterKinds
      BY DEF RowsCaptured, OuterKinds
    <3> QED
      BY <2>2, <3>1, <3>2 DEF Errorless, Replay, TypeOK
  <2>3. ASSUME NEW r \in Requests, NEW kind \in Kinds \ OuterKinds,
               Write(r, Own(r, kind)), errs' = errs
        PROVE  Errorless'
    BY <2>3 DEF Errorless, Write, Own, TypeOK
  <2>4. ASSUME NEW r \in Requests, Refuse(r) \/ Reject(r) \/ Acknowledge(r) PROVE Errorless'
    BY <2>3, <2>4 DEF Refuse, Reject, Acknowledge, Kinds, OuterKinds
  <2>5. ASSUME NEW r \in Requests, Finish(r) PROVE Errorless'
    BY <2>5 DEF Finish, Errorless
  <2>6. CASE errs' = errs /\ resp' = resp
    BY <2>6 DEF Errorless
  <2> QED
    BY <2>1, <2>2, <2>4, <2>5, <2>6 DEF Next, Serve, Arrive, Receive, Miss, LookupFails, Execute,
       Save, SaveFails, SaveNull, Cancel, Crash, Tick, Ended, vars
<1>3. Spec => [](cancelled = {})
  BY NobodyCancelled
<1>4. ReplayInv => RowsCaptured
  BY DEF ReplayInv
<1> QED
  BY <1>1, <1>2, <1>3, <1>4, WellTyped, ReplayInvariant, PTL DEF Spec

(* "the SAME body, we return the cached response" (idempotency.go:8-9):     *)
(* true if, besides, the service never reports an error by c.Error.         *)
THEOREM CachedIfNoErrors ==
  ASSUME Faults = {}, ~ Overlap, MaxTime < TTL,
         \A e \in Endpoints : \A b \in Bodies : Verdict[e][b] # "refused"
  PROVE  Spec => []CachedIfFit
<1>1. SameAnswer /\ disturbed \subseteq Unfit /\ Errorless => CachedIfFit
  BY DEF SameAnswer, Errorless, CachedIfFit
<1>2. Spec => [](disturbed \subseteq Unfit)
  BY OnlyUnfitDisturbed
<1>3. Spec => []Errorless
  BY NoErrors
<1> QED
  BY <1>1, <1>2, <1>3, AnswersAgree, PTL
====
