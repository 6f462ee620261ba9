---- MODULE IdempotencyProofs ----
(***************************************************************************)
(* What the runs of MCIdempotency show on two or three attempts, proved    *)
(* for every set of attempts, keys and bodies, every TTL, every clock      *)
(* bound and every set of faults.                                          *)
(***************************************************************************)
EXTENDS Idempotency, TLAPS

(* An attempt asks on a key, or on none.                                    *)
LEMMA KeyType ==
  ASSUME TypeOK, NEW r \in Requests
  PROVE  op[r].key \in Keys \union {NoKey}
BY DEF TypeOK, Operation

(* A response of one's own is a response.                                   *)
LEMMA OwnType ==
  ASSUME NEW r \in Requests, NEW kind \in Kinds
  PROVE  Own(r, kind) \in Response
BY DEF Own, Response

(* Writing a response keeps the type of resp.                               *)
LEMMA WriteType ==
  ASSUME TypeOK, NEW r \in Requests, NEW a \in Response, Write(r, a)
  PROVE  resp' \in [Requests -> Response]
BY DEF TypeOK, Write

(* Moving an attempt to a label keeps the type of pc.                       *)
LEMMA GotoType ==
  ASSUME TypeOK, NEW r \in Requests, NEW l \in Labels, Goto(r, l)
  PROVE  pc' \in [Requests -> Labels]
BY DEF TypeOK, Goto

(* Disturbing the keys of some attempts keeps the type of disturbed.        *)
LEMMA DisturbType ==
  ASSUME TypeOK, NEW S \in SUBSET Requests, Disturb(S)
  PROVE  disturbed' \subseteq Keys \union {NoKey}
BY KeyType DEF TypeOK, Disturb

(* A handler that fails leaves well-typed errs, resp and pc behind.         *)
LEMMA FailType ==
  ASSUME TypeOK, NEW r \in Requests, Fail(r)
  PROVE  /\ errs' \subseteq Requests
         /\ resp' \in [Requests -> Response]
         /\ pc' \in [Requests -> Labels]
<1>1. Own(r, "failed") \in Response
  BY OwnType DEF Kinds
<1>2. resp' \in [Requests -> Response] /\ errs' \subseteq Requests
  <2>1. CASE op[r].endpoint = "todos"
    BY <2>1 DEF Fail, TypeOK
  <2>2. CASE op[r].endpoint # "todos"
    BY <1>1, <2>2, WriteType DEF Fail, TypeOK
  <2> QED BY <2>1, <2>2
<1>3. AfterHandler(r) \in Labels
  BY DEF AfterHandler, Labels
<1> QED
  BY <1>2, <1>3, GotoType DEF Fail

(* Initially every variable has its type.                                   *)
LEMMA TypeInit == Init => TypeOK
<1> SUFFICES ASSUME Init PROVE TypeOK
  OBVIOUS
<1>1. body \in [Requests -> Bodies]
  BY DEF Init, Operation
<1>2. resp \in [Requests -> Response]
  BY OwnType DEF Init, Kinds
<1> QED
  BY <1>1, <1>2 DEF Init, TypeOK, Labels

(* Every step keeps every variable within its type.                         *)
LEMMA TypeStep == TypeInv /\ [Next]_vars => TypeOK'
<1> SUFFICES ASSUME TypeOK, KeyedInside, [Next]_vars PROVE TypeOK'
  BY DEF TypeInv
<1>1. ASSUME NEW r \in Requests, Receive(r) PROVE TypeOK'
  <2>1. body' \in [Requests -> Bodies]
    BY <1>1, IdempotencyAssumption DEF Receive, TypeOK, Operation
  <2>2. pc' \in [Requests -> Labels]
    BY <1>1, GotoType DEF Receive, Labels
  <2>3. disturbed' \subseteq Keys \union {NoKey}
    BY <1>1, DisturbType DEF Receive, TypeOK
  <2> QED
    BY <1>1, <2>1, <2>2, <2>3 DEF Receive, TypeOK
<1>2. ASSUME NEW r \in Requests, Replay(r) PROVE TypeOK'
  <2>1. PICK row \in table : Write(r, row.resp)
    BY <1>2 DEF Replay, Found, RowsOf
  <2>2. row.resp \in Response
    BY <2>1 DEF TypeOK, Row
  <2>3. resp' \in [Requests -> Response]
    BY <2>1, <2>2, WriteType
  <2>4. pc' \in [Requests -> Labels]
    BY <1>2, GotoType DEF Replay, Labels
  <2> QED
    BY <1>2, <2>3, <2>4 DEF Replay, TypeOK
<1>3. ASSUME NEW r \in Requests, Refuse(r) PROVE TypeOK'
  <2>1. resp' \in [Requests -> Response]
    BY <1>3, OwnType, WriteType DEF Refuse, Kinds
  <2>2. pc' \in [Requests -> Labels]
    BY <1>3, GotoType DEF Refuse, Labels
  <2> QED
    BY <1>3, <2>1, <2>2 DEF Refuse, TypeOK
<1>4. ASSUME NEW r \in Requests, Miss(r) PROVE TypeOK'
  <2>1. pc' \in [Requests -> Labels]
    BY <1>4, GotoType DEF Miss, Labels
  <2>2. disturbed' \subseteq Keys \union {NoKey}
    BY <1>4, DisturbType DEF Miss, TypeOK
  <2> QED
    BY <1>4, <2>1, <2>2 DEF Miss, TypeOK
<1>5. ASSUME NEW r \in Requests, LookupFails(r) PROVE TypeOK'
  <2>1. pc' \in [Requests -> Labels]
    BY <1>5, GotoType DEF LookupFails, Labels
  <2>2. disturbed' \subseteq Keys \union {NoKey}
    BY <1>5, DisturbType DEF LookupFails, TypeOK
  <2> QED
    BY <1>5, <2>1, <2>2 DEF LookupFails, TypeOK
<1>6. ASSUME NEW r \in Requests, Reject(r) PROVE TypeOK'
  <2>1. resp' \in [Requests -> Response]
    BY <1>6, OwnType, WriteType DEF Reject, Kinds
  <2>2. pc' \in [Requests -> Labels]
    BY <1>6, GotoType DEF Reject, Labels, AfterHandler
  <2> QED
    BY <1>6, <2>1, <2>2 DEF Reject, TypeOK
<1>7. ASSUME NEW r \in Requests, Execute(r) PROVE TypeOK'
  <2>1. pc' \in [Requests -> Labels]
    BY <1>7, GotoType DEF Execute, Labels
  <2> QED
    BY <1>7, <2>1 DEF Execute, TypeOK
<1>8. ASSUME NEW r \in Requests, ExecuteFails(r) PROVE TypeOK'
  BY <1>8, FailType DEF ExecuteFails, TypeOK
<1>9. ASSUME NEW r \in Requests, Acknowledge(r) PROVE TypeOK'
  <2>1. resp' \in [Requests -> Response]
    BY <1>9, OwnType, WriteType DEF Acknowledge, Kinds
  <2>2. pc' \in [Requests -> Labels]
    BY <1>9, GotoType DEF Acknowledge, Labels, AfterHandler
  <2> QED
    BY <1>9, <2>1, <2>2 DEF Acknowledge, TypeOK
<1>10. ASSUME NEW r \in Requests, AcknowledgeLost(r) PROVE TypeOK'
  <2>1. disturbed' \subseteq Keys \union {NoKey}
    BY <1>10, DisturbType DEF AcknowledgeLost, TypeOK
  <2> QED
    BY <1>10, <2>1, FailType DEF AcknowledgeLost, TypeOK
<1>11. ASSUME NEW r \in Requests, Panic(r) PROVE TypeOK'
  <2>1. resp' \in [Requests -> Response]
    BY <1>11, OwnType, WriteType DEF Panic, Kinds
  <2>2. pc' \in [Requests -> Labels]
    BY <1>11, GotoType DEF Panic, Labels
  <2>3. disturbed' \subseteq Keys \union {NoKey}
    BY <1>11, DisturbType DEF Panic, TypeOK
  <2> QED
    BY <1>11, <2>1, <2>2, <2>3 DEF Panic, TypeOK
<1>12. ASSUME NEW r \in Requests, Save(r) PROVE TypeOK'
  <2>1. pc' \in [Requests -> Labels]
    BY <1>12, GotoType DEF Save, Labels
  <2>2. table' \subseteq Row
    <3>1. CASE RowsOf(op[r].key) # {}
      BY <1>12, <3>1 DEF Save, Inserted, Captured, TypeOK
    <3>2. CASE RowsOf(op[r].key) = {}
      <4>1. table' = table \union {Captured(r)}
        BY <1>12, <3>2 DEF Save, Inserted, Captured
      <4>2. op[r].key \in Keys
        BY <1>12, KeyType DEF Save, KeyedInside, Keyed
      <4>3. body[r] \in Bodies /\ resp[r] \in Response /\ now + TTL \in Nat
        BY IdempotencyAssumption DEF TypeOK
      <4>4. Captured(r) \in Row
        BY <4>2, <4>3 DEF Row, Captured
      <4> QED BY <4>1, <4>4 DEF TypeOK
    <3> QED BY <3>1, <3>2
  <2> QED
    BY <1>12, <2>1, <2>2 DEF Save, TypeOK
<1>13. ASSUME NEW r \in Requests, SaveFails(r) PROVE TypeOK'
  <2>1. pc' \in [Requests -> Labels]
    BY <1>13, GotoType DEF SaveFails, Labels
  <2>2. disturbed' \subseteq Keys \union {NoKey}
    BY <1>13, DisturbType DEF SaveFails, TypeOK
  <2> QED
    BY <1>13, <2>1, <2>2 DEF SaveFails, TypeOK
<1>14. ASSUME NEW r \in Requests, SaveNull(r) PROVE TypeOK'
  <2>1. pc' \in [Requests -> Labels]
    BY <1>14, GotoType DEF SaveNull, Labels
  <2> QED
    BY <1>14, <2>1 DEF SaveNull, TypeOK
<1>15. ASSUME NEW r \in Requests, Finish(r) PROVE TypeOK'
  <2>1. resp' \in [Requests -> Response]
    <3>1. CASE r \in errs
      <4>1. PICK kind \in Kinds : Write(r, Own(r, kind))
        BY <1>15, <3>1 DEF Finish, Reported, Kinds
      <4> QED
        BY <4>1, OwnType, WriteType
    <3>2. CASE r \notin errs
      BY <1>15, <3>2 DEF Finish, TypeOK
    <3> QED
      BY <3>1, <3>2
  <2>2. pc' \in [Requests -> Labels]
    BY <1>15, GotoType DEF Finish, Labels
  <2> QED
    BY <1>15, <2>1, <2>2 DEF Finish, TypeOK
<1>16. ASSUME NEW r \in Requests, Cancel(r) PROVE TypeOK'
  BY <1>16 DEF Cancel, TypeOK
<1>17. CASE Crash
  <2>1. pc' \in [Requests -> Labels]
    BY <1>17 DEF Crash, TypeOK, Labels
  <2>2. disturbed' \subseteq Keys \union {NoKey}
    BY <1>17, DisturbType DEF Crash
  <2> QED
    BY <1>17, <2>1, <2>2 DEF Crash, TypeOK
<1>18. CASE Tick
  BY <1>18 DEF Tick, TypeOK
<1>19. CASE UNCHANGED vars
  BY <1>19 DEF vars, TypeOK
<1>20. ASSUME NEW r \in Requests, Arrive(r) PROVE TypeOK'
  <2>1. pc' \in [Requests -> Labels]
    BY <1>20, GotoType DEF Arrive, Labels
  <2> QED
    BY <1>20, <2>1 DEF Arrive, TypeOK
<1> QED
  BY <1>20, <1>1, <1>2, <1>3, <1>4, <1>5, <1>6, <1>7, <1>8, <1>9, <1>10, <1>11, <1>12,
     <1>13, <1>14, <1>15, <1>16, <1>17, <1>18, <1>19 DEF Next, Serve, Ended

(* An attempt without a key never gets to the middleware's own steps.       *)
LEMMA KeyedStep == TypeInv /\ [Next]_vars => KeyedInside'
<1> SUFFICES ASSUME TypeOK, KeyedInside, [Next]_vars PROVE KeyedInside'
  BY DEF TypeInv
<1>1. op' = op
  BY DEF Next, Serve, Ended, vars, Arrive, Receive, Replay, Refuse, Miss, LookupFails, Reject, Execute,
         ExecuteFails, Acknowledge, AcknowledgeLost, Panic, Save, SaveFails, SaveNull, Finish,
         Cancel, Crash, Tick
<1>2. SUFFICES ASSUME NEW q \in Requests, pc'[q] \in {"get", "save"}, pc'[q] # pc[q]
               PROVE  Keyed(q)
  BY <1>1 DEF KeyedInside, Keyed
<1>3. CASE \E r \in Requests : Arrive(r) \/ Receive(r) \/ Serve(r)
  <2>1. PICK r \in Requests : Arrive(r) \/ Receive(r) \/ Serve(r)
    BY <1>3
  <2>2. PICK l : Goto(r, l) /\ (l \in {"get", "save"} => Keyed(r))
    BY <2>1 DEF Serve, Arrive, Receive, Replay, Refuse, Miss, LookupFails, Reject, Execute, ExecuteFails,
         Fail, Acknowledge, AcknowledgeLost, Panic, Save, SaveFails, SaveNull, Finish, AfterHandler
  <2> QED
    BY <1>2, <2>2 DEF Goto, TypeOK
<1>4. CASE Crash
  BY <1>2, <1>4 DEF Crash, TypeOK
<1>5. CASE UNCHANGED pc
  BY <1>2, <1>5
<1> QED
  BY <1>3, <1>4, <1>5 DEF Next, Cancel, Tick, Ended, vars

(* Every reachable state is well typed, and the middleware only ever looks  *)
(* up and saves under a key.                                                *)
THEOREM Typing == Spec => []TypeInv
<1>1. Init => TypeInv
  BY TypeInit DEF Init, TypeInv, KeyedInside
<1>2. TypeInv /\ [Next]_vars => TypeInv'
  BY TypeStep, KeyedStep DEF TypeInv
<1> QED
  BY <1>1, <1>2, PTL DEF Spec

----------------------------------------------------------------------------
(* What a step may change.                                                  *)

(* What an attempt asks is fixed; rows, effects and disturbed keys stay.    *)
LEMMA Monotone ==
  [Next]_vars => /\ op' = op
                 /\ table \subseteq table'
                 /\ effects \subseteq effects'
                 /\ disturbed \subseteq disturbed'
<1> SUFFICES ASSUME [Next]_vars
             PROVE  /\ op' = op /\ table \subseteq table'
                    /\ effects \subseteq effects' /\ disturbed \subseteq disturbed'
  OBVIOUS
<1>1. ASSUME NEW r \in Requests, Arrive(r) \/ Receive(r) \/ Serve(r) \/ Cancel(r)
      PROVE  /\ op' = op /\ table \subseteq table'
             /\ effects \subseteq effects' /\ disturbed \subseteq disturbed'
  BY <1>1 DEF Serve, Arrive, Receive, Replay, Refuse, Miss, LookupFails, Reject, Execute, ExecuteFails,
         Acknowledge, AcknowledgeLost, Panic, Save, Inserted, SaveFails, SaveNull, Finish, Cancel,
         Disturb
<1>2. CASE Crash
  BY <1>2 DEF Crash, Disturb
<1>3. CASE Tick \/ UNCHANGED vars
  BY <1>3 DEF Tick, vars
<1> QED
  BY <1>1, <1>2, <1>3 DEF Next, Ended

(* An attempt moves when it arrives, when its body has come, when it is     *)
(* served, or when it crashes.                                              *)
LEMMA Moves ==
  ASSUME TypeOK, [Next]_vars, NEW r \in Requests, pc'[r] # pc[r]
  PROVE  \/ Arrive(r) \/ Receive(r)
         \/ Serve(r)
         \/ InFlight(r) /\ pc'[r] = "gone" /\ Crash
<1>1. CASE \E q \in Requests : Arrive(q) \/ Receive(q) \/ Serve(q)
  <2>1. PICK q \in Requests : Arrive(q) \/ Receive(q) \/ Serve(q)
    BY <1>1
  <2>2. \E l : Goto(q, l)
    BY <2>1 DEF Serve, Arrive, Receive, Replay, Refuse, Miss, LookupFails, Reject, Execute, ExecuteFails,
         Fail, Acknowledge, AcknowledgeLost, Panic, Save, SaveFails, SaveNull, Finish
  <2>3. q = r
    BY <2>2 DEF Goto, TypeOK
  <2> QED
    BY <2>1, <2>3
<1>2. CASE Crash
  BY <1>2 DEF Crash, TypeOK
<1>3. CASE UNCHANGED pc
  BY <1>3
<1> QED
  BY <1>1, <1>2, <1>3 DEF Next, Cancel, Tick, Ended, vars

(* Only Save changes the table, and only on a key without a row.            *)
LEMMA TableChanges ==
  ASSUME [Next]_vars, table' # table
  PROVE  \E r \in Requests :
           /\ Save(r) /\ RowsOf(op[r].key) = {}
           /\ table' = table \union {Captured(r)}
<1>1. \E r \in Requests : Save(r)
  BY DEF Next, Serve, Arrive, Receive, Replay, Refuse, Miss, LookupFails, Reject, Execute, ExecuteFails,
         Acknowledge, AcknowledgeLost, Panic, SaveFails, SaveNull, Finish, Cancel, Crash, Tick,
         Ended, vars
<1> QED
  BY <1>1 DEF Save, Inserted, Captured

(* Only Execute adds an effect.                                             *)
LEMMA EffectsChange ==
  ASSUME [Next]_vars, effects' # effects
  PROVE  \E r \in Requests : Execute(r)
BY DEF Next, Serve, Arrive, Receive, Replay, Refuse, Miss, LookupFails, Reject, ExecuteFails,
       Acknowledge,
       AcknowledgeLost, Panic, Save, SaveFails, SaveNull, Finish, Cancel, Crash, Tick, Ended, vars

----------------------------------------------------------------------------
(* An undisturbed key has one effect.                                       *)

(* A second attempt whose body comes on a key disturbs the key.             *)
LEMMA AloneStep == TypeOK /\ Alone /\ [Next]_vars => Alone'
<1> SUFFICES ASSUME TypeOK, Alone, [Next]_vars,
                    NEW q \in Requests, NEW r \in Requests,
                    SameKey(q, r)', Working(q)', Working(r)', op'[r].key \notin disturbed',
                    q # r
             PROVE  FALSE
  BY DEF Alone
<1>1. SameKey(q, r) /\ SameKey(r, q) /\ op[r].key \notin disturbed /\ op[q].key \notin disturbed'
  BY Monotone DEF SameKey, Keyed
<1>2. ASSUME NEW x \in Requests, NEW y \in Requests, x # y, SameKey(y, x),
             op[x].key \notin disturbed', Working(x)', Working(y)', ~ Working(x)
      PROVE  FALSE
  <2>1. pc'[x] # pc[x]
    BY <1>2 DEF Working, InFlight
  <2>2. Receive(x)
    BY <1>2, <2>1, Moves DEF Serve, Arrive, Replay, Refuse, Miss, LookupFails, Reject, Execute,
         ExecuteFails, Acknowledge, AcknowledgeLost, Panic, Save, SaveFails, SaveNull, Finish,
         Working, InFlight, Goto, TypeOK
  <2>3. pc'[y] = pc[y]
    BY <1>2, <2>2 DEF Receive, Goto, TypeOK
  <2>4. Working(y)
    BY <1>2, <2>3 DEF Working, InFlight
  <2>5. Disturb({x})
    BY <1>2, <2>2, <2>4 DEF Receive
  <2> QED
    BY <1>2, <2>5 DEF Disturb
<1>3. Working(q) /\ Working(r)
  BY <1>1, <1>2, Monotone
<1> QED
  BY <1>1, <1>3 DEF Alone

(* A miss on an undisturbed key holds until the handler runs: a row could   *)
(* only come from another open attempt on the key.                          *)
LEMMA MissStep == TypeOK /\ Alone /\ MissHolds /\ [Next]_vars => MissHolds'
<1> SUFFICES ASSUME TypeOK, Alone, MissHolds, [Next]_vars, NEW r \in Requests,
                    pc'[r] = "handle", Keyed(r)', op'[r].key \notin disturbed'
             PROVE  RowsOf(op[r].key)' = {}
  BY Monotone DEF MissHolds
<1>1. Keyed(r) /\ op[r].key \notin disturbed /\ op' = op
  BY Monotone DEF Keyed
<1>2. CASE pc[r] = "handle"
  <2>1. CASE table' = table
    BY <1>1, <1>2, <2>1 DEF MissHolds, RowsOf
  <2>2. CASE table' # table
    <3>1. PICK q \in Requests :
             /\ Save(q)
             /\ table' = table \union {Captured(q)}
      BY <2>2, TableChanges
    <3>2. pc[q] = "save"
      BY <3>1 DEF Save
    <3>3. op[q].key # op[r].key
      BY <1>1, <1>2, <3>2 DEF Alone, SameKey, Working, InFlight, Keyed
    <3> QED
      BY <1>1, <1>2, <3>1, <3>3 DEF MissHolds, RowsOf, Captured
  <2> QED
    BY <2>1, <2>2
<1>3. CASE pc[r] # "handle"
  <2>1. Arrive(r) \/ Receive(r) \/ Serve(r)
    BY <1>3, Moves
  <2>2. CASE Miss(r)
    BY <1>1, <2>2 DEF Miss, RowsOf, Disturb
  <2>3. CASE LookupFails(r)
    BY <1>1, <2>3 DEF LookupFails, Disturb
  <2>4. CASE Arrive(r) \/ Receive(r)
    BY <1>1, <2>4 DEF Arrive, Receive, Goto, TypeOK
  <2> QED
    BY <1>3, <2>1, <2>2, <2>3, <2>4 DEF Serve, Replay, Refuse, Reject, Execute, ExecuteFails, Fail,
         Acknowledge, AcknowledgeLost, Panic, Save, SaveFails, SaveNull, Finish, Goto,
         AfterHandler, TypeOK
<1> QED
  BY <1>2, <1>3

(* An effect on an undisturbed key is acknowledged, captured and saved, in  *)
(* that order, before anything else happens to the key.                     *)
LEMMA EffectStep ==
  TypeOK /\ EffectKept /\ [Next]_vars => EffectKept'
<1> SUFFICES ASSUME TypeOK, EffectKept, [Next]_vars, NEW r \in effects'
             PROVE  /\ pc'[r] \notin {"idle", "read", "get", "handle"}
                    /\ Keyed(r)' /\ op'[r].key \notin disturbed' =>
                         \/ pc'[r] = "reply"
                         \/ pc'[r] = "save" /\ resp'[r].kind = "created"
                         \/ RowsOf(op[r].key)' # {}
  BY Monotone DEF EffectKept
<1>1. r \in Requests /\ op' = op /\ Keyed(r)' = Keyed(r)
  <2>1. effects' \subseteq Requests
    BY EffectsChange DEF TypeOK, Execute
  <2> QED
    BY <2>1, Monotone DEF Keyed
<1>2. RowsOf(op[r].key) # {} => RowsOf(op[r].key)' # {}
  BY Monotone DEF RowsOf
<1>3. CASE r \notin effects
  <2>1. Execute(r)
    BY <1>3, EffectsChange DEF Execute
  <2> QED
    BY <1>1, <2>1 DEF Execute, Goto, TypeOK
<1>4. CASE r \in effects
  <2>1. /\ pc[r] \notin {"idle", "read", "get", "handle"}
        /\ Keyed(r) /\ op[r].key \notin disturbed =>
             \/ pc[r] = "reply"
             \/ pc[r] = "save" /\ resp[r].kind = "created"
             \/ RowsOf(op[r].key) # {}
    BY <1>4 DEF EffectKept
  <2>2. CASE pc'[r] = pc[r]
    <3>1. pc[r] = "save" => resp'[r] = resp[r]
      <4>1. ASSUME NEW q \in Requests, Arrive(q) \/ Receive(q) \/ Serve(q) \/ Cancel(q), pc[r] = "save"
            PROVE  resp'[r] = resp[r]
        <5>1. CASE q = r
          BY <1>1, <2>2, <4>1, <5>1 DEF Serve, Arrive, Receive, Replay, Refuse, Miss, LookupFails, Reject,
             Execute, ExecuteFails, Acknowledge, AcknowledgeLost, Panic, Save, SaveFails, SaveNull,
             Finish, Cancel
        <5>2. CASE q # r
          <6>1. UNCHANGED resp \/ \E a : Write(q, a)
            BY <4>1 DEF Serve, Arrive, Receive, Replay, Refuse, Miss, LookupFails, Reject, Execute,
               ExecuteFails, Fail, Acknowledge, AcknowledgeLost, Panic, Save, SaveFails, SaveNull,
               Finish, Cancel
          <6> QED
            BY <1>1, <5>2, <6>1 DEF Write, TypeOK
        <5> QED
          BY <5>1, <5>2
      <4> QED
        BY <4>1 DEF Next, Crash, Tick, Ended, vars
    <3> QED
      BY <1>1, <1>2, <2>1, <2>2, <3>1, Monotone
  <2>3. CASE pc'[r] # pc[r]
    <3>1. Arrive(r) \/ Receive(r) \/ Serve(r) \/ (InFlight(r) /\ pc'[r] = "gone" /\ Crash)
      BY <1>1, <2>3, Moves
    <3>2. CASE Acknowledge(r)
      BY <1>1, <3>2 DEF Acknowledge, Goto, AfterHandler, Write, Own, TypeOK
    <3>3. CASE AcknowledgeLost(r) \/ (Panic(r) /\ pc[r] = "reply")
      <4>1. op[r].key \in disturbed'
        BY <3>3 DEF AcknowledgeLost, Panic, Disturb
      <4>2. pc'[r] \in {"save", "errors", "answered"}
        BY <1>1, <3>3 DEF AcknowledgeLost, Panic, Fail, Goto, AfterHandler, TypeOK
      <4> QED
        BY <1>1, <4>1, <4>2
    <3>4. CASE Save(r)
      <4>1. pc'[r] = "errors"
        BY <1>1, <3>4 DEF Save, Goto, TypeOK
      <4>2. RowsOf(op[r].key)' # {}
        <5>1. CASE RowsOf(op[r].key) = {}
          <6>1. table' = table \union {Captured(r)} /\ Captured(r).key = op[r].key
            BY <3>4, <5>1 DEF Save, Inserted, Captured
          <6> QED
            BY <1>1, <6>1 DEF RowsOf
        <5> QED
          BY <1>2, <5>1
      <4> QED
        BY <1>1, <4>1, <4>2
    <3>5. CASE SaveFails(r)
      BY <1>1, <3>5 DEF SaveFails, Goto, Disturb, TypeOK
    <3>6. CASE SaveNull(r)
      BY <1>1, <1>2, <2>1, <3>6, Monotone DEF SaveNull, Goto, TypeOK
    <3>7. CASE Finish(r)
      BY <1>1, <1>2, <2>1, <3>7, Monotone DEF Finish, Goto, TypeOK
    <3>8. CASE InFlight(r) /\ pc'[r] = "gone" /\ Crash
      <4>1. pc[r] \in {"reply", "save"} => op[r].key \in disturbed'
        <5>1. PICK S \in SUBSET {x \in Requests : InFlight(x)} :
                /\ pc' = [x \in Requests |-> IF x \in S THEN "gone" ELSE pc[x]]
                /\ Disturb({x \in S : pc[x] \in {"reply", "save"}})
          BY <3>8 DEF Crash
        <5>2. r \in S
          BY <1>1, <2>3, <5>1
        <5> QED
          BY <5>1, <5>2 DEF Disturb
      <4> QED
        BY <1>1, <1>2, <2>1, <3>8, <4>1, Monotone
    <3> QED
      BY <2>1, <2>3, <3>1, <3>2, <3>3, <3>4, <3>5, <3>6, <3>7, <3>8 DEF Serve, Arrive, Receive, Replay,
         Refuse, Miss, LookupFails, Reject, Execute, ExecuteFails, Panic
  <2> QED
    BY <2>2, <2>3
<1> QED
  BY <1>3, <1>4

(* A handler that runs on an undisturbed key is the first to: an earlier    *)
(* effect would still be open, or would have left a row.                    *)
LEMMA OnceStep ==
  ProtectionInv /\ [Next]_vars => AtMostOnceUndisturbed'
<1> SUFFICES ASSUME ProtectionInv, [Next]_vars, NEW q \in effects', NEW r \in effects',
                    SameKey(q, r)', op'[r].key \notin disturbed', q # r
             PROVE  FALSE
  BY DEF AtMostOnceUndisturbed
<1>1. /\ SameKey(q, r) /\ SameKey(r, q)
      /\ op[q].key \notin disturbed /\ op[r].key \notin disturbed
  BY Monotone DEF SameKey, Keyed
<1>2. q \notin effects \/ r \notin effects
  BY <1>1 DEF ProtectionInv, AtMostOnceUndisturbed
<1>3. PICK x \in Requests : Execute(x)
  BY <1>2, EffectsChange
<1>4. ASSUME NEW y \in effects, SameKey(y, x), op[x].key \notin disturbed
      PROVE  FALSE
  <2>1. pc[x] = "handle" /\ Working(x)
    BY <1>3 DEF Execute, Working, InFlight
  <2>2. y \in Requests /\ pc[y] # "handle"
    BY DEF ProtectionInv, TypeInv, TypeOK, EffectKept
  <2>3. RowsOf(op[x].key) = {}
    BY <1>4, <2>1 DEF ProtectionInv, MissHolds, SameKey, Keyed
  <2>4. Working(y)
    BY <1>4, <2>2, <2>3 DEF ProtectionInv, EffectKept, SameKey, Keyed, Working, InFlight
  <2> QED
    BY <1>4, <2>1, <2>2, <2>4 DEF ProtectionInv, Alone
<1>5. effects' = effects \union {x}
  BY <1>3 DEF Execute
<1> QED
  BY <1>1, <1>2, <1>4, <1>5

(* The protection invariant holds in every environment.                     *)
THEOREM Protection == Spec => []ProtectionInv
<1>1. Init => ProtectionInv
  BY TypeInit DEF Init, ProtectionInv, TypeInv, KeyedInside, Alone, MissHolds, EffectKept,
     AtMostOnceUndisturbed, Working, InFlight
<1>2. ProtectionInv /\ [Next]_vars => ProtectionInv'
  BY TypeStep, KeyedStep, AloneStep, MissStep, EffectStep, OnceStep DEF ProtectionInv, TypeInv
<1> QED
  BY <1>1, <1>2, PTL DEF Spec

(* At most one attempt takes effect on a key that nothing disturbed,        *)
(* whatever happens on the other keys.                                      *)
THEOREM OnceOnAnUndisturbedKey == Spec => []AtMostOnceUndisturbed
<1>1. ProtectionInv => AtMostOnceUndisturbed
  BY DEF ProtectionInv
<1> QED
  BY <1>1, Protection, PTL

----------------------------------------------------------------------------
(* Replays.                                                                 *)

(* A body is read once, and fixed from then on.                             *)
LEMMA BodyFixed ==
  ASSUME TypeOK, [Next]_vars, NEW r \in Requests, pc[r] # "read"
  PROVE  body'[r] = body[r]
<1>1. ASSUME NEW q \in Requests, Receive(q) PROVE body'[r] = body[r]
  BY <1>1 DEF Receive, TypeOK
<1>2. CASE UNCHANGED body
  BY <1>2
<1> QED
  BY <1>1, <1>2 DEF Next, Serve, Arrive, Replay, Refuse, Miss, LookupFails, Reject, Execute,
     ExecuteFails, Acknowledge, AcknowledgeLost, Panic, Save, SaveFails, SaveNull, Finish, Cancel, Crash, Tick,
     Ended, vars

(* A step that does not serve an attempt leaves its response and its        *)
(* c.Errors alone.                                                          *)
LEMMA NotServed ==
  ASSUME TypeOK, [Next]_vars, NEW r \in Requests, ~ Serve(r)
  PROVE  resp'[r] = resp[r] /\ (r \in errs' <=> r \in errs)
<1>1. ASSUME NEW q \in Requests, Serve(q)
      PROVE  resp'[r] = resp[r] /\ (r \in errs' <=> r \in errs)
  <2>1. q # r
    BY <1>1
  <2>2. UNCHANGED resp \/ \E a : Write(q, a)
    BY <1>1 DEF Serve, Replay, Refuse, Miss, LookupFails, Reject, Execute, ExecuteFails, Fail,
       Acknowledge, AcknowledgeLost, Panic, Save, SaveFails, SaveNull, Finish
  <2>3. UNCHANGED errs \/ errs' = errs \union {q}
    BY <1>1 DEF Serve, Replay, Refuse, Miss, LookupFails, Reject, Execute, ExecuteFails, Fail,
       Acknowledge, AcknowledgeLost, Panic, Save, SaveFails, SaveNull, Finish
  <2> QED
    BY <2>1, <2>2, <2>3 DEF Write, TypeOK
<1>2. CASE UNCHANGED <<resp, errs>>
  BY <1>2
<1> QED
  BY <1>1, <1>2 DEF Next, Arrive, Receive, Cancel, Crash, Tick, Ended, vars

(* A row stays what its attempt captured: once its attempt is past Save,    *)
(* only ErrorHandler writes to it again, and only over a blank.             *)
LEMMA CapturedStep ==
  TypeOK /\ Written /\ RowsCaptured /\ [Next]_vars => RowsCaptured'
<1> SUFFICES ASSUME TypeOK, Written, RowsCaptured, [Next]_vars, NEW row \in table'
             PROVE  LET s == row.resp.of IN
                    /\ op'[s].key = row.key /\ body'[s] = row.hash
                    /\ pc'[s] \in {"errors", "answered", "gone"}
                    /\ row.resp.kind \in {"blank", "created", "rejected", "failed"}
                    /\ row.resp.kind = "created" => s \in effects'
                    /\ IF row.resp.kind = "blank"
                         THEN s \in errs' ELSE s \notin errs' /\ resp'[s] = row.resp
  BY DEF RowsCaptured
<1> DEFINE s == row.resp.of
<1>1. CASE row \in table
  <2>1. /\ op[s].key = row.key /\ body[s] = row.hash
        /\ pc[s] \in {"errors", "answered", "gone"}
        /\ row.resp.kind \in {"blank", "created", "rejected", "failed"}
        /\ row.resp.kind = "created" => s \in effects
        /\ IF row.resp.kind = "blank" THEN s \in errs ELSE s \notin errs /\ resp[s] = row.resp
    BY <1>1 DEF RowsCaptured
  <2>2. s \in Requests
    BY <1>1 DEF TypeOK, Row, Response
  <2>3. op' = op /\ body'[s] = body[s] /\ effects \subseteq effects'
    BY <2>1, <2>2, Monotone, BodyFixed
  <2>4. CASE Serve(s)
    <3>1. Finish(s)
      BY <2>1, <2>4 DEF Serve, Replay, Refuse, Miss, LookupFails, Reject, Execute, ExecuteFails,
         Acknowledge, AcknowledgeLost, Panic, Save, SaveFails, SaveNull
    <3> QED
      BY <2>1, <2>2, <2>3, <3>1 DEF Finish, Goto, TypeOK
  <2>5. CASE ~ Serve(s)
    <3>1. resp'[s] = resp[s] /\ (s \in errs' <=> s \in errs)
      BY <2>2, <2>5, NotServed
    <3>2. pc'[s] \in {"errors", "answered", "gone"}
      BY <2>1, <2>2, <2>5, Moves DEF Arrive, Receive
    <3> QED
      BY <2>1, <2>3, <3>1, <3>2
  <2> QED
    BY <2>4, <2>5
<1>2. CASE row \notin table
  <2>1. PICK r \in Requests :
          /\ Save(r)
          /\ row = Captured(r)
    BY <1>2, TableChanges
  <2>2. pc[r] = "save" /\ UNCHANGED <<op, body, resp, errs, effects>>
    BY <2>1 DEF Save
  <2>3. s = r /\ row.resp = resp[r]
    BY <2>1, <2>2 DEF Written, Captured
  <2>4. pc'[r] = "errors"
    BY <2>1 DEF Save, Goto, TypeOK
  <2>5. /\ resp[r].kind \in {"blank", "created", "rejected", "failed"}
        /\ resp[r].kind = "blank" <=> r \in errs
        /\ resp[r].kind = "created" => r \in effects
    BY <2>2, <2>3 DEF Written
  <2> QED
    BY <2>1, <2>2, <2>3, <2>4, <2>5 DEF Captured
<1> QED
  BY <1>1, <1>2

(* ON CONFLICT DO NOTHING: a key never gets a second row.                   *)
LEMMA PrimaryKeyStep == PrimaryKey /\ [Next]_vars => PrimaryKey'
<1> SUFFICES ASSUME PrimaryKey, [Next]_vars PROVE PrimaryKey'
  OBVIOUS
<1>1. CASE table' = table
  BY <1>1 DEF PrimaryKey
<1>2. CASE table' # table
  <2>1. PICK r \in Requests :
          /\ RowsOf(op[r].key) = {}
          /\ table' = table \union {Captured(r)}
    BY <1>2, TableChanges
  <2> QED
    BY <2>1 DEF PrimaryKey, RowsOf, Captured
<1> QED
  BY <1>1, <1>2

(* What an attempt has written follows from the steps it has taken.         *)
LEMMA WrittenStep ==
  TypeOK /\ Written /\ RowsCaptured /\ ReplayFromRow /\ [Next]_vars => Written'
<1> SUFFICES ASSUME TypeOK, Written, RowsCaptured, ReplayFromRow, [Next]_vars, NEW r \in Requests
             PROVE  /\ pc'[r] \in {"idle", "read", "get", "handle", "reply"} =>
                         resp'[r] = Own(r, "blank") /\ r \notin errs'
                    /\ pc'[r] = "reply" => r \in effects'
                    /\ pc'[r] = "save" =>
                         /\ resp'[r].of = r
                         /\ resp'[r].kind \in {"blank", "created", "rejected", "failed"}
                         /\ resp'[r].kind = "blank" <=> r \in errs'
                    /\ pc'[r] = "errors" /\ r \in errs' => resp'[r].of = r
                    /\ resp'[r].of = r /\ resp'[r].kind = "created" => r \in effects'
  BY DEF Written, Own
<1>1. /\ pc[r] \in {"idle", "read", "get", "handle", "reply"} => resp[r] = Own(r, "blank") /\ r \notin errs
      /\ pc[r] = "reply" => r \in effects
      /\ pc[r] = "save" =>
           /\ resp[r].of = r
           /\ resp[r].kind \in {"blank", "created", "rejected", "failed"}
           /\ resp[r].kind = "blank" <=> r \in errs
      /\ pc[r] = "errors" /\ r \in errs => resp[r].of = r
      /\ resp[r].of = r /\ resp[r].kind = "created" => r \in effects
  BY DEF Written
<1>2. CASE ~ Serve(r)
  <2>1. resp'[r] = resp[r] /\ (r \in errs' <=> r \in errs) /\ effects \subseteq effects'
    BY <1>2, NotServed, Monotone
  <2>2. \/ pc'[r] = pc[r]
        \/ pc[r] \in {"idle", "read"} /\ pc'[r] \in {"read", "get", "handle"}
        \/ pc'[r] = "gone"
    BY <1>2, Moves DEF Arrive, Receive, Goto, TypeOK
  <2> QED
    BY <1>1, <2>1, <2>2
<1>3. CASE Replay(r)
  <2>1. PICK row \in table : Write(r, row.resp) /\ row.key = op[r].key
    BY <1>3 DEF Replay, Found, RowsOf
  <2>2. resp'[r] = row.resp /\ pc'[r] = "errors"
    BY <1>3, <2>1 DEF Replay, Write, Goto, TypeOK
  <2>3. r \notin errs' /\ effects' = effects
    BY <1>1, <1>3 DEF Replay
  <2>4. row.resp.kind = "created" => row.resp.of \in effects
    BY <2>1 DEF RowsCaptured
  <2> QED
    BY <2>2, <2>3, <2>4
<1>4. CASE Refuse(r)
  BY <1>1, <1>4 DEF Refuse, Write, Goto, Own, TypeOK
<1>5. CASE Miss(r) \/ LookupFails(r)
  BY <1>1, <1>5 DEF Miss, LookupFails, Goto, Own, TypeOK
<1>6. CASE Reject(r)
  BY <1>1, <1>6 DEF Reject, Write, Goto, Own, AfterHandler, TypeOK
<1>7. CASE Execute(r)
  BY <1>1, <1>7 DEF Execute, Goto, Own, TypeOK
<1>8. CASE ExecuteFails(r) \/ AcknowledgeLost(r)
  BY <1>1, <1>8 DEF ExecuteFails, AcknowledgeLost, Fail, Write, Goto, Own, AfterHandler, TypeOK
<1>9. CASE Acknowledge(r)
  <2>1. r \in effects
    BY <1>1, <1>9 DEF Acknowledge
  <2> QED
    BY <1>1, <1>9, <2>1 DEF Acknowledge, Write, Goto, Own, AfterHandler, TypeOK
<1>10. CASE Panic(r)
  BY <1>1, <1>10 DEF Panic, Write, Goto, Own, TypeOK
<1>11. CASE Save(r) \/ SaveFails(r) \/ SaveNull(r)
  BY <1>1, <1>11 DEF Save, SaveFails, SaveNull, Goto, TypeOK
<1>12. CASE Finish(r)
  BY <1>1, <1>12 DEF Finish, Reported, Write, Goto, Own, TypeOK
<1> QED
  BY <1>2, <1>3, <1>4, <1>5, <1>6, <1>7, <1>8, <1>9, <1>10, <1>11, <1>12 DEF Serve

(* A replay copies a row of the key and the body, and the row stays.        *)
LEMMA ReplayStep ==
  TypeOK /\ Written /\ ReplayFromRow /\ [Next]_vars => ReplayFromRow'
<1> SUFFICES ASSUME TypeOK, Written, ReplayFromRow, [Next]_vars,
                    NEW r \in Requests, resp'[r].of # r
             PROVE  /\ pc'[r] \notin {"idle", "read", "get", "handle", "reply", "save"}
                    /\ r \notin errs'
                    /\ \E row \in table' :
                         row.key = op'[r].key /\ row.hash = body'[r] /\ row.resp = resp'[r]
  BY DEF ReplayFromRow
<1>1. op' = op /\ table \subseteq table'
  BY Monotone
<1>2. CASE ~ Serve(r)
  <2>1. resp'[r] = resp[r] /\ (r \in errs' <=> r \in errs)
    BY <1>2, NotServed
  <2>2. /\ pc[r] \notin {"idle", "read", "get", "handle", "reply", "save"}
        /\ r \notin errs
        /\ \E row \in table : row.key = op[r].key /\ row.hash = body[r] /\ row.resp = resp[r]
    BY <2>1 DEF ReplayFromRow
  <2>3. pc'[r] = pc[r] \/ pc'[r] = "gone"
    BY <1>2, <2>2, Moves DEF Arrive, Receive
  <2>4. body'[r] = body[r]
    BY <2>2, BodyFixed
  <2> QED
    BY <1>1, <2>1, <2>2, <2>3, <2>4
<1>3. CASE Replay(r)
  <2>1. PICK row \in table :
          row.key = op[r].key /\ row.hash = body[r] /\ Write(r, row.resp)
    BY <1>3 DEF Replay, Found, RowsOf, Matches
  <2>2. resp'[r] = row.resp /\ pc'[r] = "errors" /\ r \notin errs' /\ UNCHANGED <<body, table>>
    BY <1>3, <2>1 DEF Replay, Write, Goto, TypeOK, Written
  <2> QED
    BY <1>1, <2>1, <2>2
<1>4. CASE Finish(r)
  <2>1. r \notin errs /\ resp' = resp
    BY <1>4 DEF Finish, Write, Own, TypeOK
  <2> QED
    BY <1>1, <1>4, <2>1 DEF Finish, Goto, ReplayFromRow, TypeOK
<1>5. CASE Save(r) \/ SaveFails(r) \/ SaveNull(r) \/ Miss(r) \/ LookupFails(r) \/ Execute(r)
  BY <1>5 DEF Save, SaveFails, SaveNull, Miss, LookupFails, Execute, ReplayFromRow
<1>6. CASE Refuse(r) \/ Reject(r) \/ Acknowledge(r) \/ Panic(r)
  BY <1>6 DEF Refuse, Reject, Acknowledge, Panic, Write, Own, TypeOK
<1>7. CASE ExecuteFails(r) \/ AcknowledgeLost(r)
  BY <1>7 DEF ExecuteFails, AcknowledgeLost, Fail, Write, Own, TypeOK, ReplayFromRow
<1> QED
  BY <1>2, <1>3, <1>4, <1>5, <1>6, <1>7 DEF Serve

(* The replay invariant holds in every environment.                         *)
THEOREM ReplayInvariant == Spec => []ReplayInv
<1>1. Init => ReplayInv
  BY TypeInit DEF Init, ReplayInv, TypeInv, KeyedInside, Written, RowsCaptured, PrimaryKey,
     ReplayFromRow, Own
<1>2. ReplayInv /\ [Next]_vars => ReplayInv'
  BY TypeStep, KeyedStep, WrittenStep, CapturedStep, PrimaryKeyStep, ReplayStep
     DEF ReplayInv, TypeInv
<1> QED
  BY <1>1, <1>2, PTL DEF Spec

(* A replay is the answer that an attempt with the same key and body got,   *)
(* and every 201 stands for something stored.                               *)
THEOREM ReplaysAreSound == Spec => []ReplaySound
<1>1. ReplayInv => ReplaySound
  <2> SUFFICES ASSUME ReplayInv, NEW r \in Requests
               PROVE  LET s == resp[r].of IN
                      /\ resp[r].kind = "created" => s \in effects
                      /\ s # r =>
                           /\ SameKey(s, r) /\ body[s] = body[r]
                           /\ resp[r].kind \notin OuterKinds \union {"reused"}
                           /\ IF resp[r].kind = "blank" THEN s \in errs ELSE resp[s] = resp[r]
    BY DEF ReplaySound
  <2>1. CASE resp[r].of = r
    BY <2>1 DEF ReplayInv, Written
  <2>2. CASE resp[r].of # r
    <3>1. PICK row \in table : row.key = op[r].key /\ row.hash = body[r] /\ row.resp = resp[r]
      BY <2>2 DEF ReplayInv, ReplayFromRow
    <3>2. op[r].key # NoKey
      BY <3>1, IdempotencyAssumption DEF ReplayInv, TypeInv, TypeOK, Row
    <3> QED
      BY <3>1, <3>2 DEF ReplayInv, RowsCaptured, SameKey, Keyed, OuterKinds
  <2> QED
    BY <2>1, <2>2
<1> QED
  BY <1>1, ReplayInvariant, PTL

(* All replays on a key are the same response.                              *)
THEOREM ReplaysAlwaysAgree == Spec => []ReplaysAgree
<1>1. ReplayInv => ReplaysAgree
  BY DEF ReplayInv, ReplayFromRow, PrimaryKey, ReplaysAgree, SameKey
<1> QED
  BY <1>1, ReplayInvariant, PTL

(* A row, once written, is never changed or removed: neither a later Save   *)
(* nor the expiry touches it.                                               *)
THEOREM RowsAreForever == Spec => [][table \subseteq table']_vars
<1>1. [Next]_vars => [table \subseteq table']_vars
  BY Monotone
<1> QED
  BY <1>1, PTL DEF Spec

----------------------------------------------------------------------------
(* The middleware implements OnceOnly.                                      *)

Asked == [r \in Requests |-> [key |-> op[r].key, body |-> body[r]]]

Memo == {[key |-> row.key, body |-> row.hash, answer |-> row.resp] : row \in table}

(* Initial states map to initial states.                                    *)
LEMMA PromiseInit == Init => Promise!Init
<1> SUFFICES ASSUME Init PROVE Promise!Init
  OBVIOUS
<1>1. Asked \in [Requests -> [key: Keys \union {NoKey}, body: Bodies]]
  BY TypeInit DEF Asked, TypeOK, Operation
<1>2. Memo = {}
  BY DEF Init, Memo
<1> QED
  BY <1>1, <1>2 DEF Init, Promise!Init, Promise!Blank, Own, Asked, Memo

(* Every step of the middleware is a step of OnceOnly or changes nothing    *)
(* that OnceOnly shows.                                                     *)
LEMMA PromiseStep ==
  TypeInv /\ ProtectionInv /\ ReplayInv /\ ProtectionInv' /\ [Next]_vars
    => [Promise!Next]_(Promise!vars)
<1> SUFFICES ASSUME TypeOK, ProtectionInv, ReplayInv, ProtectionInv', [Next]_vars
             PROVE  Promise!Next \/ UNCHANGED Promise!vars
  BY DEF TypeInv
<1>1. op' = op /\ disturbed \subseteq disturbed'
  BY Monotone
<1>2. ASSUME UNCHANGED <<body, effects, table, resp>> PROVE Promise!Next
  BY <1>1, <1>2 DEF Promise!Next, Promise!LoseProtection
<1>3. ASSUME NEW r \in Requests, Receive(r) PROVE Promise!Next
  <2>1. PICK b \in Bodies : body' = [body EXCEPT ![r] = b]
    BY <1>3, IdempotencyAssumption DEF Receive, TypeOK, Operation
  <2>2. Asked' = [Asked EXCEPT ![r].body = b]
    BY <1>1, <2>1 DEF Asked, TypeOK
  <2>3. resp[r] = Own(r, "blank") /\ r \notin effects
    BY <1>3 DEF Receive, ReplayInv, Written, ProtectionInv, EffectKept
  <2>4. UNCHANGED <<effects, table, resp>>
    BY <1>3 DEF Receive
  <2>5. Promise!Ask(r)
    BY <2>1, <2>2, <2>3, <2>4 DEF Promise!Ask, Promise!Blank, Own, Asked
  <2> QED
    BY <1>1, <2>5 DEF Promise!Next
<1>4. ASSUME NEW r \in Requests, Replay(r) PROVE Promise!Next
  <2>1. PICK row \in table :
          row.key = op[r].key /\ row.hash = body[r] /\ Write(r, row.resp)
    BY <1>4 DEF Replay, Found, RowsOf, Matches
  <2>2. resp[r] = Own(r, "blank") /\ UNCHANGED <<op, body, effects, table>>
    BY <1>4 DEF Replay, ReplayInv, Written
  <2>3. /\ [key |-> row.key, body |-> row.hash, answer |-> row.resp] \in Memo
        /\ resp' = [resp EXCEPT ![r] = row.resp]
        /\ Asked[r].key = row.key /\ Asked[r].body = row.hash
    BY <2>1 DEF Memo, Asked, Write
  <2>4. \E m \in Memo :
          /\ m.key = Asked[r].key /\ m.body = Asked[r].body
          /\ resp' = [resp EXCEPT ![r] = m.answer]
    BY <2>3
  <2>5. UNCHANGED <<Asked, effects, Memo>>
    BY <2>2 DEF Asked, Memo
  <2>6. Promise!Recall(r)
    BY <2>2, <2>4, <2>5 DEF Promise!Recall, Promise!Blank, Own, Asked, Memo
  <2> QED
    BY <1>1, <2>6 DEF Promise!Next
<1>5. ASSUME NEW r \in Requests, NEW kind \in Kinds, Write(r, Own(r, kind)),
             kind = "created" => r \in effects, UNCHANGED <<op, body, effects, table>>
      PROVE  Promise!Next
  <2>1. Promise!Respond(r)
    BY <1>5 DEF Promise!Respond, Write, Own
  <2> QED
    BY <1>1, <2>1 DEF Promise!Next
<1>6. ASSUME NEW r \in Requests, Execute(r) PROVE Promise!Next
  <2>1. effects' = effects \union {r} /\ UNCHANGED <<op, body, table, resp, disturbed>>
    BY <1>6 DEF Execute
  <2>2. ASSUME NEW q \in effects, op[q].key = op[r].key
        PROVE  op[r].key \in disturbed \union {NoKey}
    <3>1. q # r /\ q \in Requests
      BY <1>6, <2>2 DEF Execute, ProtectionInv, EffectKept, TypeOK
    <3> QED
      BY <2>1, <2>2, <3>1 DEF ProtectionInv, AtMostOnceUndisturbed, SameKey, Keyed
  <2>3. Promise!TakeEffect(r)
    BY <2>1, <2>2 DEF Promise!TakeEffect, TypeOK
  <2> QED
    BY <1>1, <2>3 DEF Promise!Next
<1>7. ASSUME NEW r \in Requests, Save(r), table' # table PROVE Promise!Next
  <2>1. /\ RowsOf(op[r].key) = {}
        /\ table' = table \union {Captured(r)}
    BY <1>7 DEF Save, Inserted, Captured
  <2>2. Memo' = Memo \union {[key |-> op[r].key, body |-> body[r], answer |-> resp[r]]}
    <3> DEFINE row == Captured(r)
               Image(x) == [key |-> x.key, body |-> x.hash, answer |-> x.resp]
    <3>1. Memo = {Image(x) : x \in table} /\ Memo' = {Image(x) : x \in table'}
      BY DEF Memo
    <3>2. Image(row) = [key |-> op[r].key, body |-> body[r], answer |-> resp[r]]
      BY DEF Captured
    <3>3. table' = table \union {row}
      BY <2>1
    <3> HIDE DEF row, Image
    <3>4. {Image(x) : x \in table'} = {Image(x) : x \in table} \union {Image(row)}
      BY <3>3
    <3> QED
      BY <3>1, <3>2, <3>4
  <2>3. ~ \E m \in Memo : m.key = op[r].key
    BY <2>1 DEF Memo, RowsOf
  <2>4. op[r].key # NoKey /\ resp[r].of = r
    BY <1>7 DEF Save, ProtectionInv, TypeInv, KeyedInside, Keyed, ReplayInv, Written
  <2>5. UNCHANGED <<op, body, effects, resp>>
    BY <1>7 DEF Save
  <2>6. Promise!Remember(r)
    BY <2>2, <2>3, <2>4, <2>5 DEF Promise!Remember, Promise!Taken, Memo
  <2> QED
    BY <1>1, <2>6 DEF Promise!Next
<1>8. ASSUME NEW r \in Requests, Acknowledge(r) PROVE Promise!Next
  <2>1. r \in effects
    BY <1>8 DEF Acknowledge, ReplayInv, Written
  <2> QED
    BY <1>5, <1>8, <2>1 DEF Acknowledge, Kinds
<1>9. ASSUME NEW r \in Requests, Refuse(r) \/ Reject(r) \/ Panic(r) PROVE Promise!Next
  BY <1>5, <1>9 DEF Refuse, Reject, Panic, Kinds
<1>10. ASSUME NEW r \in Requests, ExecuteFails(r) \/ AcknowledgeLost(r) PROVE Promise!Next
  <2>1. UNCHANGED resp \/ Write(r, Own(r, "failed"))
    BY <1>10 DEF ExecuteFails, AcknowledgeLost, Fail
  <2> QED
    BY <1>2, <1>5, <1>10, <2>1 DEF ExecuteFails, AcknowledgeLost, Kinds
<1>11. ASSUME NEW r \in Requests, Finish(r) PROVE Promise!Next
  <2>1. UNCHANGED resp \/ \E kind \in OuterKinds : Write(r, Own(r, kind))
    BY <1>11 DEF Finish, Reported, OuterKinds
  <2> QED
    BY <1>2, <1>5, <1>11, <2>1 DEF Finish, OuterKinds, Kinds
<1>12. CASE \E r \in Requests : Arrive(r) \/ Receive(r) \/ Serve(r) \/ Cancel(r)
  BY <1>2, <1>3, <1>4, <1>6, <1>7, <1>8, <1>9, <1>10, <1>11, <1>12 DEF Serve, Arrive, Miss,
     LookupFails, Save, SaveFails, SaveNull, Cancel
<1>13. CASE Crash \/ Tick \/ UNCHANGED vars
  BY <1>2, <1>13 DEF Crash, Tick, vars
<1> QED
  BY <1>12, <1>13 DEF Next, Ended

(* The middleware, in every environment, implements OnceOnly.               *)
THEOREM Implementation == Spec => KeepsPromise
<1>1. TypeInv /\ ProtectionInv /\ ReplayInv /\ ProtectionInv' /\ [Next]_vars
        => [Promise!Next]_(Promise!vars)
  BY PromiseStep
<1> QED
  BY <1>1, PromiseInit, Typing, Protection, ReplayInvariant, PTL
     DEF Spec, KeepsPromise, Promise!Spec

----------------------------------------------------------------------------
(* How many of its steps the server has left at most for an attempt.        *)
Left == [idle |-> 7, read |-> 6, get |-> 5, handle |-> 4, reply |-> 3, save |-> 2, errors |-> 1,
         answered |-> 0, gone |-> 0]

GoingForward ==
  \A r \in Requests : /\ Left[pc[r]] \in Nat /\ Left[pc'[r]] <= Left[pc[r]]
                      /\ Serve(r) => Left[pc'[r]] < Left[pc[r]]

LEMMA LeftType ==
  ASSUME TypeOK, NEW r \in Requests
  PROVE  Left[pc[r]] \in Nat
BY DEF TypeOK, Labels, Left

(* The steps of one attempt: it goes forward, and the others stay.          *)
LEMMA AttemptMoves ==
  ASSUME TypeOK, NEW q \in Requests, Arrive(q) \/ Receive(q) \/ Serve(q)
  PROVE  /\ \A r \in Requests : r # q => pc'[r] = pc[r]
         /\ Left[pc'[q]] < Left[pc[q]] /\ Left[pc'[q]] \in Nat
BY DEF TypeOK, Labels, Left, Arrive, Receive, Serve, Replay, Refuse, Miss, LookupFails, Reject, Execute,
   ExecuteFails, Acknowledge, AcknowledgeLost, Panic, Save, SaveFails, SaveNull, Finish, Fail,
   Goto, AfterHandler

LEMMA ForwardStep ==
  ASSUME TypeOK, [Next]_vars
  PROVE  GoingForward
<1> SUFFICES ASSUME NEW r \in Requests
             PROVE  /\ Left[pc[r]] \in Nat /\ Left[pc'[r]] <= Left[pc[r]]
                    /\ Serve(r) => Left[pc'[r]] < Left[pc[r]]
  BY DEF GoingForward
<1>1. Left[pc[r]] \in Nat
  BY LeftType
<1>2. Serve(r) => Left[pc'[r]] < Left[pc[r]]
  BY AttemptMoves
<1>3. ASSUME pc'[r] = pc[r] PROVE Left[pc'[r]] <= Left[pc[r]]
  BY <1>1, <1>3
<1>4. ASSUME NEW q \in Requests, Arrive(q) \/ Receive(q) \/ Serve(q) PROVE Left[pc'[r]] <= Left[pc[r]]
  <2>1. CASE q = r
    <3>1. Left[pc'[r]] < Left[pc[r]] /\ Left[pc'[r]] \in Nat
      BY AttemptMoves, <1>4, <2>1
    <3> QED
      BY <1>1, <3>1
  <2>2. CASE q # r
    BY AttemptMoves, <1>3, <1>4, <2>2
  <2> QED
    BY <2>1, <2>2
<1>5. ASSUME Crash PROVE Left[pc'[r]] <= Left[pc[r]]
  BY <1>5 DEF TypeOK, Labels, Left, Crash, InFlight
<1>6. ASSUME Tick \/ UNCHANGED vars \/ \E q \in Requests : Cancel(q)
      PROVE  Left[pc'[r]] <= Left[pc[r]]
  BY <1>3, <1>6 DEF Tick, vars, Cancel
<1>7. Left[pc'[r]] <= Left[pc[r]]
  BY <1>4, <1>5, <1>6 DEF Next, Ended
<1> QED
  BY <1>1, <1>2, <1>7

(* What EveryAttemptEnds needs besides fairness: an attempt never goes      *)
(* back, whatever others do, and no step of the server for it is taken in   *)
(* place.  So at most five of them end it, on every way through the         *)
(* middleware, and no fault sends it round (no call is tried again).        *)
THEOREM AttemptsGoForward == Spec => [][GoingForward]_vars
<1>1. TypeOK /\ [Next]_vars => [GoingForward]_vars
  BY ForwardStep
<1> QED
  BY <1>1, Typing, PTL DEF Spec, TypeInv
====
