---- MODULE Idempotency ----
(***************************************************************************)
(* The idempotency middleware of internal/shared/idempotency, together     *)
(* with what it wraps (the mutation handlers) and what wraps it (Recover   *)
(* and ErrorHandler), over the table idempotent_requests.                  *)
(*                                                                         *)
(* One member of Requests is one HTTP attempt.  Any number of attempts run *)
(* at once, on one instance or on several that share the database: a step  *)
(* below is one database call, or the code between two of them.            *)
(***************************************************************************)
EXTENDS Integers, FiniteSets

CONSTANTS
  Requests,   \* HTTP attempts (a retry is an attempt of its own)
  Keys,       \* values of the Idempotency-Key header
  Unfit,      \* those that the table cannot hold: idempotency_key VARCHAR(255)
  NoKey,      \* the header is absent
  Bodies,     \* request bodies, told apart by their SHA-256
  Truncated,  \* what io.ReadAll returns when the connection breaks mid-body
  Verdict,    \* Verdict[endpoint][body]: what the handler makes of the body
  TTL,        \* life of a row (48 hours), in ticks
  MaxTime,    \* BOUND: the clock stops here
  Faults,     \* the faults the environment may inject
  Overlap,    \* TRUE: clients send an attempt while another on its key is open
  NilBody     \* how the driver may send the nil []byte of an empty capture

Endpoints  == {"todos", "upload"}
FaultKinds == {"db", "storage", "cancel", "crash", "panic", "truncate"}

(* "invalid": binding fails.  "refused": it binds, and Postgres refuses the *)
(* row (a NUL in a text column).  "valid": the row or the file is stored.   *)
Verdicts == {"valid", "invalid", "refused"}

(* What a response says: created 201; rejected 400 or 422 on the body;      *)
(* failed 500 UPLOAD_FAILED; internal 500 INTERNAL; conflict 409; reused    *)
(* 422 IDEMPOTENCY_KEY_REUSED; blank, nothing written: 200 with no body.    *)
Kinds == {"blank", "created", "rejected", "failed", "internal", "conflict", "reused"}

(* Those that ErrorHandler and Recover write, outside the middleware.       *)
OuterKinds == {"internal", "conflict"}

ASSUME IdempotencyAssumption ==
  /\ NoKey \notin Keys
  /\ Unfit \subseteq Keys
  /\ Truncated \in Bodies
  /\ Verdict \in [Endpoints -> [Bodies -> Verdicts]]
  /\ \A b \in Bodies : Verdict["upload"][b] # "refused"
  /\ TTL \in Nat \ {0}
  /\ MaxTime \in Nat
  /\ Faults \subseteq FaultKinds
  /\ Overlap \in BOOLEAN
  /\ NilBody \subseteq {"null", "empty"} /\ NilBody # {}

VARIABLES
  now,        \* the clock
  table,      \* rows of idempotent_requests
  pc,         \* how far each attempt is through the middleware chain
  op,         \* what each attempt asks for; fixed
  body,       \* the body the middleware read
  resp,       \* what has been written to the response so far
  errs,       \* attempts whose handler called c.Error
  cancelled,  \* attempts whose client is gone: their context is done
  effects,    \* history: attempts that stored their todo or their file
  disturbed   \* history: keys on which the exchange did not go undisturbed

vars == <<now, table, pc, op, body, resp, errs, cancelled, effects, disturbed>>

----------------------------------------------------------------------------
(* What a client asks for; Truncated is never what it meant to send.        *)
Operation ==
  [key: Keys \union {NoKey}, endpoint: Endpoints, body: Bodies \ {Truncated}]

(* "of" is the attempt whose handler produced the answer: a replay is a     *)
(* response whose "of" is another attempt.                                  *)
Response == [kind: Kinds, of: Requests]

Row == [key: Keys, hash: Bodies, resp: Response, expires: Nat]

Own(r, kind) == [kind |-> kind, of |-> r]

Keyed(r) == op[r].key # NoKey

InFlight(r) == pc[r] \notin {"idle", "answered", "gone"}

(* The server has the body, and has not answered.                           *)
Working(r) == InFlight(r) /\ pc[r] # "read"

SameKey(q, r) == Keyed(q) /\ op[q].key = op[r].key

VerdictOf(r) == Verdict[op[r].endpoint][body[r]]

(* The backend of the endpoint may fail: Postgres for todos, the storage    *)
(* provider for uploads.                                                    *)
BackendFault(r) == (IF op[r].endpoint = "todos" THEN "db" ELSE "storage") \in Faults

(* A call on the attempt's context may fail.                                *)
CallMayFail(r) == r \in cancelled \/ BackendFault(r)

RowsOf(key) == {row \in table : row.key = key}

(* Store.Get: the row of the key, if it has not expired.                    *)
Found(r) == {row \in RowsOf(op[r].key) : row.expires > now}

(* The request hash of the row against the hash of the body that was read.  *)
HashIgnored(row, r) == TRUE      \* mutant: the hashes are not compared

Matches(row, r) == row.hash = body[r]

Goto(r, label) == pc' = [pc EXCEPT ![r] = label]

Write(r, response) == resp' = [resp EXCEPT ![r] = response]

Disturb(S) == disturbed' = disturbed \union {op[r].key : r \in S}

(* Where control goes when the handler returns: back into the middleware,   *)
(* or straight to ErrorHandler for an attempt without a key.                *)
SaveSkipped(r) == "errors"       \* mutant: the middleware returns after c.Next

AfterHandler(r) == IF Keyed(r) THEN "save" ELSE "errors"

----------------------------------------------------------------------------
Init ==
  /\ now = 0
  /\ table = {}
  /\ pc = [r \in Requests |-> "idle"]
  /\ op \in [Requests -> Operation]
  /\ body = [r \in Requests |-> op[r].body]
  /\ resp = [r \in Requests |-> Own(r, "blank")]
  /\ errs = {}
  /\ cancelled = {}
  /\ effects = {}
  /\ disturbed = {}

(* The attempt reaches the middleware, which begins to read the body.  A    *)
(* client that does not overlap its attempts has given up on, or has the    *)
(* answer of, every earlier attempt on the key.                             *)
Arrive(r) ==
  /\ pc[r] = "idle"
  /\ Overlap \/ \A q \in Requests : SameKey(q, r) /\ InFlight(q) => q \in cancelled
  /\ Goto(r, "read")
  /\ UNCHANGED <<now, table, op, body, resp, errs, cancelled, effects, disturbed>>

(* io.ReadAll, or without a key the handler's own reading, is over: the body *)
(* is there, or as much of it as came before the connection broke.  It ends *)
(* when the client lets it: the server has no ReadTimeout.                  *)
Receive(r) ==
  /\ pc[r] = "read"
  /\ \E b \in {op[r].body} \union (IF "truncate" \in Faults THEN {Truncated} ELSE {}) :
       /\ body' = [body EXCEPT ![r] = b]
       /\ IF b # op[r].body \/ \E q \in Requests : SameKey(q, r) /\ Working(q)
            THEN Disturb({r})
            ELSE UNCHANGED disturbed
  /\ Goto(r, IF Keyed(r) THEN "get" ELSE "handle")
  /\ UNCHANGED <<now, table, op, resp, errs, cancelled, effects>>

(* Store.Get finds a live row for the same body: send it again.             *)
Replay(r) ==
  /\ pc[r] = "get"
  /\ r \notin cancelled
  /\ \E row \in Found(r) : Matches(row, r) /\ Write(r, row.resp)
  /\ Goto(r, "errors")
  /\ UNCHANGED <<now, table, op, body, errs, cancelled, effects, disturbed>>

(* Store.Get finds a live row for another body: 422.                        *)
Refuse(r) ==
  /\ pc[r] = "get"
  /\ r \notin cancelled
  /\ \E row \in Found(r) : ~ Matches(row, r)
  /\ Write(r, Own(r, "reused"))
  /\ Goto(r, "errors")
  /\ UNCHANGED <<now, table, op, body, errs, cancelled, effects, disturbed>>

(* Store.Get finds no live row: sql.ErrNoRows, and the handler runs.  So    *)
(* does a lookup of an unfit key, whether it is too long or not text.       *)
Miss(r) ==
  /\ pc[r] = "get"
  /\ r \notin cancelled
  /\ Found(r) = {}
  /\ IF RowsOf(op[r].key) # {} THEN Disturb({r}) ELSE UNCHANGED disturbed
  /\ Goto(r, "handle")
  /\ UNCHANGED <<now, table, op, body, resp, errs, cancelled, effects>>

(* Store.Get fails: any error but nil takes the same path as no row.        *)
LookupFails(r) ==
  /\ pc[r] = "get"
  /\ r \in cancelled \/ "db" \in Faults
  /\ Disturb({r})
  /\ Goto(r, "handle")
  /\ UNCHANGED <<now, table, op, body, resp, errs, cancelled, effects>>

----------------------------------------------------------------------------
(* The handlers: todo Create and uploads Upload.                            *)

(* The body does not bind, or holds no file: answered directly.             *)
Reject(r) ==
  /\ pc[r] = "handle"
  /\ VerdictOf(r) = "invalid"
  /\ Write(r, Own(r, "rejected"))
  /\ Goto(r, AfterHandler(r))
  /\ UNCHANGED <<now, table, op, body, errs, cancelled, effects, disturbed>>

(* The backend stores the todo or the file.  database/sql does not start a  *)
(* statement on a context that is done; the local storage ignores it.       *)
Execute(r) ==
  /\ pc[r] = "handle"
  /\ VerdictOf(r) = "valid"
  /\ r \notin cancelled \/ op[r].endpoint = "upload"
  /\ effects' = effects \union {r}
  /\ Goto(r, "reply")
  /\ UNCHANGED <<now, table, op, body, resp, errs, cancelled, disturbed>>

(* How a handler reports an error of its service: todo Create by c.Error,   *)
(* writing nothing; Upload by writing 500 UPLOAD_FAILED itself.             *)
Fail(r) ==
  /\ IF op[r].endpoint = "todos"
       THEN errs' = errs \union {r} /\ UNCHANGED resp
       ELSE Write(r, Own(r, "failed")) /\ UNCHANGED errs
  /\ Goto(r, AfterHandler(r))

(* The backend stores nothing.                                              *)
ExecuteFails(r) ==
  /\ pc[r] = "handle"
  /\ \/ VerdictOf(r) = "refused"
     \/ VerdictOf(r) = "valid" /\ CallMayFail(r)
  /\ Fail(r)
  /\ UNCHANGED <<now, table, op, body, cancelled, effects, disturbed>>

(* The backend's success reaches the handler: 201.                          *)
Acknowledge(r) ==
  /\ pc[r] = "reply"
  /\ Write(r, Own(r, "created"))
  /\ Goto(r, AfterHandler(r))
  /\ UNCHANGED <<now, table, op, body, errs, cancelled, effects, disturbed>>

(* It stored, and the handler gets an error all the same: the reply is      *)
(* lost, or the context is done while the call is out, or database/sql has  *)
(* sent the INSERT again and it meets its own row.                          *)
AcknowledgeLost(r) ==
  /\ pc[r] = "reply"
  /\ CallMayFail(r)
  /\ Fail(r)
  /\ Disturb({r})
  /\ UNCHANGED <<now, table, op, body, cancelled, effects>>

(* The handler panics: Recover writes 500, and neither the rest of the      *)
(* middleware nor ErrorHandler runs.                                        *)
Panic(r) ==
  /\ "panic" \in Faults
  /\ pc[r] \in {"handle", "reply"}
  /\ Write(r, Own(r, "internal"))
  /\ Goto(r, "answered")
  /\ IF pc[r] = "reply" THEN Disturb({r}) ELSE UNCHANGED disturbed
  /\ UNCHANGED <<now, table, op, body, errs, cancelled, effects>>

----------------------------------------------------------------------------
(* The record handed to Store.Save: what responseCapture holds, for TTL.    *)
CapturedBackdated(r) ==          \* mutant: Add(-48h)
  [key |-> op[r].key, hash |-> body[r], resp |-> resp[r], expires |-> now - TTL]
CapturedNothing(r) ==            \* mutant: c.Writer is not replaced
  [key |-> op[r].key, hash |-> body[r], resp |-> Own(r, "blank"), expires |-> now + TTL]
CapturedDrained(r) ==            \* mutant: the hash is taken of the drained body
  [key |-> op[r].key, hash |-> Truncated, resp |-> resp[r], expires |-> now + TTL]

Captured(r) ==
  [key |-> op[r].key, hash |-> body[r], resp |-> resp[r], expires |-> now + TTL]

(* The table after the INSERT ... ON CONFLICT DO NOTHING of a row.  A row   *)
(* of the key, expired or not, is left as it is.                            *)
Upserted(row) ==                 \* mutant: ON CONFLICT DO UPDATE
  (table \ RowsOf(row.key)) \union {row}

Inserted(row) ==
  IF RowsOf(row.key) = {} THEN table \union {row} ELSE table

(* Store.Save, after the handler.                                           *)
Save(r) ==
  /\ pc[r] = "save"
  /\ r \notin cancelled
  /\ op[r].key \notin Unfit
  /\ resp[r].kind = "blank" => "empty" \in NilBody
  /\ table' = Inserted(Captured(r))
  /\ Goto(r, "errors")
  /\ UNCHANGED <<now, op, body, resp, errs, cancelled, effects, disturbed>>

(* The INSERT does not take place, for a key that does not fit it never     *)
(* does; the error is logged and dropped.                                   *)
SaveRetried(r) ==                \* mutant: Save is tried again until it works
  /\ pc[r] = "save"
  /\ r \in cancelled \/ "db" \in Faults
  /\ Disturb({r})
  /\ UNCHANGED <<now, table, pc, op, body, resp, errs, cancelled, effects>>

SaveFails(r) ==
  /\ pc[r] = "save"
  /\ r \in cancelled \/ "db" \in Faults \/ op[r].key \in Unfit
  /\ Disturb({r})
  /\ Goto(r, "errors")
  /\ UNCHANGED <<now, table, op, body, resp, errs, cancelled, effects>>

(* Nothing was captured and the driver sends NULL: response_body is NOT NULL.*)
SaveNull(r) ==
  /\ pc[r] = "save"
  /\ resp[r].kind = "blank" /\ "null" \in NilBody
  /\ Goto(r, "errors")
  /\ UNCHANGED <<now, table, op, body, resp, errs, cancelled, effects, disturbed>>

(* What ErrorHandler may make of the error: an INSERT that was sent again   *)
(* after it had stored is a unique violation, ErrConflict.                  *)
Reported(r) ==
  {"internal"} \union (IF "db" \in Faults /\ r \in effects THEN {"conflict"} ELSE {})

(* ErrorHandler, outside the middleware: the last c.Error becomes the       *)
(* response.  The response then goes out.                                   *)
Finish(r) ==
  /\ pc[r] = "errors"
  /\ IF r \in errs THEN \E kind \in Reported(r) : Write(r, Own(r, kind)) ELSE UNCHANGED resp
  /\ Goto(r, "answered")
  /\ UNCHANGED <<now, table, op, body, errs, cancelled, effects, disturbed>>

----------------------------------------------------------------------------
(* The client goes away: net/http, which watches the connection once the    *)
(* body has been read, cancels the request's context.                       *)
Cancel(r) ==
  /\ "cancel" \in Faults
  /\ Working(r) /\ r \notin cancelled
  /\ cancelled' = cancelled \union {r}
  /\ UNCHANGED <<now, table, pc, op, body, resp, errs, effects, disturbed>>

(* Instances die, and the attempts S that they were serving with them.      *)
Crash ==
  /\ "crash" \in Faults
  /\ \E S \in (SUBSET {r \in Requests : InFlight(r)}) \ {{}} :
       /\ pc' = [r \in Requests |-> IF r \in S THEN "gone" ELSE pc[r]]
       /\ Disturb({r \in S : pc[r] \in {"reply", "save"}})
  /\ UNCHANGED <<now, table, op, body, resp, errs, cancelled, effects>>

Tick ==
  /\ now < MaxTime
  /\ now' = now + 1
  /\ UNCHANGED <<table, pc, op, body, resp, errs, cancelled, effects, disturbed>>

(* Every attempt has ended: nothing is left to do.                          *)
Ended ==
  /\ \A r \in Requests : pc[r] \in {"answered", "gone"}
  /\ UNCHANGED vars

(* What the server does for an attempt whose body it has.                   *)
Serve(r) ==
  \/ Replay(r) \/ Refuse(r) \/ Miss(r) \/ LookupFails(r)
  \/ Reject(r) \/ Execute(r) \/ ExecuteFails(r)
  \/ Acknowledge(r) \/ AcknowledgeLost(r) \/ Panic(r)
  \/ Save(r) \/ SaveFails(r) \/ SaveNull(r) \/ Finish(r)

Next ==
  \/ \E r \in Requests : Arrive(r) \/ Receive(r) \/ Serve(r) \/ Cancel(r)
  \/ Crash
  \/ Tick
  \/ Ended

Spec == Init /\ [][Next]_vars

(* A goroutine serving a request is scheduled, and a database or storage    *)
(* call returns, with an answer or an error.  A body need never come; where *)
(* calls need not return either is a matter of Pipeline.                    *)
FairSpec == Spec /\ \A r \in Requests : WF_vars(Serve(r))

----------------------------------------------------------------------------
(* Properties.                                                              *)

Labels == {"idle", "read", "get", "handle", "reply", "save", "errors", "answered", "gone"}

(* Every variable holds values of its type.                                 *)
TypeOK ==
  /\ now \in Nat
  /\ table \subseteq Row
  /\ pc \in [Requests -> Labels]
  /\ op \in [Requests -> Operation]
  /\ body \in [Requests -> Bodies]
  /\ resp \in [Requests -> Response]
  /\ errs \subseteq Requests
  /\ cancelled \subseteq Requests
  /\ effects \subseteq Requests
  /\ disturbed \subseteq Keys \union {NoKey}

(* "the request is NOT processed again" (idempotency.go:8-9): of all the    *)
(* attempts on one key, at most one stores its todo or file.  The code does *)
(* not keep this in general; the runs that violate it show why.             *)
AtMostOnce ==
  \A q, r \in effects : SameKey(q, r) => q = r

(* What the code does keep, whatever happens on other keys: at most one     *)
(* attempt takes effect on a key on which no attempts overlapped, no Get    *)
(* failed or came after the expiry, and no effect was lost between the      *)
(* backend's commit and a successful Save, as it is under an unfit key.     *)
AtMostOnceUndisturbed ==
  \A q, r \in effects : SameKey(q, r) /\ op[r].key \notin disturbed => q = r

(* A replay is never an answer to something else: it was captured from an   *)
(* attempt that sent the same key and the same body, it is what that        *)
(* attempt's own client gets unless its handler had called c.Error, and a   *)
(* 201, replayed or not, stands for a todo or file that was stored.         *)
ReplaySound ==
  \A r \in Requests : LET s == resp[r].of IN
    /\ resp[r].kind = "created" => s \in effects
    /\ s # r =>
         /\ SameKey(s, r) /\ body[s] = body[r]
         /\ resp[r].kind \notin OuterKinds \union {"reused"}
         /\ IF resp[r].kind = "blank" THEN s \in errs ELSE resp[s] = resp[r]

(* All replays on one key are the same response, in every environment: the  *)
(* first row of a key is never replaced.                                    *)
ReplaysAgree ==
  \A q, r \in Requests :
    SameKey(q, r) /\ resp[q].of # q /\ resp[r].of # r => resp[q] = resp[r]

(* On an undisturbed key, clients that send the same body get one answer,   *)
(* errors reported by c.Error and panics aside, or are all refused because  *)
(* the key belongs to another body.                                         *)
SameAnswer ==
  \A q, r \in Requests :
    /\ SameKey(q, r) /\ op[r].key \notin disturbed
    /\ op[q].body = op[r].body
    /\ pc[q] = "answered" /\ pc[r] = "answered"
    /\ resp[q].kind \notin OuterKinds /\ resp[r].kind \notin OuterKinds
    => \/ resp[q] = resp[r]
       \/ resp[q].kind = "reused" /\ resp[r].kind = "reused"

(* The body was cut on its way.                                             *)
Cut(r) == body[r] # op[r].body

(* IDEMPOTENCY_KEY_REUSED accuses the client of sending another body        *)
(* (idempotency.go:10-11).  In every environment, whoever is refused shares *)
(* its key with an attempt of which that is true, or the body of one of the *)
(* two was cut on its way (line 93), which is not the client's doing.       *)
RefusedOnlyOnReuse ==
  \A r \in Requests :
    resp[r].kind = "reused" =>
      \E q \in Requests \ {r} :
        /\ SameKey(q, r) /\ pc[q] \notin {"idle", "read"}
        /\ op[q].body # op[r].body \/ Cut(q) \/ Cut(r)

(* "FAILS CLOSED" (idempotency.go:17-18), as a step: no attempt goes on to  *)
(* the handler while the table holds a live row of its key.  The code falls *)
(* through when Get fails.                                                  *)
FailsClosed ==
  [][\A r \in Requests : pc[r] = "get" /\ pc'[r] = "handle" => Found(r) = {}]_vars

(* "store the response against the key for 48 hours" (idempotency.go:6-7):  *)
(* when Save returns without an error, the key has a row that has not       *)
(* expired.  It need not, when an expired row occupies the key.             *)
SavedIsLive ==
  [][\A r \in Requests : Save(r) => \E row \in table' : row.key = op[r].key /\ row.expires > now]_vars

(* "the SAME body, we return the cached response" (idempotency.go:8-9): two *)
(* answers to one key and body are the same, or both refuse it because the  *)
(* key belongs to another body.  Errors reported by c.Error are not         *)
(* replayed as they were sent.                                              *)
CachedAnswer ==
  \A q, r \in Requests :
    /\ SameKey(q, r) /\ op[q].body = op[r].body
    /\ pc[q] = "answered" /\ pc[r] = "answered"
    => \/ resp[q] = resp[r]
       \/ resp[q].kind = "reused" /\ resp[r].kind = "reused"

(* Every attempt whose body has come ends, whatever fails on its way.       *)
EveryAttemptEnds ==
  \A r \in Requests : Working(r) ~> ~InFlight(r)

(* The middleware implements OnceOnly: the table without expiries is its    *)
(* memo, the response written so far its answer.                            *)
Promise ==
  INSTANCE OnceOnly WITH
    asked <- [r \in Requests |-> [key |-> op[r].key, body |-> body[r]]],
    memo  <- {[key |-> row.key, body |-> row.hash, answer |-> row.resp] : row \in table},
    given <- resp

KeepsPromise == Promise!Spec

----------------------------------------------------------------------------
(* The inductive invariants behind the safety properties.                   *)

(* Attempts that are worked on together on one key have disturbed it.       *)
Alone ==
  \A q, r \in Requests :
    SameKey(q, r) /\ Working(q) /\ Working(r) /\ op[r].key \notin disturbed => q = r

(* A miss stays true for as long as the handler has not run.                *)
MissHolds ==
  \A r \in Requests :
    pc[r] = "handle" /\ Keyed(r) /\ op[r].key \notin disturbed => RowsOf(op[r].key) = {}

(* An effect is on its way to the table, or the key has its row.            *)
EffectKept ==
  \A r \in effects :
    /\ pc[r] \notin {"idle", "read", "get", "handle"}
    /\ Keyed(r) /\ op[r].key \notin disturbed =>
         \/ pc[r] = "reply"
         \/ pc[r] = "save" /\ resp[r].kind = "created"
         \/ RowsOf(op[r].key) # {}

(* Only an attempt with a key goes through the middleware's own steps.      *)
KeyedInside ==
  \A r \in Requests : pc[r] \in {"get", "save"} => Keyed(r)

TypeInv == TypeOK /\ KeyedInside

ProtectionInv ==
  TypeInv /\ Alone /\ MissHolds /\ EffectKept /\ AtMostOnceUndisturbed

(* What each attempt has written, by where it is.                           *)
Written ==
  \A r \in Requests :
    /\ pc[r] \in {"idle", "read", "get", "handle", "reply"} => resp[r] = Own(r, "blank") /\ r \notin errs
    /\ pc[r] = "reply" => r \in effects
    /\ pc[r] = "save" =>
         /\ resp[r].of = r
         /\ resp[r].kind \in {"blank", "created", "rejected", "failed"}
         /\ resp[r].kind = "blank" <=> r \in errs
    /\ pc[r] = "errors" /\ r \in errs => resp[r].of = r
    /\ resp[r].of = r /\ resp[r].kind = "created" => r \in effects

(* A row is what its attempt had captured, and what that attempt answers.   *)
RowsCaptured ==
  \A row \in table : LET s == row.resp.of IN
    /\ op[s].key = row.key /\ body[s] = row.hash
    /\ pc[s] \in {"errors", "answered", "gone"}
    /\ row.resp.kind \in {"blank", "created", "rejected", "failed"}
    /\ row.resp.kind = "created" => s \in effects
    /\ IF row.resp.kind = "blank" THEN s \in errs ELSE s \notin errs /\ resp[s] = row.resp

(* PRIMARY KEY (idempotency_key, consumer_id).                              *)
PrimaryKey ==
  \A m, n \in table : m.key = n.key => m = n

(* A replayed response is a row of the attempt's key and body.              *)
ReplayFromRow ==
  \A r \in Requests : resp[r].of # r =>
    /\ pc[r] \notin {"idle", "read", "get", "handle", "reply", "save"}
    /\ r \notin errs
    /\ \E row \in table : row.key = op[r].key /\ row.hash = body[r] /\ row.resp = resp[r]

ReplayInv ==
  TypeInv /\ Written /\ RowsCaptured /\ PrimaryKey /\ ReplayFromRow
====
