---- MODULE OnceOnly ----
(***************************************************************************)
(* What the idempotency middleware promises its clients, without its       *)
(* steps: a memo that keeps the first answer of a key, replays that come   *)
(* from the memo and go only to the same key and body, and one effect for  *)
(* each key that has not been disturbed.                                   *)
(***************************************************************************)
CONSTANTS Requests, Keys, NoKey, Bodies, Kinds

VARIABLES
  asked,      \* asked[r]: the key and the body of attempt r
  effects,    \* attempts that took effect
  memo,       \* the answers kept for replay
  given,      \* given[r]: the answer of attempt r, blank until it has one
  disturbed   \* keys that are no longer protected

vars == <<asked, effects, memo, given, disturbed>>

Answer == [kind: Kinds, of: Requests]

Blank(r) == [kind |-> "blank", of |-> r]

Taken(key) == \E m \in memo : m.key = key

Init ==
  /\ asked \in [Requests -> [key: Keys \union {NoKey}, body: Bodies]]
  /\ effects = {}
  /\ memo = {}
  /\ given = [r \in Requests |-> Blank(r)]
  /\ disturbed = {}

(* The attempt's body is what the server makes of it.                       *)
Ask(r) ==
  /\ given[r] = Blank(r) /\ r \notin effects
  /\ \E b \in Bodies : asked' = [asked EXCEPT ![r].body = b]
  /\ UNCHANGED <<effects, memo, given>>

(* One effect on a key that is still protected.                             *)
TakeEffect(r) ==
  /\ \A q \in effects : asked[q].key = asked[r].key =>
       asked[r].key \in disturbed \union {NoKey}
  /\ effects' = effects \union {r}
  /\ UNCHANGED <<asked, memo, given>>

(* An answer of its own; "created" is said only of an effect.               *)
Respond(r) ==
  /\ \E kind \in Kinds :
       /\ kind = "created" => r \in effects
       /\ given' = [given EXCEPT ![r] = [kind |-> kind, of |-> r]]
  /\ UNCHANGED <<asked, effects, memo>>

(* The first answer on a key is kept for good.                              *)
Remember(r) ==
  /\ asked[r].key # NoKey /\ ~ Taken(asked[r].key)
  /\ given[r].of = r
  /\ memo' = memo \union {[key |-> asked[r].key, body |-> asked[r].body, answer |-> given[r]]}
  /\ UNCHANGED <<asked, effects, given>>

(* A kept answer goes to the same key and body.                             *)
Recall(r) ==
  /\ given[r] = Blank(r)
  /\ \E m \in memo :
       /\ m.key = asked[r].key /\ m.body = asked[r].body
       /\ given' = [given EXCEPT ![r] = m.answer]
  /\ UNCHANGED <<asked, effects, memo>>

(* Protection is lost, never regained.                                      *)
LoseProtection == UNCHANGED <<asked, effects, memo, given>>

Next ==
  /\ disturbed \subseteq disturbed'
  /\ \/ LoseProtection
     \/ \E r \in Requests :
          Ask(r) \/ TakeEffect(r) \/ Respond(r) \/ Remember(r) \/ Recall(r)

Spec == Init /\ [][Next]_vars
====
