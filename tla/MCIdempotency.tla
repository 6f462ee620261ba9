---- MODULE MCIdempotency ----
EXTENDS Idempotency, TLC

CONSTANTS r1, r2, r3, r4, good, bad, cut

(* good is a todo that binds and stores, and a multipart form with a file;  *)
(* bad is a todo that binds and Postgres refuses; cut is a broken-off body. *)
MCVerdict ==
  [todos  |-> good :> "valid" @@ bad :> "refused" @@ cut :> "invalid",
   upload |-> good :> "valid" @@ bad :> "invalid" @@ cut :> "invalid"]

Attempts == Permutations(Requests)

(* Two attempts on one key, or one of them without; keys that differ do not *)
(* meet, and which of the two attempts is which makes no difference.        *)
MCInit ==
  /\ Init
  /\ \/ op[r1].key = op[r2].key
     \/ op[r1].key \in Keys \ Unfit /\ op[r2].key = NoKey

\* FairSpec from these initial states.
MCFairSpec == MCInit /\ [][Next]_vars /\ \A r \in Requests : WF_vars(Serve(r))
====
