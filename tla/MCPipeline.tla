---- MODULE MCPipeline ----
EXTENDS Pipeline, TLC

CONSTANTS r1, r2, good, bad, cut

(* good is a todo that binds and stores, and a multipart form with a file;  *)
(* bad is a todo that binds and Postgres refuses; cut is a broken-off body. *)
MCVerdict ==
  [todos  |-> good :> "valid" @@ bad :> "refused" @@ cut :> "invalid",
   upload |-> good :> "valid" @@ bad :> "invalid" @@ cut :> "invalid"]

(* The requests that are checked together: a todo under a key with another  *)
(* under that key, of the same body or not, or with a query; and uploads    *)
(* without a key and a query with one of each other kind.                   *)
KindOf(r) ==
  IF route[r] = "mutation"
    THEN <<op[r].endpoint, IF I!Keyed(r) THEN "keyed" ELSE "plain", op[r].body>>
    ELSE <<route[r]>>

Mixes ==
  LET todo == <<"todos", "keyed", good>> IN
  {<<todo, todo>>, <<todo, <<"todos", "keyed", bad>>>>,
   <<todo, <<"query">>>>, <<<<"upload", "plain", good>>, <<"slash">>>>,
   <<<<"upload", "plain", bad>>, <<"health">>>>, <<<<"query">>, <<"unknown">>>>}

MCInit == Init /\ <<KindOf(r1), KindOf(r2)>> \in Mixes

\* FairSpec from these initial states.
MCSpec == MCInit /\ [][Next]_vars /\ \A r \in Requests : WF_vars(Serve(r))
====
