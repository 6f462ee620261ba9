---- MODULE MCGen ----
EXTENDS Gen, TLC

MCTree == [full |-> <<"contract.go", "domain.go", "module.go">>, minimal |-> <<"contract.go", "module.go">>]

MCInline == "--plural=people" :> "people" @@ "--plural=" :> ""

(* A valid name, one that begins with an Arabic three, one that is invalid,  *)
(* the empty argument, each kind of flag.                                   *)
MCSpelling ==
  LET flag == <<"dash", "dash", "lower">> IN
  "" :> <<>> @@ "user_2" :> <<"lower", "underscore", "digit">> @@ "Users" :> <<"upper", "lower">>
  @@ "<3>d" :> <<"wide digit", "lower">>
  @@ "--minimal" :> flag @@ "-minimal" :> flag @@ "--plural" :> flag @@ "-plural" :> flag
  @@ "--plural=people" :> flag @@ "--plural=" :> flag @@ "--force" :> flag

MCWords == DOMAIN MCSpelling

(* Every list of up to four arguments.                                      *)
MCArgLists == UNION {[1..n -> MCWords] : n \in 0..4}

Developers == Permutations(Runs)
====
