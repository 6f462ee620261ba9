---- MODULE MCStorage ----
EXTENDS Storage, TLC

Callers == Permutations(Calls)

(* Two spellings of one path; one of the calls at most uses the second.     *)
OnePath == [k \in Keys |-> "x"]

MCInit == Init /\ Cardinality({c \in Calls : call[c].key # "x"}) <= 1
====
