---- MODULE MCRateLimit ----
EXTENDS RateLimit, TLC

Clients == Permutations(Requests) \union Permutations(Buckets)
====
