-------------------------- MODULE MCInflightRegistry --------------------------
(* Small instances of InflightRegistry for TLC. *)
EXTENDS InflightRegistry, TLC

CONSTANTS e1, e2, e3, e4

\* Two exchanges ask one question, the others another.
MCQuestionOf == [e \in Exchanges |-> IF e \in {e1, e2} THEN "a" ELSE "b"]
\* Two shards, as the low bits of the ID select them.
MCShardOf == [i \in Ids |-> i % 2]
\* Exchanges that ask the same question are interchangeable.
ExchangeSymmetry ==
    Permutations(Exchanges \cap {e1, e2}) \cup Permutations(Exchanges \cap {e3, e4})
=============================================================================
