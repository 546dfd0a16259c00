--------------------------- MODULE MCQueryPipeline ---------------------------
(* Small instances of QueryPipeline for TLC. *)
EXTENDS QueryPipeline, TLC

CONSTANTS q1, q2, q3, ruleset, config

\* One cache key shared by three questions of one name, a hash collision: "v" is "a"
\* with another EDNS variant, "b" has another type.
MCQuestionOf == q1 :> "a" @@ q2 :> "v" @@ q3 :> "b"
MCSectionOf == "a" :> "A" @@ "v" :> "A" @@ "b" :> "AAAA"
MCKeyOf == "a" :> "k" @@ "v" :> "k" @@ "b" :> "k"
MCNameOf == "a" :> "n" @@ "v" :> "n" @@ "b" :> "n"

\* Queries that all ask one question.
MCSameQuestionOf == [q \in Queries |-> "a"]

\* The first generation tests addresses, the second has a rule with filters.
MCRouteOf == [gq \in Generations \X Questions |-> IF gq[1] = 0 THEN "cidr" ELSE "rule"]
\* All generations test addresses.
MCCidrRouteOf == [gq \in Generations \X Questions |-> "cidr"]
\* A rule, then plain servers.
MCRuleRouteOf == [gq \in Generations \X Questions |-> IF gq[1] = 0 THEN "rule" ELSE "final"]
\* The two reload paths take the same steps.
ReloaderSymmetry == Permutations({ruleset, config})
=============================================================================
