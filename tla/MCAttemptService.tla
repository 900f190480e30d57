--------------------------- MODULE MCAttemptService ---------------------------
(***************************************************************************)
(* Six instances, one of every way through the service, with two attempts  *)
(* that compete for all but the legacy and the draft one,                  *)
(* and two contents for every attempt.  Instances share no state but the   *)
(* deployment and the source, which no answer changes, so a behaviour      *)
(* answers one instance.                                                   *)
(***************************************************************************)
EXTENDS AttemptService, FiniteSets, TLC

CONSTANTS c1, c2, x, y, a1, a2, legacy, historical, draft, pinned, later, unit

MCInstance   == {legacy, historical, draft, pinned, later, unit}
MCAttempt    == (MCInstance \X {a1}) \cup ((MCInstance \ {legacy, draft}) \X {a2})
MCInstanceOf == [a \in MCAttempt |-> a[1]]
MCKindOf     == (legacy :> "legacy") @@ (unit :> "unit") @@ (pinned :> "pinned")
                @@ (later :> "pinned") @@ [i \in MCInstance |-> "historical"]
MCProjectOf  == [i \in MCInstance |-> IF i \in {later, unit} THEN "philosophy" ELSE "kuzushiji"]
MCStatusOf   == (historical :> "retired") @@ (draft :> "draft")
                @@ [i \in MCInstance |-> "approved"]

(* A deployment, and one that rolls two epochs back and has not registered *)
(* the exercise of the unit.                                               *)
MCRelease    == {[known |-> MCInstance, active |-> MCInstance],
                 [known |-> MCInstance \ {unit}, active |-> MCInstance \ {pinned, later}]}

Answered == {i \in Instance : rows[i] # NoRow}
            \cup {Target(c) : c \in {d \in Call : pc[d] # "idle"}}

OneInstance == Cardinality(Answered) <= 1

(* The source of the other project stays as it is.                         *)
OneSource ==
    \A p \in Project : (p \in eligible) = (p \in eligible')
                    \/ \E i \in Answered : ProjectOf[i] = p

MCInit == Init /\ eligible \in {{}, Project}
MCNext == Next /\ OneInstance' /\ OneSource
MCSpec == MCInit /\ [][MCNext]_vars

Symmetry == Permutations(Call) \cup Permutations(Body) \cup Permutations({a1, a2})
=============================================================================
