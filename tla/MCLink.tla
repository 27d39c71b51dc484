------------------------------ MODULE MCLink ------------------------------
(***************************************************************************)
(* Small instances of Link for TLC.                                        *)
(***************************************************************************)
EXTENDS Link

CONSTANTS A, B, U

Scenario(policy, edits, links, strict, ds) ==
    [pair |-> A, policy |-> policy, edits |-> edits, links |-> links, strict |-> strict,
     left |-> [d \in Disturbances |-> IF d \in ds THEN 1 ELSE 0]]

\* A move, also to a port that does not exist; an import, of a link that is there, or without
\* one that is not; a Netris that refuses what it has already, and one that does not
OneAtATime ==
    {Scenario("partial", {B, U}, {}, TRUE, {"edit"})}
    \union {Scenario("import", {}, {A}, TRUE, {d}) : d \in {"fault", "crash", "drift", "stale"}}
    \union {Scenario("plain", {}, links, TRUE, {"fault"}) : links \in {{}, {A}}}
    \union {Scenario("plain", {}, {}, FALSE, {d}) : d \in {"fault", "crash", "annotate"}}

\* The new ports are linked already.
MoveOnto == {Scenario("plain", {B}, {B}, TRUE, {"edit"})}

AllPairs == {A, B, U}
NoPort   == {U}

=============================================================================
