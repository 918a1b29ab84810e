-------------------------- MODULE MC_RequestChain --------------------------
(* Instances of RequestChain for TLC. *)
EXTENDS RequestChain, TLC

CONSTANTS q1, q2

MCRequests == {q1, q2}

Arrival(route, kind, role, id, claims) ==
    [route |-> route, cred |-> [kind |-> kind, role |-> role], id |-> id,
     claims |-> claims]

\* One arrival for every way the chain can take.
MCInputs ==
    { Arrival("live", "nothing", NoClaims, TRUE, NoClaims),
      Arrival("live", "nothing", NoClaims, FALSE, NoClaims),
      Arrival("ready", "nothing", NoClaims, TRUE, NoClaims),
      Arrival("unknown", "nothing", NoClaims, TRUE, NoClaims),
      Arrival("method", "nothing", NoClaims, TRUE, NoClaims),
      Arrival("preflight", "nothing", NoClaims, TRUE, NoClaims),
      Arrival("ingest", "bad mesh", NoClaims, TRUE, NoClaims),
      Arrival("ingest", "key", NoClaims, TRUE, NoClaims),
      Arrival("ingest", "mesh", NoClaims, TRUE, NoClaims),
      Arrival("ingest", "stale jwt", "analyst", TRUE, NoClaims),
      Arrival("admin", "jwt", "analyst", TRUE, "analyst"),
      Arrival("admin", "jwt", "admin", TRUE, "admin"),
      Arrival("forecast", "jwt", "analyst", TRUE, NoClaims),
      Arrival("forecast", "jwt", "analyst", TRUE, "analyst"),
      Arrival("history", "key", NoClaims, TRUE, "operator"),
      Arrival("forecast", "unknown key", NoClaims, TRUE, "viewer") }

\* Requests are interchangeable.
RequestSymmetry == Permutations(Requests)
=============================================================================
