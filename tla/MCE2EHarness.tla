---------------------------- MODULE MCE2EHarness ----------------------------
(* Small gates of the end-to-end harness for TLC. *)
EXTENDS E2EHarness

\* The gate of terragrunt-apply.yml in small, on the whole stack.
DeployGate == [gate |-> <<"happy", "structured-events">>, stack |-> Parts, guard |-> TRUE]

\* Two deployments on a day.
TwoDeploys == [gate |-> <<"structured-events", "structured-events">>, stack |-> Parts, guard |-> TRUE]

\* The other data modes, and the conformance modes that are run by hand.
ByHand ==
  {[gate |-> <<m>>, stack |-> Parts, guard |-> FALSE] :
     m \in {"variety", "structured-metrics", "oversize", "bad-content-type", "malformed",
            "wrong-signal", "waf-trigger", "rate-burst", "grpc-probe"}}

\* A stack without one of its parts, or without both kinds of partition.
Incomplete ==
  {[gate |-> <<m>>, stack |-> Parts \ gone, guard |-> g] :
     m \in {"structured-events", "grpc-probe"}, g \in BOOLEAN,
     gone \in {{p} : p \in Parts} \cup {{"enum", "partitions"}}}

MCDeployments == {DeployGate, TwoDeploys} \cup ByHand \cup Incomplete

MCEventTypes == <<"session_start", "feature_usage">>

MCVarieties == <<"small", "large">>

MCSizeOf == [small |-> 1, large |-> 3]

MCStructured == <<"plugin_installed">>

\* Up to four records: small ones, ones that fill a request and ones that exceed it alone.
ChunkInputs ==
  UNION {{[i \in 1..n |-> [ev |-> i, size |-> size[i]]] : size \in [1..n -> {1, 2, 3, 5}]} : n \in 0..4}

\* chunk_into_requests: the requests carry every record, in order and once, none is empty,
\* and one of several records fits under the receiver's cap.
ASSUME ChunkingIsExact ==
  \A specs \in ChunkInputs :
    LET reqs == chunk_into_requests(specs) IN
    /\ FlattenSeq([i \in DOMAIN reqs |-> reqs[i].specs]) = specs
    /\ \A i \in DOMAIN reqs : /\ Len(reqs[i].specs) > 0
                              /\ Len(reqs[i].specs) > 1 => BodyBytes(reqs[i].specs) <= MaxBody
=============================================================================
