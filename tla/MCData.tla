------------------------------- MODULE MCData -------------------------------
(***************************************************************************)
(* Instance of the components that compute: the message codec and its walk *)
(* over a message, the parts of pkg/metric, and the registration, which    *)
(* publishes what the metrics say.  They share no state that a property is *)
(* about, so a behaviour runs one of them, and the others stay where they  *)
(* begin: `part` says which.                                               *)
(***************************************************************************)
EXTENDS MCCodec, Walk, Latency, Percentile, Report, Discovery

VARIABLE part

NoLinks == [n \in Node |-> <<>>]

\* Nodes are interchangeable: the ones with fewer links come first.  The root is
\* chosen by MarshalPointer.
Canonical ==
    LET order == SetToSeq(Node)
    IN  /\ root = order[1]
        /\ \A i, j \in DOMAIN order : i < j => Len(links[order[i]]) <= Len(links[order[j]])

FirstBuckets == <<1, 5, 10>>

Part == {"bytes", "walk", "latency", "percentile", "report", "discovery"}

\* The components that a behaviour does not run.
Idle(p) ==
    CASE p = "bytes" -> UNCHANGED vars
      [] p = "walk" -> UNCHANGED walkVars
      [] p = "latency" -> UNCHANGED latVars
      [] p = "percentile" -> UNCHANGED pctVars
      [] p = "report" -> UNCHANGED repVars
      [] p = "discovery" -> UNCHANGED discVars

DataInit ==
    /\ part \in Part
    /\ part # "bytes" => ty = Struct(<<>>)
    /\ part # "walk" => links = NoLinks
    /\ Init /\ WalkInit /\ LatInit /\ PctInit /\ RepInit /\ DiscInit
    /\ Canonical
    /\ part # "latency" => slot = [s \in Sampler |-> 1]
    /\ part # "discovery" => frac = 0

Only(p) == part = p /\ UNCHANGED part /\ \A q \in Part \ {p} : Idle(q)

DataNext ==
    \/ Only("bytes") /\ Next
    \/ Only("walk") /\ WalkNext
    \/ Only("latency") /\ LatNext
    \/ Only("percentile") /\ PctNext
    \/ Only("report") /\ RepNext
    \/ Only("discovery") /\ DiscNext

dataVars == <<part, vars, walkVars, latVars, pctVars, repVars, discVars>>

DataSpec ==
    /\ DataInit /\ [][DataNext]_dataVars
    /\ WF_latVars(part = "latency" /\ ReadAndReset)
    /\ \A s \in Sampler : WF_latVars(part = "latency" /\ In(s))
=============================================================================
