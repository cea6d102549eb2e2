---------------------------- MODULE MCStructures ----------------------------
(***************************************************************************)
(* Instances of how data is anchored and kept: the indexer and the anchor  *)
(* worker under faults; Merkle trees; the custody of palm oil and its      *)
(* graph; the refinery's graph; the versions of contracts.  They share no  *)
(* state; a behaviour is one of one of them, the focus.                    *)
(***************************************************************************)
EXTENDS MCAnchorPipeline, MerkleLog, CustodyFlow, RefineryDag, ContractRegistry

CONSTANTS f1, f2, f3, f4        \* holders of palm oil

\* The hops of a chain of holders, by a program of the load tests; n is what the
\* program expects at its end.
Chain(style, n) ==
  LET holders == <<f1, f2, f3>> IN
  [style |-> style, holders |-> holders, hops |-> ChainHops(holders, n), outputs |-> {f3},
   liters |-> 3, expected |-> n, preapproved |-> {}]
\* Hops between four holders that split and join.
Dag(hops) ==
  [style |-> "await_last", holders |-> <<f1, f2, f3, f4>>, hops |-> hops, outputs |-> {f4},
   liters |-> 3, expected |-> 3, preapproved |-> {}]
\* An example of an SDK, some of the holders having approved the relay before.
Example(style, holders, preapproved) ==
  [style |-> style, holders |-> holders, hops |-> ChainHops(holders, 3),
   outputs |-> {Last(holders)}, liters |-> 3, expected |-> 3, preapproved |-> preapproved]
MCFlows ==
  {Example("ts", <<Deployer, f2, f3>>, {f2}), Example("ts", <<Deployer, f2, f3>>, {}),
   Example("py", <<f1, f2, f3>>, {f1, f2}), Example("py", <<f1, f2, f3>>, {f2}),
   Example("go", <<f1, f2, f3>>, {}),
   Chain("await_last", 2), Chain("relay", 2), Chain("sequential", 2), Chain("verify", 3),
   Dag(<<Hop(f1, f2, 2), Hop(f1, f3, 1), Hop(f2, f3, 1), Hop(f3, f4, 2), Hop(f2, f4, 1)>>),
   Dag(<<Hop(f1, f2, 2), Hop(f2, f4, 2), Hop(f3, f4, 1), Hop(f1, f3, 1)>>),
   Dag(<<Hop(f1, f2, 1), Hop(f1, f2, 1), Hop(f1, f1, 1), Hop(f2, f4, 2), Hop(f1, f4, 1)>>)}

VARIABLE focus

pipelineVars == vars
structureVars == <<merkleVars, custodyVars, dagVars, registryVars>>

MCInit ==
  /\ focus \in {"pipeline", "merkle", "custody", "refinery", "registry"}
  /\ Init /\ MerkleInit /\ CustodyInit /\ DagInit /\ RegistryInit
  /\ focus = "custody" \/ flow = Chain("sequential", 2)

PipelineStep ==
  /\ focus = "pipeline" /\ Next
  /\ UNCHANGED structureVars
MerkleStep ==
  /\ focus = "merkle" /\ MerkleNext
  /\ UNCHANGED <<pipelineVars, custodyVars, dagVars, registryVars>>
CustodyStep ==
  /\ focus = "custody" /\ CustodyNext
  /\ UNCHANGED <<pipelineVars, merkleVars, dagVars, registryVars>>
DagStep ==
  /\ focus = "refinery" /\ DagNext
  /\ UNCHANGED <<pipelineVars, merkleVars, custodyVars, registryVars>>
RegistryStep ==
  /\ focus = "registry" /\ RegistryNext
  /\ UNCHANGED <<pipelineVars, merkleVars, custodyVars, dagVars>>

MCNext ==
  /\ UNCHANGED focus
  /\ PipelineStep \/ MerkleStep \/ CustodyStep \/ DagStep \/ RegistryStep

\* The fairness is the pipeline's own; where another component is in focus the
\* pipeline has its first block only, of which EventuallyCovered asks nothing.
MCSpec ==
  /\ MCInit
  /\ [][MCNext]_<<focus, pipelineVars, structureVars>>
  /\ Fairness
=============================================================================
