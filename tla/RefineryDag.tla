---------------------------- MODULE RefineryDag ----------------------------
(***************************************************************************)
(* buildRefineryHops (ops/load-tests/scenario-refinery-dag.ts): the custody*)
(* graph of 900 liters through a refinery, built hop by hop from balances  *)
(* the program keeps beside the chain's, and sent as one executeHops.  A   *)
(* refinery is a sequence of flows, each a loop over the tanks of a stage; *)
(* a line of a loop moves liters along one or two legs.                    *)
(***************************************************************************)
EXTENDS Naturals, Integers, Sequences, FiniteSets, Functions, FiniteSetsExt, SequencesExt

CONSTANTS
    Tanks,          \* stage -> number of tanks
    Refinery,       \* the flows, in order
    InitialLiters   \* what the source holds

ASSUME DagAssumption == InitialLiters \in Nat /\ \A s \in DOMAIN Tanks : Tanks[s] \in Nat

VARIABLES
    atFlow,      \* the flow the program builds
    atLine,      \* the line of its loop
    planned,     \* tank -> liters, as the program accounts for them
    built,       \* the hops so far
    insufficient \* move threw

dagVars == <<atFlow, atLine, planned, built, insufficient>>

AllTanks == UNION {{s} \X (0..Tanks[s] - 1) : s \in DOMAIN Tanks}

\* A leg: from one stage to another, to tank (times * line + offset) modulo the
\* stage, either fixed amounts or equal shares of what the tank holds.
Leg(from, to, times, offsets, amounts) ==
    [from |-> from, to |-> to, times |-> times, offsets |-> offsets, amounts |-> amounts,
     shares |-> 0]
Drain(from, to, times, offsets) ==
    [from |-> from, to |-> to, times |-> times, offsets |-> offsets, amounts |-> <<>>,
     shares |-> Len(offsets)]

\* cur / n for each but the last (mutant).
EvenShares(cur, n) == [i \in 1..n |-> cur \div n]
\* cur / n for each, and the rest for the last.
Shares(cur, n) == [i \in 1..n |-> IF i < n THEN cur \div n ELSE cur - (n - 1) * (cur \div n)]

\* The hops of a leg for one line; a drained tank that is empty has none.
LegHops(leg, line, bal) ==
    LET from == <<leg.from, line % Tanks[leg.from]>>
        amounts == IF leg.shares = 0 THEN leg.amounts
                   ELSE IF bal[from] = 0 THEN <<>> ELSE Shares(bal[from], leg.shares)
    IN  [i \in DOMAIN amounts |->
            [from |-> from,
             to |-> <<leg.to, (leg.times * line + leg.offsets[i]) % Tanks[leg.to]>>,
             liters |-> amounts[i]]]

\* move: throws when the tank holds too little.
Move(acc, hop) ==
    IF ~acc.ok \/ acc.bal[hop.from] < hop.liters THEN [acc EXCEPT !.ok = FALSE]
    ELSE [acc EXCEPT !.hops = Append(@, hop),
                     !.bal[hop.from] = @ - hop.liters]
MoveTo(acc, hop) ==
    LET left == Move(acc, hop)
    IN  IF left.ok THEN [left EXCEPT !.bal[hop.to] = @ + hop.liters] ELSE left
MoveLeg(acc, leg) == FoldLeft(MoveTo, acc, LegHops(leg, atLine, acc.bal))

IsBuilt == atFlow > Len(Refinery)

\* One turn of a loop.
BuildLine ==
    /\ ~IsBuilt /\ ~insufficient
    /\ LET flow == Refinery[atFlow]
           after == FoldLeft(MoveLeg, [ok |-> TRUE, bal |-> planned, hops |-> <<>>], flow.legs)
       IN  /\ planned' = after.bal
           /\ built' = built \o after.hops
           /\ insufficient' = ~after.ok
           /\ IF atLine + 1 < flow.lines THEN atLine' = atLine + 1 /\ UNCHANGED atFlow
              ELSE atLine' = 0 /\ atFlow' = atFlow + 1

DagInit ==
    /\ atFlow = 1 /\ atLine = 0 /\ built = <<>> /\ insufficient = FALSE
    /\ planned = [t \in AllTanks |-> IF t = <<"src", 0>> THEN InitialLiters ELSE 0]
DagNext == BuildLine
DagSpec == DagInit /\ [][DagNext]_dagVars

-----------------------------------------------------------------------------
(* The published refinery: STAGES and the flows of buildRefineryHops *)

RefineryTanks ==
    [src |-> 1, recv |-> 5, settle |-> 10, deg_in |-> 8, deg_mid |-> 8, deg_out |-> 8,
     deo |-> 6, frac |-> 4, blend |-> 8, out |-> 10]

Loop(lines, legs) == [lines |-> lines, legs |-> legs]
Mixing(stage, n, offset, liters) ==
    Loop(n, <<Leg(stage, stage, 1, <<offset>>, <<liters>>)>>)

Receiving == <<Loop(5, <<Leg("src", "recv", 1, <<0, 0, 0>>, <<60, 70, 50>>)>>),
               Mixing("recv", 5, 1, 30), Mixing("recv", 5, 2, 20)>>
Settlement == <<Loop(5, <<Leg("recv", "settle", 2, <<0, 1, 3>>, <<70, 60, 50>>)>>),
                Mixing("settle", 10, 1, 20), Mixing("settle", 10, 3, 15)>>
Degumming == <<Loop(10, <<Drain("settle", "deg_in", 1, <<0, 1>>)>>),
               Loop(8, <<Drain("deg_in", "deg_mid", 1, <<0, 0, 0>>),
                         Drain("deg_mid", "deg_out", 1, <<0, 0>>)>>),
               Mixing("deg_out", 8, 1, 8), Mixing("deg_out", 8, 3, 5)>>
Deodorization == <<Loop(8, <<Drain("deg_out", "deo", 1, <<0, 2>>)>>),
                   Mixing("deo", 6, 1, 8), Mixing("deo", 6, 2, 5)>>
Fractionation == <<Loop(6, <<Drain("deo", "frac", 1, <<0, 1>>)>>),
                   Mixing("frac", 4, 1, 10)>>
Blending == <<Loop(4, <<Drain("frac", "blend", 2, <<0, 1, 3>>)>>),
              Mixing("blend", 8, 1, 6), Mixing("blend", 8, 3, 4)>>
Output == <<Loop(8, <<Drain("blend", "out", 1, <<0, 2>>)>>)>>

RefineryFlows ==
    Receiving \o Settlement \o Degumming \o Deodorization \o Fractionation \o Blending \o Output

-----------------------------------------------------------------------------
HeldAt(stage) == FoldLeft(+, 0, [i \in 1..Tanks[stage] |-> planned[<<stage, i - 1>>]])
Held(stages) == MapThenSumSet(HeldAt, stages)

\* The order of the moves is one in which every tank has what it passes on: move
\* never throws, no liter is left behind by the integer shares or made by the
\* mixing, and the graph ends with all of them in the output tanks, which is what
\* the program requires of the chain afterwards (scenario-refinery-dag.ts main).
NothingLeftBehind ==
    /\ ~insufficient
    /\ Held(DOMAIN Tanks) = InitialLiters
    /\ IsBuilt => HeldAt("out") = InitialLiters
=============================================================================
