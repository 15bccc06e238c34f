----------------------------- MODULE MCPoseidon -----------------------------
(***************************************************************************)
(* Poseidon over the field of 7 elements, with states of two to four       *)
(* elements, the program's eight full rounds and two or three partial      *)
(* ones, and tables made as the program's are; and Sponge with chunks of   *)
(* two bytes.  Inputs or messages grow by one at a time, the inputs to one *)
(* more than there are tables for, and one of their values is too large.   *)
(***************************************************************************)
EXTENDS Poseidon, Sponge

CONSTANT Inputs

VARIABLE inpBI   \* the inputs of Hash

MCRounds == 2 :> 2 @@ 3 :> 3 @@ 4 :> 2

MCConstant(t) ==
    [r \in 0 .. NROUNDSF + NROUNDSP[t] - 1, i \in 0 .. t - 1 |->
       (3 * r * r + 5 * i + r * i + 1) % Prime]

\* Not symmetric, and what Solve is asked to invert has an inverse.
MCMatrix(t) == [i \in 0 .. t - 1 |-> [j \in 0 .. t - 1 |-> (3 ^ (i * j) + i) % Prime]]

Paper(t) == INSTANCE PoseidonPaper WITH
    RoundsF <- NROUNDSF, RoundsP <- NROUNDSP[t], Constant <- MCConstant(t), Matrix <- MCMatrix(t)

MCC == Computed([t \in DOMAIN MCRounds |-> Computed(Paper(t)!TableC)])
MCS == Computed([t \in DOMAIN MCRounds |-> Computed(Paper(t)!TableS)])
MCM == Computed([t \in DOMAIN MCRounds |-> Paper(t)!TableM])
MCP == Computed([t \in DOMAIN MCRounds |-> Paper(t)!TableP])

-----------------------------------------------------------------------------
MCInit == SpongeInit /\ inpBI = <<>>

MoreInputs ==
    /\ msg = <<>>
    /\ Len(inpBI) < 4
    /\ \E x \in Inputs : inpBI' = Append(inpBI, x)
    /\ UNCHANGED msg

MoreBytes == inpBI = <<>> /\ AppendByte /\ UNCHANGED inpBI

MCNext == MoreInputs \/ MoreBytes

MCSpec == MCInit /\ [][MCNext]_<<msg, inpBI>>

\* With its constants moved, its matrices split and its indexes into four flat
\* tables, Hash computes the permutation of the paper, whatever the inputs;
\* other numbers of inputs, and inputs outside the field, are an error.
HashIsPoseidon ==
    LET t == Len(inpBI) + 1
        x == [i \in 0 .. t - 1 |-> IF i = 0 THEN 0 ELSE inpBI[i]]
    IN  IF t \in Widths /\ \A i \in 0 .. t - 1 : x[i] \in Field
        THEN Hash(inpBI) = Paper(t)!PaperHash(x)
        ELSE Hash(inpBI) = HashError

=============================================================================
