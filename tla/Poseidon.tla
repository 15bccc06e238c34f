------------------------------ MODULE Poseidon ------------------------------
(***************************************************************************)
(* The Poseidon permutation (poseidon/poseidon.go) as it is computed: with *)
(* round constants moved behind the S-boxes and with sparse matrices in    *)
(* the partial rounds.  Go slices are functions from 0; the tables of      *)
(* constants.go are parameters, indexed by the width t of the state.       *)
(***************************************************************************)
EXTENDS Integers, Sequences, FiniteSetsExt, SequencesExt, TLC

CONSTANTS
    Prime,     \* the order of the field
    NROUNDSF,  \* 8
    NROUNDSP,  \* number of partial rounds, by width
    C, S,      \* width -> round constants, and sparse matrices one by one
    M, P       \* width -> matrices of the full rounds, and of the last before
               \* the partial ones

Field == 0 .. Prime - 1

\* f itself: TLC evaluates a function where it is applied, over and over, and the
\* operands of @@ at once.
Computed(f) == f @@ <<>>

Widths == DOMAIN NROUNDSP

Slice(n, V) == [0 .. n - 1 -> V]

\* init: the tables, parsed once.
c == [c |-> Computed(C), s |-> Computed(S), m |-> Computed(M), p |-> Computed(P)]

\* Hash reads all of C and S, and nothing behind their ends.
ASSUME PoseidonAssumption ==
    /\ Prime \in Nat \ {0, 1}
    /\ NROUNDSF \in Nat \ {0} /\ NROUNDSF % 2 = 0
    /\ \A t \in Widths :
         /\ c.c[t] \in Slice(NROUNDSF * t + NROUNDSP[t], Field)
         /\ c.s[t] \in Slice((2 * t - 1) * NROUNDSP[t], Field)
         /\ c.m[t] \in Slice(t, Slice(t, Field))
         /\ c.p[t] \in Slice(t, Slice(t, Field))

\* What constants.go holds for the widths 2 to 17: the two lengths above.
RoundsInSource == <<56, 57, 56, 60, 60, 63, 64, 63, 60, 66, 60, 65, 70, 60, 64, 68>>

CLengths == <<72, 81, 88, 100, 108, 119, 128, 135, 140, 154, 156, 169, 182, 180, 192, 204>>

SLengths == <<168, 285, 392, 540, 660, 819, 960, 1071, 1140, 1386, 1380, 1625, 1890,
              1740, 1984, 2244>>

ASSUME SourceTablesFit ==
    \A i \in 1 .. 16 : LET t == i + 1 IN
        /\ CLengths[i] = 8 * t + RoundsInSource[i]
        /\ SLengths[i] = (2 * t - 1) * RoundsInSource[i]

-----------------------------------------------------------------------------
exp5(a) == (a * a * a * a * a) % Prime

exp5state(state) == [i \in DOMAIN state |-> exp5(state[i])]

ark(state, k, it) == [i \in DOMAIN state |-> (state[i] + k[it + i]) % Prime]

\* Faulty variant: the matrix is read by rows.
mixByRows(state, m) ==
    Computed([i \in DOMAIN state |->
       MapThenSumSet(LAMBDA j : m[i][j] * state[j], DOMAIN state) % Prime])

mix(state, m) ==
    Computed([i \in DOMAIN state |->
       MapThenSumSet(LAMBDA j : m[j][i] * state[j], DOMAIN state) % Prime])

\* A full round: the constants of the next one come before the matrix.
fullRound(state, k, it, m) == mix(ark(exp5state(state), k, it), m)

\* Round i of the partial ones: its 2t-1 entries of S are the first row of the
\* sparse matrix and the rest of its first column.
partialRound(state, t, i) ==
    LET s(j)    == c.s[t][(2 * t - 1) * i + j]
        first   == (exp5(state[0]) + c.c[t][(NROUNDSF \div 2 + 1) * t + i]) % Prime
        row     == [state EXCEPT ![0] = first]
    IN  Computed([k \in DOMAIN state |->
           IF k = 0 THEN MapThenSumSet(LAMBDA j : s(j) * row[j], DOMAIN row) % Prime
           ELSE (state[k] + first * s(t + k - 1)) % Prime])

\* The values of i in "for i := 0; i < n; i++".
Iterations(n) == [i \in 1 .. n |-> i - 1]

permute(state, t) ==
    LET half   == NROUNDSF \div 2
        begun  == FoldLeft(LAMBDA s, i : fullRound(s, c.c[t], (i + 1) * t, c.m[t]),
                           ark(state, c.c[t], 0), Iterations(half - 1))
        joined == fullRound(begun, c.c[t], half * t, c.p[t])
        middle == FoldLeft(LAMBDA s, i : partialRound(s, t, i), joined, Iterations(NROUNDSP[t]))
        behind == (half + 1) * t + NROUNDSP[t]
        ended  == FoldLeft(LAMBDA s, i : fullRound(s, c.c[t], behind + i * t, c.m[t]),
                           middle, Iterations(half - 1))
    IN  mix(exp5state(ended), c.m[t])

\* The error of Hash, for a number of inputs there are no tables for and for
\* inputs outside the field.
HashError == -1

Hash(inpBI) ==
    LET t == Len(inpBI) + 1 IN
    IF t \notin Widths \/ \E i \in DOMAIN inpBI : inpBI[i] \notin Field THEN HashError
    ELSE permute([i \in 0 .. t - 1 |-> IF i = 0 THEN 0 ELSE inpBI[i]], t)[0]

=============================================================================
