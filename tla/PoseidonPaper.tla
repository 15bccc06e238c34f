--------------------------- MODULE PoseidonPaper ----------------------------
(***************************************************************************)
(* Poseidon as its paper (eprint 2019/458, which the code cites) defines   *)
(* it: every round adds its constants, applies x^5 to all or one of the    *)
(* elements, and multiplies by one matrix.  And the tables that make       *)
(* Poseidon!Hash compute it: constants are moved through the matrix and    *)
(* the elements a partial round leaves alone, and every matrix of a        *)
(* partial round is split into a sparse one and one that moves a round     *)
(* ahead.                                                                  *)
(***************************************************************************)
EXTENDS Integers, FiniteSetsExt, SequencesExt

CONSTANTS
    Prime,
    RoundsF,    \* full rounds
    RoundsP,    \* partial rounds
    t,          \* the width of the state
    Constant,   \* <<round, element>> -> constant
    Matrix      \* t rows of t elements, from 0

Field == 0 .. Prime - 1

Rows == 0 .. t - 1

Computed(f) == f @@ <<>>   \* see Poseidon

Times(A, x) ==
    Computed([i \in DOMAIN A |->
       MapThenSumSet(LAMBDA j : A[i][j] * x[j], DOMAIN x) % Prime])

Fifth(a) == (a * a * a * a * a) % Prime

Partial(r) == r \in RoundsF \div 2 .. RoundsF \div 2 + RoundsP - 1

Round(x, r) ==
    LET added == [i \in Rows |-> (x[i] + Constant[r, i]) % Prime] IN
    Times(Matrix, [i \in Rows |-> IF Partial(r) /\ i > 0 THEN added[i] ELSE Fifth(added[i])])

Rounds == [r \in 1 .. RoundsF + RoundsP |-> r - 1]

PaperHash(x) == FoldLeft(Round, x, Rounds)[0]

-----------------------------------------------------------------------------
(***************************************************************************)
(* The tables, from the last partial round to the first.                   *)
(***************************************************************************)
\* The x with A x = b, where A has an inverse.
Solve(A, b) == CHOOSE x \in [DOMAIN A -> Field] : Times(A, x) = b

Row(r) == [i \in Rows |-> Constant[r, i]]

Lower == 1 .. t - 1

Sub(A) == [i \in Lower |-> [j \in Lower |-> A[i][j]]]

Transposed(A) == [i \in DOMAIN A |-> [j \in DOMAIN A |-> A[j][i]]]

Product(A, B) == Transposed([i \in Rows |-> Times(A, Transposed(B)[i])])

\* B = Sparse(B) times Ahead(B).
Ahead(B) ==
    [i \in Rows |-> [j \in Rows |-> IF i > 0 /\ j > 0 THEN B[i][j]
                                    ELSE IF i = j THEN 1 ELSE 0]]

\* The 2t-1 entries: the first row, then the rest of the first column.
Sparse(B) ==
    LET w == Solve(Transposed(Sub(B)), [j \in Lower |-> B[0][j]]) IN
    [i \in 0 .. 2 * t - 2 |-> IF i = 0 THEN B[0][0] ELSE IF i < t THEN w[i]
                              ELSE B[i - t + 1][0]]

\* Matrices[n] is what the last n partial rounds have made of the matrix of
\* the round before them.
Matrices[n \in 0 .. RoundsP] ==
    IF n = 0 THEN Matrix ELSE Product(Ahead(Matrices[n - 1]), Matrix)

\* Moved[n] is what has to be added before the last n partial rounds.
Moved[n \in 0 .. RoundsP] ==
    LET r == RoundsF \div 2 + RoundsP - n IN
    IF n = 0 THEN Row(r)
    ELSE LET back == Solve(Matrix, Moved[n - 1]) IN
         [i \in Rows |-> IF i = 0 THEN Constant[r, 0] ELSE (Constant[r, i] + back[i]) % Prime]

TableM == Transposed(Matrix)

TableP == Transposed(Matrices[RoundsP])

TableS ==
    [i \in 0 .. (2 * t - 1) * RoundsP - 1 |->
       Sparse(Matrices[RoundsP - 1 - i \div (2 * t - 1)])[i % (2 * t - 1)]]

\* The constants before the first round, those that come before the matrix of
\* the rounds of the first half, one per partial round, and those of the second.
TableC ==
    LET half     == RoundsF \div 2
        before   == t * (half + 1)
        early(n) == IF n = 0 THEN Row(0)
                    ELSE Solve(Matrix, IF n < half THEN Row(n) ELSE Moved[RoundsP])
        late(n)  == Solve(Matrix, Row(half + RoundsP + 1 + n))
    IN  [i \in 0 .. RoundsF * t + RoundsP - 1 |->
           IF i < before THEN early(i \div t)[i % t]
           ELSE IF i < before + RoundsP
           THEN Solve(Matrix, Moved[RoundsP - 1 - (i - before)])[0]
           ELSE late((i - before - RoundsP) \div t)[(i - before - RoundsP) % t]]

=============================================================================
