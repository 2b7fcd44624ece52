----------------------------- MODULE MatrixThreads -----------------------------
(***************************************************************************)
(* matrix-threads/matrix_threads.c: create_threads starts a thread per row *)
(* and joins them all, first to fill the matrix, which main then prints,   *)
(* and again to sum the rows; a row's sum replaces its last element.       *)
(***************************************************************************)
EXTENDS Naturals, FiniteSetsExt

CONSTANTS N, M,   \* rows and columns
          Values  \* of rand() % 101

Rows == 1..N
Columns == 1..M

VARIABLES
  func,      \* what create_threads runs: "fill_row" or "sum_of_rows"
  joiner,    \* "creating", "joining", "done" or "failed"
  created,   \* threads this call has created
  matrix,
  column,    \* per thread: the column it is at
  sum,       \* per thread: its local variable
  filled,    \* what print_matrix printed
  total      \* what the last line printed

vars == <<func, joiner, created, matrix, column, sum, filled, total>>

Init ==
  /\ func = "fill_row" /\ joiner = "creating" /\ created = 0
  /\ matrix = [r \in Rows |-> [c \in Columns |-> 0]]
  /\ column = [r \in Rows |-> 1]
  /\ sum = [r \in Rows |-> 0]
  /\ filled = matrix
  /\ total = 0

Create ==
  /\ joiner = "creating"
  /\ created' = created + 1
  /\ joiner' = IF created' = N THEN "joining" ELSE joiner
  /\ UNCHANGED <<func, matrix, column, sum, filled, total>>

CreateFails ==
  /\ joiner = "creating"
  /\ joiner' = "failed"
  /\ UNCHANGED <<func, created, matrix, column, sum, filled, total>>

(* a thread that runs: exit() in main ends them all *)
Runs(r) == joiner # "failed" /\ r <= created

FillCell(r) ==
  /\ Runs(r) /\ func = "fill_row" /\ column[r] <= M
  /\ \E x \in Values : matrix' = [matrix EXCEPT ![r][column[r]] = x]
  /\ column' = [column EXCEPT ![r] = @ + 1]
  /\ UNCHANGED <<func, joiner, created, sum, filled, total>>

AddCell(r) ==
  /\ Runs(r) /\ func = "sum_of_rows" /\ column[r] <= M
  /\ sum' = [sum EXCEPT ![r] = @ + matrix[r][column[r]]]
  /\ column' = [column EXCEPT ![r] = @ + 1]
  /\ UNCHANGED <<func, joiner, created, matrix, filled, total>>

StoreSum(r) ==
  /\ Runs(r) /\ func = "sum_of_rows" /\ column[r] = M + 1
  /\ matrix' = [matrix EXCEPT ![r][M] = sum[r]]
  /\ column' = [column EXCEPT ![r] = @ + 1]
  /\ UNCHANGED <<func, joiner, created, sum, filled, total>>

Ended(r) == column[r] = IF func = "fill_row" THEN M + 1 ELSE M + 2

(* mutant of AllEnded: joins the last thread only *)
LastEnded == Ended(N)

AllEnded == \A r \in Rows : Ended(r)

(* every thread is joined: print_matrix and the second create_threads *)
PrintMatrix ==
  /\ joiner = "joining" /\ func = "fill_row" /\ AllEnded
  /\ filled' = matrix
  /\ func' = "sum_of_rows" /\ joiner' = "creating" /\ created' = 0
  /\ column' = [r \in Rows |-> 1]
  /\ UNCHANGED <<matrix, sum, total>>

PrintTotal ==
  /\ joiner = "joining" /\ func = "sum_of_rows" /\ AllEnded
  /\ total' = MapThenSumSet(LAMBDA r : matrix[r][M], Rows)
  /\ joiner' = "done"
  /\ UNCHANGED <<func, created, matrix, column, sum, filled>>

Next ==
  \/ Create \/ CreateFails \/ PrintMatrix \/ PrintTotal
  \/ \E r \in Rows : FillCell(r) \/ AddCell(r) \/ StoreSum(r)

Over == joiner \in {"done", "failed"}

-----------------------------------------------------------------------------

(***************************************************************************)
(* The total is the sum of the matrix that was printed, although each      *)
(* thread destroys an element of it: every thread of one kind has ended    *)
(* before main reads its row or starts the next kind.                      *)
(***************************************************************************)
TotalOfPrinted ==
  joiner = "done" =>
    total = MapThenSumSet(LAMBDA x : filled[x[1]][x[2]], Rows \X Columns)
=============================================================================
