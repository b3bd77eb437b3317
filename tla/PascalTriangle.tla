--------------------------- MODULE PascalTriangle ---------------------------
(***************************************************************************)
(* The table of binomial coefficients of dynare++/utils/cc/pascal_triangle, *)
(* shared by the threads of a group.  tr[k] holds the coefficients "n over  *)
(* k" for n = k + 1, k + 2, ...  A call of noverk tests the extent of the   *)
(* table, takes the mutex to enlarge it, and reads an element; each row is  *)
(* prolonged in a step of its own.                                          *)
(***************************************************************************)
EXTENDS Integers, Sequences

CONSTANTS
  Callers,     \* the threads
  Arguments,   \* the <<n, k>> they may ask for, 0 <= k <= n
  Calls        \* how many calls each makes

VARIABLES
  tr,      \* the rows
  mut,     \* the owner of the mutex, or "free"
  at,      \* where each caller is
  n, k,    \* its arguments
  row,     \* the row it prolongs next
  left,    \* the calls it has still to make
  value    \* what its last call returned

pascal == <<tr, mut, at, n, k, row, left, value>>

PascalInit ==
  /\ tr = <<<<2>>>> /\ mut = "free"
  /\ at = [c \in Callers |-> "idle"]
  /\ n = [c \in Callers |-> 0] /\ k = [c \in Callers |-> 0]
  /\ row = [c \in Callers |-> 0] /\ left = [c \in Callers |-> Calls]
  /\ value = [c \in Callers |-> 1]

max_n == Len(tr[1]) + 1
max_k == Len(tr)

(* PascalRow::prolongFirst and PascalRow::prolong.                          *)
prolongFirst(r, m) == r \o [i \in 1..(m - Len(r) - 1) |-> Len(r) + 1 + i]

prolong(r, kk, prev) ==
  LET first == IF r = <<>> THEN <<kk + 1>> ELSE r
      size == IF Len(prev) > Len(first) THEN Len(prev) ELSE Len(first)
      sums[i \in 1..size] == IF i <= Len(first) THEN first[i] ELSE sums[i - 1] + prev[i]
  IN  sums

Moves(c, from, to) == at[c] = from /\ at' = [at EXCEPT ![c] = to]

(* noverk: the smaller of k and n - k is looked up, zero needs no table.    *)
Call(c, a) ==
  LET kk == IF a[1] - a[2] < a[2] THEN a[1] - a[2] ELSE a[2]
  IN  /\ Moves(c, "idle", IF kk = 0 THEN "one" ELSE "along_n") /\ left[c] > 0
      /\ n' = [n EXCEPT ![c] = a[1]] /\ k' = [k EXCEPT ![c] = kk]
      /\ left' = [left EXCEPT ![c] = @ - 1]
      /\ UNCHANGED <<tr, mut, row, value>>

ReturnOne(c) == /\ Moves(c, "one", "idle") /\ value' = [value EXCEPT ![c] = 1]
                /\ UNCHANGED <<tr, mut, n, k, row, left>>

(* ensure: the first test, without the mutex.                               *)
TestN(c) == /\ Moves(c, "along_n", IF n[c] > max_n THEN "lock_n" ELSE "along_k")
            /\ UNCHANGED <<tr, mut, n, k, row, left, value>>

LockN(c) == /\ Moves(c, "lock_n", "first") /\ mut = "free" /\ mut' = c
            /\ UNCHANGED <<tr, n, k, row, left, value>>

First(c) == /\ Moves(c, "first", "others")
            /\ tr' = [tr EXCEPT ![1] = prolongFirst(@, n[c])]
            /\ row' = [row EXCEPT ![c] = 2]
            /\ UNCHANGED <<mut, n, k, left, value>>

Prolong(c) == /\ Moves(c, "others", "others") /\ row[c] <= max_k
              /\ tr' = [tr EXCEPT ![row[c]] = prolong(@, row[c], tr[row[c] - 1])]
              /\ row' = [row EXCEPT ![c] = @ + 1]
              /\ UNCHANGED <<mut, n, k, left, value>>

UnlockN(c) == /\ Moves(c, "others", "along_k") /\ row[c] > max_k /\ mut' = "free"
              /\ UNCHANGED <<tr, n, k, row, left, value>>

TestK(c) == /\ Moves(c, "along_k", IF k[c] > max_k THEN "lock_k" ELSE "read")
            /\ UNCHANGED <<tr, mut, n, k, row, left, value>>

LockK(c) == /\ Moves(c, "lock_k", "rows") /\ mut = "free" /\ mut' = c
            /\ row' = [row EXCEPT ![c] = max_k + 1]
            /\ UNCHANGED <<tr, n, k, left, value>>

(* emplace_back makes a row of one element, setFromPrevious clears and      *)
(* fills it.                                                                *)
AddRow(c) == /\ Moves(c, "rows", "fill") /\ row[c] <= k[c]
             /\ tr' = Append(tr, <<2>>)
             /\ UNCHANGED <<mut, n, k, row, left, value>>

FillRow(c) == /\ Moves(c, "fill", "rows")
              /\ tr' = [tr EXCEPT ![Len(tr)] = prolong(<<>>, row[c], tr[row[c] - 1])]
              /\ row' = [row EXCEPT ![c] = @ + 1]
              /\ UNCHANGED <<mut, n, k, left, value>>

UnlockK(c) == /\ Moves(c, "rows", "read") /\ row[c] > k[c] /\ mut' = "free"
              /\ UNCHANGED <<tr, n, k, row, left, value>>

(* The element the call is about to read, without the mutex.                *)
Exists(c) == k[c] <= Len(tr) /\ n[c] - k[c] <= Len(tr[k[c]])

M_ReadElement(c) ==
  /\ Moves(c, "read", "idle")
  /\ value' = [value EXCEPT ![c] = tr[k[c]][n[c] - k[c] - IF n[c] > k[c] + 1 THEN 1 ELSE 0]]
  /\ UNCHANGED <<tr, mut, n, k, row, left>>

ReadElement(c) ==
  /\ Moves(c, "read", "idle") /\ Exists(c)
  /\ value' = [value EXCEPT ![c] = tr[k[c]][n[c] - k[c]]]
  /\ UNCHANGED <<tr, mut, n, k, row, left>>

Done == /\ \A c \in Callers : at[c] = "idle" /\ left[c] = 0
        /\ UNCHANGED pascal

Step(c) == \/ \E a \in Arguments : Call(c, a)
           \/ ReturnOne(c) \/ TestN(c) \/ LockN(c) \/ First(c) \/ Prolong(c) \/ UnlockN(c)
           \/ TestK(c) \/ LockK(c) \/ AddRow(c) \/ FillRow(c) \/ UnlockK(c) \/ ReadElement(c)

PascalNext == (\E c \in Callers : Step(c)) \/ Done

PascalSpec == PascalInit /\ [][PascalNext]_pascal
-----------------------------------------------------------------------------
(* The element a call reads is in the table.                                *)
ElementExists == \A c \in Callers : at[c] = "read" => Exists(c)

(* m (m-1) ... (m-j+1).                                                     *)
Falling(m, j) ==
  LET p[i \in Nat] == IF i = 0 THEN 1 ELSE p[i - 1] * (m - i + 1) IN p[j]

(* noverk returns the binomial coefficient n over k, the product of n-k+1,  *)
(* ..., n over k factorial, however often the table was prolonged before.   *)
NoverkIsBinomial ==
  \A c \in Callers :
    at[c] = "idle" /\ left[c] < Calls =>
      value[c] * Falling(k[c], k[c]) = Falling(n[c], k[c])
=============================================================================
