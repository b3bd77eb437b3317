---------------------------- MODULE SparseLists ----------------------------
(***************************************************************************)
(* The sparse matrix of the bytecode solver (SparseMatrix.cc) and its      *)
(* memory manager (Mem_Mngr.cc): non-zero elements that are linked in a    *)
(* list per row and a list per column, taken from chunks of memory, each   *)
(* with a slot of the vector u for its value.                              *)
(*                                                                         *)
(* A list is a sequence of elements, an element is its rank in             *)
(* NZE_Mem_add, and the matrix is a record:                                *)
(*   row, col     FNZE_R and FNZE_C, the lists                             *)
(*   nbR, nbC     NbNZRow and NbNZCol, the counters kept beside them       *)
(*   el           element -> [u, r, c, lag]                                *)
(*   stack        Chunk_Stack, the elements given back                     *)
(*   heap, size, blck   CHUNK_heap_pos, CHUNK_SIZE, CHUNK_BLCK_SIZE        *)
(*   uListe, uCount, uAlloc   the slots of u: given back, used, allocated  *)
(*   uSave        u_count_alloc_save                                       *)
(*   fault        an access the code does not guard was out of place       *)
(* Operators whose name starts with M_ are mutated forms of the definition *)
(* that follows them and are used by no other definition.                  *)
(***************************************************************************)
EXTENDS Loops, SequencesExt, Functions, TLC

(* init_Mem, init_CHUNK_BLCK_SIZE and the arrays of Simple_Init and         *)
(* Init_GE: no element yet.                                                *)
EmptyMatrix(n, uCount, uAlloc) ==
  [row |-> [r \in 0..(n - 1) |-> <<>>], col |-> [c \in 0..(n - 1) |-> <<>>],
   nbR |-> [r \in 0..(n - 1) |-> 0], nbC |-> [c \in 0..(n - 1) |-> 0],
   el |-> <<>>, stack |-> <<>>, heap |-> 0, size |-> 0, blck |-> uCount,
   uListe |-> <<>>, uCount |-> uCount, uAlloc |-> uAlloc, uSave |-> uAlloc,
   fault |-> FALSE]

(* mxMalloc_NZE: the element returned and the matrix after it.              *)
mxMalloc_NZE(s) ==
  IF s.stack # <<>>
    THEN [e |-> Last(s.stack), s |-> [s EXCEPT !.stack = Front(s.stack)]]
    ELSE [e |-> s.heap,
          s |-> [s EXCEPT !.heap = @ + 1,
                          !.size = IF s.heap < s.size THEN @ ELSE @ + s.blck]]

M_mxFree_NZE(s, e) == [s EXCEPT !.stack = @ \o <<e, e>>]

mxFree_NZE(s, e) == [s EXCEPT !.stack = Append(@, e)]

(* Get_u: the slot returned and the matrix after it.                        *)
Get_u(s) ==
  IF s.uListe # <<>>
    THEN [i |-> Last(s.uListe), s |-> [s EXCEPT !.uListe = Front(s.uListe)]]
    ELSE [i |-> s.uCount,
          s |-> [s EXCEPT !.uCount = @ + 1,
                          !.uAlloc = IF s.uCount < s.uAlloc THEN @
                                     ELSE @ + 5 * s.uSave]]

Clear_u(s) == [s EXCEPT !.uListe = <<>>]

NRow(s, r) == s.nbR[r]

(* What At_Row and At_Col let the callers walk: the counter of elements     *)
(* from the head of the list, which the list must have.                    *)
At_Row(s, r) == SubSeq(s.row[r], 1, s.nbR[r])

At_Col(s, c) == SubSeq(s.col[c], 1, s.nbC[c])

(* At_Col with a lag: the first element of that lag and those that follow   *)
(* it with the same lag.                                                   *)
At_ColLag(s, c, lag) ==
  LET here == {k \in DOMAIN s.col[c] : s.el[s.col[c][k]].lag = lag}
      from == CHOOSE k \in here : \A l \in here : k <= l
      upto == CHOOSE k \in from..Len(s.col[c]) :
                /\ \A l \in from..k : l \in here
                /\ k + 1 \notin here
  IN  IF here = {} THEN <<>> ELSE SubSeq(s.col[c], from, upto)

(* At_Pos: the element of row r in column c; the code walks off the list    *)
(* when there is none.                                                     *)
HasPos(s, r, c) == \E k \in DOMAIN s.row[r] : s.el[s.row[r][k]].c = c

At_Pos(s, r, c) ==
  s.row[r][CHOOSE k \in DOMAIN s.row[r] : s.el[s.row[r][k]].c = c]

(* Delete: unlinks the element of row r and column c from both lists and    *)
(* gives back its slot of u and its memory.                                *)
Delete(s, r, c) ==
  IF ~HasPos(s, r, c) THEN [s EXCEPT !.fault = TRUE]
  ELSE LET e == At_Pos(s, r, c)
       IN  mxFree_NZE([s EXCEPT !.row[r] = SelectSeq(@, LAMBDA x : x # e),
                                !.col[c] = SelectSeq(@, LAMBDA x : x # e),
                                !.nbR[r] = @ - 1,
                                !.nbC[c] = @ - 1,
                                !.uListe = Append(@, s.el[e].u)], e)

(* The walk of Insert along one list: it stops at the first element whose   *)
(* rank is not below the new one's or at the last element; the new element *)
(* goes before it when its rank is lower, otherwise it becomes the last.   *)
InsertInList(list, rank(_), e, at) ==
  LET stop == CHOOSE k \in DOMAIN list :
                /\ k = Len(list) \/ rank(list[k]) >= at
                /\ \A l \in 1..(k - 1) : rank(list[l]) < at
  IN  IF rank(list[stop]) > at
        THEN SubSeq(list, 1, stop - 1) \o <<e>> \o SubSeq(list, stop, Len(list))
        ELSE SubSeq(list, 1, stop) \o <<e>>

(* Insert: neither list may be empty, since the code reads its head.        *)
Insert(s, r, c, u, lag) ==
  IF s.row[r] = <<>> \/ s.col[c] = <<>> THEN [s EXCEPT !.fault = TRUE]
  ELSE LET m == mxMalloc_NZE(s)
           ColOf(e) == s.el[e].c
           RowOf(e) == s.el[e].r
       IN  [m.s EXCEPT
              !.el = (m.e :> [u |-> u, r |-> r, c |-> c, lag |-> lag]) @@ @,
              !.row[r] = InsertInList(@, ColOf, m.e, c),
              !.col[c] = InsertInList(@, RowOf, m.e, r),
              !.nbR[r] = @ + 1,
              !.nbC[c] = @ + 1]

(* The element Simple_Init and Init_GE put at the end of its two lists.     *)
AppendElem(s, r, c, u, lag) ==
  LET m == mxMalloc_NZE(s)
  IN  [m.s EXCEPT
         !.el = (m.e :> [u |-> u, r |-> r, c |-> c, lag |-> lag]) @@ @,
         !.row[r] = Append(@, m.e), !.nbR[r] = @ + 1,
         !.col[c] = Append(@, m.e), !.nbC[c] = @ + 1]

(* Free_All and End_GE: nothing of the matrix is left; the slots of u stay. *)
End_GE(s) ==
  [EmptyMatrix(0, s.uCount, s.uAlloc) EXCEPT !.uListe = s.uListe,
                                             !.uSave = s.uSave,
                                             !.fault = s.fault]
-----------------------------------------------------------------------------
Live(s) == UNION {ToSet(s.row[r]) : r \in DOMAIN s.row}

Sorted(list, rank(_)) ==
  \A k \in 1..(Len(list) - 1) : rank(list[k]) < rank(list[k + 1])

(* An element is in the list of its row and in the list of its column and   *)
(* nowhere else, the lists are sorted and the counters count them: what    *)
(* Insert, Delete and the elimination keep up together.                    *)
ListsAgree(s) ==
  LET ColOf(e) == s.el[e].c
      RowOf(e) == s.el[e].r
  IN  /\ \A r \in DOMAIN s.row :
           /\ s.nbR[r] = Len(s.row[r]) /\ Sorted(s.row[r], ColOf)
           /\ \A e \in ToSet(s.row[r]) :
                s.el[e].r = r /\ e \in ToSet(s.col[s.el[e].c])
      /\ \A c \in DOMAIN s.col :
           /\ s.nbC[c] = Len(s.col[c]) /\ Sorted(s.col[c], RowOf)
           /\ \A e \in ToSet(s.col[c]) :
                s.el[e].c = c /\ e \in ToSet(s.row[s.el[e].r])

(* No memory and no slot of u is used twice or given back while in use: an  *)
(* element returned by Delete is reused by the Insert of the same row.     *)
NoSharing(s, b) ==
  /\ \A e \in Live(s) : e < s.heap /\ s.el[e].u < s.uCount
  /\ s.heap <= s.size /\ s.uCount <= s.uAlloc
  /\ ToSet(s.stack) \cap Live(s) = {} /\ IsInjective(s.stack)
  /\ \A e, f \in Live(s) : s.el[e].u = s.el[f].u => e = f
  /\ \A e \in Live(s) : s.el[e].u \notin ToSet(s.uListe) \cup ToSet(b)
  /\ IsInjective(s.uListe)
============================================================================
