----------------------------- MODULE WindowSort -----------------------------
(***************************************************************************)
(* WindowSorter of src/datasets/datasense/window_sort.py: an external      *)
(* merge sort by window with bounded chunks and a bounded merge fan-in.    *)
(***************************************************************************)
EXTENDS Integers, Sequences, SequencesExt, FiniteSetsExt

CONSTANTS
    ChunkRows,      \* chunk_rows
    FanIn           \* merge_fan_in

ASSUME SortAssumption == ChunkRows \in Nat \ {0} /\ FanIn \in Nat \ {0, 1}

(* The reference: rows by window, equals in the order they came.             *)
ByWindow(rows) ==
    LET wids == {rows[i].wid : i \in DOMAIN rows}
        of(w) == SelectSeq(rows, LAMBDA r : r.wid = w)
    IN  IF rows = <<>> THEN <<>>
        ELSE FlattenSeq([n \in 1 .. (Max(wids) - Min(wids) + 1) |-> of(Min(wids) + n - 1)])

(* _grouped: runs of n, the last one shorter. *)
Grouped(s, n) ==
    [g \in 1 .. ((Len(s) + n - 1) \div n) |-> SubSeq(s, (g - 1) * n + 1, Min({g * n, Len(s)}))]

(* add and _spill: each chunk is sorted, equals keeping their order.         *)
Chunks(rows) ==
    LET runs == Grouped(rows, ChunkRows)
    IN  [c \in DOMAIN runs |-> ByWindow(runs[c])]

(* Mutant: the last chunk among equals. *)
NextChunkLast(heads) ==
    LET live == {c \in DOMAIN heads : heads[c] # <<>>}
        lowest == Min({Head(heads[c]).wid : c \in live})
    IN  Max({c \in live : Head(heads[c]).wid = lowest})

(* The chunk whose head heapq.merge takes: the lowest window, and the first  *)
(* chunk among equals.                                                       *)
NextChunk(heads) ==
    LET live == {c \in DOMAIN heads : heads[c] # <<>>}
        lowest == Min({Head(heads[c]).wid : c \in live})
    IN  Min({c \in live : Head(heads[c]).wid = lowest})

(* heapq.merge. *)
Merge(chunks) ==
    LET take(st, i) ==
            LET c == NextChunk(st.heads)
            IN  [heads |-> [st.heads EXCEPT ![c] = Tail(@)],
                 out |-> Append(st.out, Head(st.heads[c]))]
    IN  FoldLeft(take, [heads |-> chunks, out |-> <<>>], FlattenSeq(chunks)).out

(* One pass of iter_sorted over the levels. *)
MergePass(levels) ==
    LET groups == Grouped(levels, FanIn)
    IN  [g \in DOMAIN groups |-> Merge(groups[g])]

(* The levels left when at most FanIn remain. *)
FinalLevels(rows) ==
    LET pass(levels, i) == IF Len(levels) > FanIn THEN MergePass(levels) ELSE levels
    IN  FoldLeft(pass, Chunks(rows), Chunks(rows))

IterSorted(rows) == Merge(FinalLevels(rows))
=============================================================================
