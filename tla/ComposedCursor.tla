--------------------------- MODULE ComposedCursor --------------------------
(***************************************************************************)
(* compose_cursors: one cursor over the cursors of a scan, either in the   *)
(* order of its sources (ChainCursor) or merged by key (MergeCursor).      *)
(*                                                                         *)
(* A source is the sequence of the keys its cursor returns, in key order.  *)
(* A row is identified by its source and its place in it.  CompactionJob   *)
(* builds a MergeCursor directly, even over one source.                    *)
(***************************************************************************)
EXTENDS Integers, Sequences, FiniteSets

CONSTANTS
    Sources      \* the sequences of sources to compose

ASSUME SourcesAssumption ==
    \A s \in Sources :
      /\ s \in Seq(Seq(Int))
      /\ \A i \in 1 .. Len(s) : \A a, b \in 1 .. Len(s[i]) :
           a < b => s[i][a] <= s[i][b]

VARIABLES
    given,     \* the cursors handed to compose_cursors
    cursors,   \* cursors_: the valid ones
    kind,      \* "none", "empty", "single", "chain", "merge"
    pos,       \* per cursor, the place of its current row
    heap,      \* MergeCursor::heap_: pairs <<key, index>>
    current,   \* ChainCursor::current_cursor_, from 1
    returned   \* history: <<key, cursor, place>> of the rows

compose_vars == <<given, cursors, kind, pos, heap, current, returned>>

ComposeInit ==
    /\ given \in Sources
    /\ cursors = <<>>
    /\ kind = "none"
    /\ pos = <<>>
    /\ heap = {}
    /\ current = 1
    /\ returned = <<>>

(* valid() and key() of the cursor of a source at place p.                 *)
IsValid(source, p) == p <= Len(source)

(* push_if_valid(i), for a cursor at place p.                              *)
PushIfValid(h, source, i, p) ==
    IF IsValid(source, p) THEN h \cup {<<source[p], i>>} ELSE h

(* A next() of ChainCursor that moves on without asking the cursor.        *)
SkipAlways(c, ps) == c + 1

(* skip_invalid_cursors, from cursor c on, with the cursors at pos ps.  *)
SkipInvalid(c, ps) ==
    LET valid == {i \in c .. Len(cursors) : IsValid(cursors[i], ps[i])}
    IN  IF valid = {} THEN Len(cursors) + 1
        ELSE CHOOSE i \in valid : \A j \in valid : i <= j

(* The constructor of MergeCursor.                                         *)
InitialHeap(cs) == {<<cs[i][1], i>> : i \in {j \in 1 .. Len(cs) : cs[j] # <<>>}}

(* valid_cursors: the cursors that are valid, in their order.              *)
ValidCursors ==
    LET valid == {i \in 1 .. Len(given) : given[i] # <<>>}
        places == {f \in [1 .. Cardinality(valid) -> valid] :
                     \A a, b \in DOMAIN f : a < b => f[a] < f[b]}
    IN  {[i \in DOMAIN f |-> given[f[i]]] : f \in places}

(* compose_cursors(cursors, order).                                        *)
Compose(order) ==
    /\ kind = "none"
    /\ cursors' \in ValidCursors
    /\ kind' = CASE Len(cursors') = 0 -> "empty"
                 [] Len(cursors') = 1 -> "single"
                 [] OTHER -> IF order = "KeyAscending" THEN "merge" ELSE "chain"
    /\ pos' = [i \in 1 .. Len(cursors') |-> 1]
    /\ heap' = IF kind' = "merge" THEN InitialHeap(cursors') ELSE {}
    /\ UNCHANGED <<given, current, returned>>

(* The MergeCursor of CompactionJob::run.                                  *)
ComposeMerge ==
    /\ kind = "none"
    /\ cursors' \in ValidCursors
    /\ cursors' # <<>>
    /\ kind' = "merge"
    /\ pos' = [i \in 1 .. Len(cursors') |-> 1]
    /\ heap' = InitialHeap(cursors')
    /\ UNCHANGED <<given, current, returned>>

(* A heap ordered by key alone: ties in any order.                         *)
IsTopByKey(h, item) == item \in h /\ \A other \in h : item[1] <= other[1]

(* heap_.top(): std::greater on (key, index).                              *)
IsTop(h, item) ==
    /\ item \in h
    /\ \A other \in h : \/ item[1] < other[1]
                        \/ item[1] = other[1] /\ item[2] <= other[2]

(* A next() that pushes the key it has just returned.                      *)
MergeNextStale ==
    /\ kind = "merge"
    /\ \E item \in heap :
         /\ IsTop(heap, item)
         /\ LET i == item[2]
            IN  /\ returned' = Append(returned, <<item[1], i, pos[i]>>)
                /\ pos' = [pos EXCEPT ![i] = @ + 1]
                /\ heap' = IF IsValid(cursors[i], pos[i] + 1)
                             THEN heap ELSE heap \ {item}
    /\ UNCHANGED <<given, cursors, kind, current>>

(* MergeCursor: key() and value() of the top, then next().                 *)
MergeNext ==
    /\ kind = "merge"
    /\ \E item \in heap :
         /\ IsTop(heap, item)
         /\ LET i == item[2]
            IN  /\ returned' = Append(returned, <<item[1], i, pos[i]>>)
                /\ pos' = [pos EXCEPT ![i] = @ + 1]
                /\ heap' = PushIfValid(heap \ {item}, cursors[i], i, pos[i] + 1)
    /\ UNCHANGED <<given, cursors, kind, current>>

(* A ChainCursor (or a single cursor, which it equals): the current row,   *)
(* then next().                                                            *)
ChainNext ==
    /\ kind \in {"chain", "single"}
    /\ current <= Len(cursors)
    /\ returned' = Append(returned, <<cursors[current][pos[current]], current,
                                      pos[current]>>)
    /\ pos' = [pos EXCEPT ![current] = @ + 1]
    /\ current' = SkipInvalid(current, pos')
    /\ UNCHANGED <<given, cursors, kind, heap>>

ComposeNext ==
    \/ \E order \in {"Unordered", "KeyAscending"} : Compose(order)
    \/ ComposeMerge
    \/ MergeNext
    \/ ChainNext

ComposeSpec == ComposeInit /\ [][ComposeNext]_compose_vars

-----------------------------------------------------------------------------
(* Properties.                                                             *)

ComposedValid == IF kind = "merge" THEN heap # {} ELSE current <= Len(cursors)

AllRows ==
    {<<cursors[q[1]][q[2]], q[1], q[2]>> :
       q \in UNION {{i} \X (1 .. Len(cursors[i])) : i \in 1 .. Len(cursors)}}

Lexicographic(a, b) ==
    \/ a[1] < b[1]
    \/ a[1] = b[1] /\ a[2] < b[2]
    \/ a[1] = b[1] /\ a[2] = b[2] /\ a[3] < b[3]

(* The cached keys in MergeCursor::heap_ are those of the cursors: exactly *)
(* one item for every valid cursor, with its current key, so that key()    *)
(* and value() speak of the same row.                                      *)
HeapFresh ==
    kind = "merge" =>
      heap = {<<cursors[i][pos[i]], i>> :
                i \in {j \in 1 .. Len(cursors) : IsValid(cursors[j], pos[j])}}

(* The keys of a merge never go down, and rows with the same key come in   *)
(* the order of their sources and, in one source, in its order             *)
(* (merge_cursor_tests.cpp, DuplicateKeysAreReturnedDeterministically).    *)
MergeDeterministic ==
    kind = "merge" =>
      \A a, b \in 1 .. Len(returned) :
        a < b => Lexicographic(returned[a], returned[b])

(* When the composed cursor is no longer valid, every row of every source  *)
(* has been returned, and none twice.                                      *)
AllRowsOnce ==
    kind # "none" =>
      /\ Cardinality({returned[n] : n \in 1 .. Len(returned)}) = Len(returned)
      /\ {returned[n] : n \in 1 .. Len(returned)} \subseteq AllRows
      /\ ~ComposedValid => {returned[n] : n \in 1 .. Len(returned)} = AllRows

-----------------------------------------------------------------------------
(* The inductive invariant.                                                *)

RowsReturned == {returned[n] : n \in 1 .. Len(returned)}

(* Every cursor is sorted and stands at a row or at its end, and nothing   *)
(* happens before the composition.                                         *)
ComposeTypeOK ==
    /\ given \in Sources
    /\ cursors \in Seq(Seq(Int) \ {<<>>})
    /\ \A i \in 1 .. Len(cursors) : \A a, b \in 1 .. Len(cursors[i]) :
         a < b => cursors[i][a] <= cursors[i][b]
    /\ kind \in {"none", "empty", "single", "chain", "merge"}
    /\ pos \in [1 .. Len(cursors) -> Nat]
    /\ \A i \in 1 .. Len(cursors) : pos[i] \in 1 .. Len(cursors[i]) + 1
    /\ heap \subseteq Int \X Nat
    /\ current \in 1 .. Len(cursors) + 1
    /\ returned \in Seq(Int \X Nat \X Nat)
    /\ kind \in {"none", "empty"} => cursors = <<>> /\ returned = <<>>

(* The rows returned are those before the places of the cursors, each once.*)
PassedInv ==
    /\ RowsReturned = {row \in AllRows : row[3] < pos[row[2]]}
    /\ IsFiniteSet(RowsReturned) /\ Cardinality(RowsReturned) = Len(returned)

(* A merge has returned no row that belongs behind one still to come.      *)
MergeInv ==
    /\ HeapFresh
    /\ MergeDeterministic
    /\ kind = "merge" =>
         \A row \in RowsReturned, later \in AllRows \ RowsReturned :
           Lexicographic(row, later)

(* The cursors of a chain before the current one are at their end, and the *)
(* current one is not.                                                     *)
ChainInv ==
    kind \in {"single", "chain"} =>
      /\ \A i \in 1 .. current - 1 : ~IsValid(cursors[i], pos[i])
      /\ current <= Len(cursors) => IsValid(cursors[current], pos[current])

ComposeInv == ComposeTypeOK /\ PassedInv /\ MergeInv /\ ChainInv
=============================================================================
