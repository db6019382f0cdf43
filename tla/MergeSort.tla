------------------------------ MODULE MergeSort ------------------------------
(***************************************************************************)
(* The parallel merge sort (sems/mergesort/mergesort.c): N threads sort    *)
(* one segment of the array each, main joins them, merges the segments     *)
(* into a new array and compares that with a sorted copy of itself.        *)
(***************************************************************************)
EXTENDS Integers, FiniteSets

CONSTANTS
  M, NSorters,     \* length of the array, number of threads
  INT_MAX   \* the largest int; the elements are 0 .. INT_MAX

ASSUME SizesAssumption == M \in Nat \ {0} /\ NSorters \in 1 .. M /\ INT_MAX \in Nat

Sorters == 0 .. NSorters - 1
Index   == 0 .. M - 1
Value   == 0 .. INT_MAX
Garbage == -1              \* not written yet

VARIABLES
  input,         \* the array main starts with
  array,         \* monitor.array
  sorter,           \* the threads: "none", "sort" or "done"
  sortpc, started,  \* main: where it is, how many threads it has started
  indices,       \* merge: the next element of each segment
  new_array, merged   \* merge: the result and its length so far

sortVars == <<input, array, sorter, sortpc, started, indices, new_array, merged>>

Start(t) == t * (M \div NSorters)

SortInit ==
  /\ input \in [Index -> Value] /\ array = input
  /\ sorter = [t \in Sorters |-> "none"] /\ sortpc = "create" /\ started = 0
  /\ indices = [t \in Sorters |-> Start(t)]
  /\ new_array = [n \in Index |-> Garbage] /\ merged = 0

-----------------------------------------------------------------------------
Sorted(a, from, to) == \A m, n \in from .. to - 1 : m <= n => a[m] <= a[n]

\* How often v is among the elements from .. to - 1.
Count(a, from, to, v) == Cardinality({n \in from .. to - 1 : a[n] = v})

\* What qsort can make of the elements from .. to - 1: the same ones, sorted.
qsort(a, from, to) ==
  {b \in [Index -> Value] :
     /\ \A n \in Index \ (from .. to - 1) : b[n] = a[n]
     /\ Sorted(b, from, to)
     /\ \A v \in Value : Count(b, from, to, v) = Count(a, from, to, v)}

\* The thread sorts M / N elements; they are nobody else's.
sort_subarray(t) ==
  /\ sorter[t] = "sort" /\ sorter' = [sorter EXCEPT ![t] = "done"]
  /\ array' \in qsort(array, Start(t), Start(t) + M \div NSorters)
  /\ UNCHANGED <<input, sortpc, started, indices, new_array, merged>>

StartSorter ==
  /\ sortpc = "create"
  /\ sorter' = [sorter EXCEPT ![started] = "sort"] /\ started' = started + 1
  /\ sortpc' = IF started' < NSorters THEN "create" ELSE "join"
  /\ UNCHANGED <<input, array, indices, new_array, merged>>

StartFails ==
  /\ sortpc = "create" /\ sortpc' = "join_failed"
  /\ UNCHANGED <<input, array, sorter, started, indices, new_array, merged>>

Mutant_JoinSorters ==
  /\ sortpc \in {"join", "join_failed"}
  /\ \A t \in 0 .. started - 2 : sorter[t] = "done"
  /\ sortpc' = IF sortpc = "join" THEN "merge" ELSE "failed"
  /\ UNCHANGED <<input, array, sorter, started, indices, new_array, merged>>

JoinSorters ==
  /\ sortpc \in {"join", "join_failed"}
  /\ \A t \in 0 .. started - 1 : sorter[t] = "done"
  /\ sortpc' = IF sortpc = "join" THEN "merge" ELSE "failed"
  /\ UNCHANGED <<input, array, sorter, started, indices, new_array, merged>>

-----------------------------------------------------------------------------
(* merge                                                                   *)

\* The last segment also takes what the division left over.
End(t) == IF t = NSorters - 1 THEN M ELSE Start(t + 1)

\* t is the first of the segments whose next element is least.  The search
\* starts from INT_MAX, so an element of that value is never found.
find_min_in_current_slice(t) ==
  /\ indices[t] < End(t) /\ array[indices[t]] < INT_MAX
  /\ \A u \in Sorters : indices[u] < End(u) =>
       \/ array[indices[t]] < array[indices[u]]
       \/ array[indices[t]] = array[indices[u]] /\ t <= u

Mutant_MergeStep ==
  /\ sortpc = "merge" /\ merged < M
  /\ \E t \in Sorters :
       /\ find_min_in_current_slice(t)
       /\ new_array' = [new_array EXCEPT ![merged] = array[indices[t]]]
  /\ merged' = merged + 1
  /\ UNCHANGED <<input, array, sorter, sortpc, started, indices>>

MergeStep ==
  /\ sortpc = "merge" /\ merged < M
  /\ \E t \in Sorters :
       /\ find_min_in_current_slice(t)
       /\ new_array' = [new_array EXCEPT ![merged] = array[indices[t]]]
       /\ indices' = [indices EXCEPT ![t] = @ + 1]
  /\ merged' = merged + 1
  /\ UNCHANGED <<input, array, sorter, sortpc, started>>

\* check_sorting: is new_array equal to a sorted copy of itself, that is, one of
\* the things (there is one) qsort can make of it?  Where the
\* merge stopped early, malloc may have left anything in the rest.
Check ==
  /\ sortpc = "merge"
  /\ merged = M \/ ~ \E t \in Sorters : find_min_in_current_slice(t)
  /\ \E left \in [merged .. M - 1 -> Value] :
       new_array' = [n \in Index |-> IF n < merged THEN new_array[n] ELSE left[n]]
  /\ sortpc' = IF new_array' \in qsort(new_array', 0, M) THEN "successful" ELSE "unsorted"
  /\ UNCHANGED <<input, array, sorter, started, indices, merged>>

SortStop == sortpc \in {"successful", "unsorted", "failed"} /\ UNCHANGED sortVars

SortNext ==
  \/ StartSorter \/ StartFails \/ JoinSorters \/ MergeStep \/ Check \/ SortStop
  \/ \E t \in Sorters : sort_subarray(t)

SortSpec == SortInit /\ [][SortNext]_sortVars

-----------------------------------------------------------------------------
(* Properties.                                                             *)

SortTypeOK ==
  /\ input \in [Index -> Value] /\ array \in [Index -> Value]
  /\ sorter \in [Sorters -> {"none", "sort", "done"}]
  /\ sortpc \in {"create", "join", "join_failed", "merge", "successful", "unsorted", "failed"}
  /\ started \in 0 .. NSorters
  /\ indices \in [Sorters -> 0 .. M] /\ merged \in 0 .. M
  /\ new_array \in [Index -> Value \cup {Garbage}]

NoMaximum == \A n \in Index : input[n] < INT_MAX

\* Every segment the merge reads is sorted: main has joined all threads, and
\* they have sorted all of the array between them.
SortedWhenMerged ==
  sortpc = "merge" => \A t \in Sorters : Sorted(array, Start(t), End(t))

\* "Sorting succesful" is printed for a sorted rearrangement of the input.
SuccessIsTrue ==
  sortpc = "successful" /\ NoMaximum =>
    Sorted(new_array, 0, M) /\ \A v \in Value : Count(new_array, 0, M, v) = Count(input, 0, M, v)
=============================================================================
