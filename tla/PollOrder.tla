------------------------------- MODULE PollOrder -------------------------------
(***************************************************************************)
(* How cl_uc::it_sources, the list do_interrupt() polls, is built.  Every  *)
(* peripheral adds its interrupt sources when it is added to the part:     *)
(* most with cl_sorted_list::add() (pobj.cc), which finds the place by     *)
(* binary search among the poll priorities and lets equal ones in, the PCA *)
(* with cl_list::add_at(4) (pca.cc).  The order in which the peripherals   *)
(* come is the one of the part's mk_hw_elements().                         *)
(***************************************************************************)
EXTENDS Integers, SequencesExt

CONSTANTS
  Poll,      \* Poll[s]: cl_it_src::poll_priority of each source
  Orders,    \* the orders in which the sources may be added, sequences
  Fixed,     \* the sources that are added with add_at()
  FixedAt    \* ... at this index, counted from 0 as in the code

ASSUME ListAssumption ==
  /\ Poll \in [DOMAIN Poll -> Int]
  /\ Orders \subseteq Seq(DOMAIN Poll)
  /\ FixedAt \in Nat

VARIABLES
  it_sources,   \* the list
  to_add        \* the sources still to be added, in their order

list_vars == <<it_sources, to_add>>

(* How many of the first n sources of an order are polled before p.         *)
CountBelow(o, n, p) == Cardinality({j \in 1..n : Poll[o[j]] < p})

(* The fixed index is a place where the k-th source of an order belongs     *)
(* among those added before it, if it is added there.                       *)
FixedFitsAt(o, k) ==
  o[k] \in Fixed =>
    FixedAt \in CountBelow(o, k - 1, Poll[o[k]])..CountBelow(o, k - 1, Poll[o[k]] + 1)

FixedFits(o) == \A k \in DOMAIN o : FixedFitsAt(o, k)

(* The index is not beyond the end of the list, where add_at() would move   *)
(* fewer than no items.                                                     *)
InReach(o) == \A k \in DOMAIN o : o[k] \in Fixed => FixedAt < k

-----------------------------------------------------------------------------
(* Mutant: compare() is given its keys the wrong way round.                 *)
HalveSwapped(list, w, p) ==
  LET i == (w.l + w.h) \div 2
  IN IF p < Poll[list[i + 1]] THEN [w EXCEPT !.l = i + 1] ELSE [w EXCEPT !.h = i - 1]

(* cl_sorted_list::search() with Duplicates set, on l and h: the window     *)
(* shrinks until the first place whose priority is not below p is found.    *)
Halve(list, w, p) ==
  LET i == (w.l + w.h) \div 2
  IN IF Poll[list[i + 1]] < p THEN [w EXCEPT !.l = i + 1] ELSE [w EXCEPT !.h = i - 1]

Search(list, p) ==
  LET n == Len(list)
      window[k \in 0..n] ==
        IF k = 0 THEN [l |-> 0, h |-> n - 1]
        ELSE IF window[k - 1].l <= window[k - 1].h THEN Halve(list, window[k - 1], p)
        ELSE window[k - 1]
  IN window[n].l

(* cl_list::add_at().                                                       *)
AddAt(list, index, s) == InsertAt(list, index + 1, s)

AddSorted ==
  /\ to_add # <<>>
  /\ Head(to_add) \notin Fixed
  /\ it_sources' = AddAt(it_sources, Search(it_sources, Poll[Head(to_add)]), Head(to_add))
  /\ to_add' = Tail(to_add)

AddFixed ==
  /\ to_add # <<>>
  /\ Head(to_add) \in Fixed
  /\ it_sources' = AddAt(it_sources, FixedAt, Head(to_add))
  /\ to_add' = Tail(to_add)

ListInit == it_sources = <<>> /\ to_add \in Orders

ListNext == AddSorted \/ AddFixed

ListSpec == ListInit /\ [][ListNext]_list_vars

-----------------------------------------------------------------------------
(* The list is what its name and its comment, "Sorted list of IRQ sources", *)
(* say: sorted by poll priority after every addition.                       *)
SortedByPoll ==
  \A j, k \in DOMAIN it_sources :
    j < k => Poll[it_sources[j]] <= Poll[it_sources[k]]

=============================================================================
