---------------------------- MODULE MCTableGrid ----------------------------
(***************************************************************************)
(* Tables of two rows with every choice of separators, of which the second *)
(* may leave a box unnamed or name one too many, tables of three rows with *)
(* separators that chain within the tolerance, and tables of a row whose   *)
(* separators coincide.                                                    *)
(***************************************************************************)
EXTENDS TableGrid

Sorted(set) == SelectSeq([i \in 1..Sum |-> i], LAMBDA i : i \in set)
All(positions) == 0..Cardinality(positions)

TwoRows ==
  {[separators |-> <<Sorted(p), Sorted(q)>>, named |-> <<All(p), All(q) \ {box}>>] :
     p \in SUBSET (1..(Sum - 1)), q \in SUBSET (1..(Sum - 1)), box \in {0, 1, Sum + 1}}
SplitRow ==
  {[separators |-> <<Sorted(p), Sorted(q)>>,
    named |-> <<All(p), All(q) \cup {Cardinality(q) + 1}>>] :
     p \in SUBSET {2, 4}, q \in SUBSET {2, 4}}
ThreeRows ==
  {[separators |-> <<Sorted(p), Sorted(q), Sorted(s)>>, named |-> <<All(p), All(q), All(s)>>] :
     p \in SUBSET (2..4), q \in SUBSET (2..4), s \in SUBSET (2..4)}
TwinRow ==
  {[separators |-> <<twins, Sorted(q)>>, named |-> <<0..Len(twins), All(q)>>] :
     twins \in {<<2, 2>>, <<2, 3, 3>>, <<0, 4>>, <<4, Sum>>}, q \in SUBSET (2..4)}
MCTables == TwoRows \cup SplitRow \cup ThreeRows \cup TwinRow
=============================================================================
