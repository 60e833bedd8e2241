--------------------------- MODULE MCCoreCatalog ---------------------------
(* The catalogue with two tasks, two captures, one group and the captures
   without one, pages of one row, and two of an edit, a read and a fault. *)
EXTENDS CoreCatalog

CONSTANTS g1, e1

MCMenu ==
    {[kind |-> "RUN", save |-> "SAVE_LAST"], [kind |-> "RUN", save |-> "SAVE_ALL"],
     [kind |-> "SINGLE", save |-> "SAVE_ALL"]}

MCFilters ==
    {[kind |-> "ALL", of |-> NoGroup], [kind |-> "UNGROUPED", of |-> NoGroup],
     [kind |-> "GROUP", of |-> g1], [kind |-> "SESSION", of |-> 2]}
=============================================================================
