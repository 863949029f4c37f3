------------------------------ MODULE MCMemory ------------------------------
(* Memory on a small machine: two user tasks, one page table for text and  *)
(* stack and one for the heap.                                             *)
EXTENDS Memory, TLC

MCDirs    == {0, 1}
MCVA      == {1, 2, 3}
MCDirOf   == 1 :> 0 @@ 2 :> 1 @@ 3 :> 0
MCArgs    == {3}
MCProgram == 1 :> 0 @@ 3 :> 1

(* States that differ in the numbering of the pages, or in the contents of *)
(* a page that no user entry and no argument page refers to, behave alike: *)
(* get_free_page clears the page it returns, and no handler looks at a     *)
(* page number.                                                            *)
Used == {p \in Pages : mem_map[p] # 0}
UserPage(p) == \E s \in Refs(p) : s[1] \in {"pte", "arg"}

Seen == <<{<<Refs(p), mem_map[p], leaked[p], IF UserPage(p) THEN data[p] ELSE 0>> : p \in Used},
          Cardinality(Used), wbit, xbit, state, space, kpc, buf, fork>>
=============================================================================
