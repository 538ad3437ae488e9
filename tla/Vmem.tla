--------------------------------- MODULE Vmem ---------------------------------
(***************************************************************************)
(* The kernel's Sv32 page tables (vmem.c) under the simulator's page walk   *)
(* (RVModel::translateAddr).  The walk applies in every privilege mode, so  *)
(* once paging is on vmem_map's own loads and stores, its instructions and  *)
(* the trap handler are found through the tables it edits.                  *)
(*                                                                          *)
(* Only virtual pages with vpn[1] = 0 are here: vmem.c has a root table of  *)
(* one word and drops vpn[1], as its comment says.  The kind of access only *)
(* names the fault, since the walk checks neither R, W nor X of a leaf.     *)
(***************************************************************************)
EXTENDS Integers

CONSTANTS
  Entries,      \* words of l0_pt: 1024
  Pages,        \* physical page numbers
  TablePage,    \* where l0_pt is
  Own,          \* pages the kernel runs on: code, stack, root_pt, l0_pt
  FlagSets      \* flags that callers pass to vmem_map

Virt == 0 .. Entries - 1

ASSUME VmemAssumption ==
  /\ Entries \in Nat \ {0}
  /\ Pages \subseteq Nat /\ TablePage \in Own
  /\ Own \subseteq Virt /\ Own \subseteq Pages
  /\ FlagSets \subseteq SUBSET {"R", "W", "X", "U"}

Ptes == [flags : SUBSET {"V", "R", "W", "X", "U"}, ppn : Pages \cup {0}]

Zero == [flags |-> {}, ppn |-> 0]

NotAsked == <<>>

VARIABLES
  root,       \* root_pt[0]
  table,      \* l0_pt
  paging,     \* satp's mode bit; its PPN is root_pt's
  asked       \* history: what vmem_map was last asked about each page

vmemVars == <<root, table, paging, asked>>

(* Both tables are in .bss.                                                 *)
VmemInit ==
  /\ root   = Zero
  /\ table  = [v \in Virt |-> Zero]
  /\ paging = FALSE
  /\ asked  = [v \in Virt |-> NotAsked]

----------------------------------------------------------------------------
Valid(pte) == "V" \in pte.flags

Leaf(pte) == pte.flags \cap {"R", "X"} # {}

MayUse(pte, user) == user => "U" \in pte.flags

(* What word v of physical page p may hold.  Only l0_pt's words are known;   *)
(* anything may be elsewhere.                                               *)
WordsAt(p, v) == IF p = TablePage THEN {table[v]} ELSE Ptes

(* Operators named ..._mutant are faults the properties must detect; no      *)
(* specification uses them.                                                 *)

(* Takes any valid entry of l0_pt for a leaf.                               *)
FindsAnyValid_mutant(v, user, page) ==
  \/ ~ paging /\ page = v
  \/ /\ paging /\ Valid(root) /\ Leaf(root)
     /\ root.ppn % Entries = 0
     /\ MayUse(root, user)
     /\ page = root.ppn + v
  \/ /\ paging /\ Valid(root) /\ ~ Leaf(root)
     /\ \E pte \in WordsAt(root.ppn, v) :
          Valid(pte) /\ MayUse(pte, user) /\ page = pte.ppn

(* translateAddr may take virtual page v to this page; if to none, it       *)
(* traps.  The second disjunct is a superpage; in the third the root entry  *)
(* says which page holds the next table.                                    *)
Finds(v, user, page) ==
  \/ ~ paging /\ page = v
  \/ /\ paging /\ Valid(root) /\ Leaf(root)
     /\ root.ppn % Entries = 0
     /\ MayUse(root, user)
     /\ page = root.ppn + v
  \/ /\ paging /\ Valid(root) /\ ~ Leaf(root)
     /\ \E pte \in WordsAt(root.ppn, v) :
          Valid(pte) /\ Leaf(pte) /\ MayUse(pte, user) /\ page = pte.ppn

(* What the kernel itself touches is where it was linked to be, and is      *)
(* found nowhere else.                                                      *)
KernelReachable ==
  \A p \in Own, page \in Pages \cup {0} : Finds(p, FALSE, page) <=> page = p

----------------------------------------------------------------------------
(* Callers map the kernel's own pages to themselves, as kernel_main does.   *)
KeepsOwn(v, page, flags) == v \in Own => page = v /\ {"R", "X"} \subseteq flags

(* Links the page to map, ppn, where l0_ppn is meant.                       *)
MapLinksPage_mutant(v, page, flags) ==
  /\ KeepsOwn(v, page, flags)
  /\ KernelReachable
  /\ root'  = IF Valid(root) THEN root ELSE [flags |-> {"V"}, ppn |-> page]
  /\ table' = [table EXCEPT ![v] = [flags |-> flags \cup {"V"}, ppn |-> page]]
  /\ asked' = [asked EXCEPT ![v] = [page |-> page, flags |-> flags]]
  /\ UNCHANGED paging

(* vmem_map.  Its stores land in the tables because they are reachable.     *)
Map(v, page, flags) ==
  /\ KeepsOwn(v, page, flags)
  /\ KernelReachable
  /\ root'  = IF Valid(root) THEN root ELSE [flags |-> {"V"}, ppn |-> TablePage]
  /\ table' = [table EXCEPT ![v] = [flags |-> flags \cup {"V"}, ppn |-> page]]
  /\ asked' = [asked EXCEPT ![v] = [page |-> page, flags |-> flags]]
  /\ UNCHANGED paging

(* vmem_enable, after the kernel's own pages have been mapped.              *)
Enable ==
  /\ ~ paging
  /\ \A p \in Own : asked[p] # NotAsked
  /\ paging' = TRUE
  /\ UNCHANGED <<root, table, asked>>

VmemNext ==
  \/ \E v \in Virt, page \in Pages, flags \in FlagSets : Map(v, page, flags)
  \/ Enable

VmemSpec == VmemInit /\ [][VmemNext]_vmemVars

----------------------------------------------------------------------------
(* vmem.h's "map one 4KiB page: virt -> phys with given flags".             *)
Promised(v, user, page) ==
  /\ asked[v] # NotAsked
  /\ asked[v].page = page
  /\ asked[v].flags \cap {"R", "X"} # {}
  /\ user => "U" \in asked[v].flags

(* The two-level walk finds exactly what vmem_map was last asked for,       *)
(* through any number of maps and remaps before and after paging is on, and *)
(* in user mode only the pages mapped for it.                               *)
WalkFindsMap ==
  paging => \A v \in Virt, page \in Pages \cup {0}, user \in BOOLEAN :
              Finds(v, user, page) <=> Promised(v, user, page)
=============================================================================
