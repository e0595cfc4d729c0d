------------------------------ MODULE Mappings ------------------------------
(***************************************************************************)
(* Where the memory of MemoryManager.cc lies: the managers of one server   *)
(* process share its address space, and pmem_unmap takes an address and a  *)
(* length.  A page belongs to the manager that mapped it last.  Memory     *)
(* from malloc lies elsewhere and is left out.                             *)
(***************************************************************************)
EXTENDS MemoryManager

CONSTANT Top          \* bound: pages of the address space

VARIABLES page,       \* whose mapping a page belongs to, or Nil
          base        \* MemoryManager::_data of each manager that has a mapping

mapVars == <<mm, fs, page, base>>

Span(b, len) == b..b + len - 1

\* The addresses at which the kernel can put a mapping.
Room(len) == {b \in 1..Top : Span(b, len) \subseteq {p \in 1..Top : page[p] = Nil}}

mapped(m, b, len) == [p \in 1..Top |-> IF p \in Span(b, len) THEN m ELSE page[p]]

\* Whatever is mapped there goes, and what is not mapped does not matter.
pmem_unmap(pages, b, len) == [p \in 1..Top |-> IF p \in Span(b, len) THEN Nil ELSE pages[p]]

MappingsInit == /\ mm = [m \in Managers |-> Fresh] /\ fs = [p \in Paths |-> 0]
                /\ page = [p \in 1..Top |-> Nil] /\ base = [m \in Managers |-> Nil]

Holds(data, size, len, path) == [data |-> data, size |-> size, len |-> len, path |-> path]

\* init: the file is mapped, and unmapped again if it is not usable.
MapMemory(m) ==
  /\ mm[m].data = "null"
  /\ \E path \in PathsOf[m], size \in Sizes, is_pmem \in BOOLEAN :
     LET len == MapFile(fs, path, size)[path] IN
     \E b \in Room(len) :
       /\ fs' = MapFile(fs, path, size)
       /\ IF Usable(is_pmem, len, size)
          THEN /\ mm' = [mm EXCEPT ![m] = Holds("pmem", size, len, path)]
               /\ page' = mapped(m, b, len) /\ base' = [base EXCEPT ![m] = b]
          ELSE /\ mm' = [mm EXCEPT ![m] = Holds("dram", size, size, path)]
               /\ page' = pmem_unmap(mapped(m, b, len), b, size) /\ UNCHANGED base

\* init: the file cannot be mapped.
NoMapping(m) ==
  /\ mm[m].data = "null"
  /\ \E path \in PathsOf[m], size \in Sizes :
       mm' = [mm EXCEPT ![m] = Holds("dram", size, size, path)]
  /\ UNCHANGED <<fs, page, base>>

\* What close_and_remove and the destructor have in common.
GiveBack(m) ==
  IF mm[m].data = "pmem"
  THEN page' = pmem_unmap(page, base[m], mm[m].size) /\ base' = [base EXCEPT ![m] = Nil]
  ELSE UNCHANGED <<page, base>>

CloseMemory(m)   == mm[m].data # "null" /\ GiveBack(m) /\ Close(m)
DestroyMemory(m) == GiveBack(m) /\ Destroy(m)

RestartMappings == /\ Restart /\ page' = [p \in 1..Top |-> Nil]
                   /\ base' = [m \in Managers |-> Nil]

MappingsNext ==
  \/ \E m \in Managers : MapMemory(m) \/ NoMapping(m) \/ CloseMemory(m) \/ DestroyMemory(m)
  \/ RestartMappings

MappingsSpec == MappingsInit /\ [][MappingsNext]_mapVars

-----------------------------------------------------------------------------
\* README (pmem_map_demo.c) unmaps the length that pmem_map_file reported: what a
\* connection gives up or does not take takes no page of another's along.
UnmapsWhatItMapped ==
  [][\A m \in Managers : mm[m].data = "pmem" /\ mm'[m] = mm[m] =>
       \A p \in 1..Top : page[p] = m => page'[p] = m]_mapVars
=============================================================================
