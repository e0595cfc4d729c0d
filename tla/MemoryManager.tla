---------------------------- MODULE MemoryManager ----------------------------
(***************************************************************************)
(* The memory behind a replica (MemoryManager.cc): a file mapped from      *)
(* persistent memory when that works, malloc otherwise.  Every connection  *)
(* of the server has its own MemoryManager; they share the file system     *)
(* under /mnt/pmem, which outlives connections and the server process.     *)
(*                                                                         *)
(* Addresses and contents are left out.  What matters is which kind of     *)
(* memory a manager holds, how long the mapping really is, and the files.  *)
(***************************************************************************)
EXTENDS Naturals

CONSTANTS Managers,   \* one MemoryManager per connection of the server
          Paths,      \* file names under /mnt/pmem
          Sizes,      \* cache sizes clients ask for
          PathsOf,    \* the paths the client of each connection names
          Nil         \* a field init() has not set yet

ASSUME SizesAssumption == Sizes \subseteq Nat \ {0} /\ Nil \notin Sizes
ASSUME PathsAssumption == PathsOf \in [Managers -> SUBSET Paths] /\ Nil \notin Paths

VARIABLES mm,   \* the managers
          fs    \* length of each file, 0 when there is none

vars == <<mm, fs>>

\* len is the length pmem_map_file reported for a mapping (malloc: the size).
Manager == [data : {"null", "pmem", "dram"}, size : Sizes \cup {Nil},
            len : Sizes \cup {Nil}, path : Paths \cup {Nil}]
Files == [Paths -> Sizes \cup {0}]

Fresh == [data |-> "null", size |-> Nil, len |-> Nil, path |-> Nil]

-----------------------------------------------------------------------------
(* The operations, as the set of results the environment can bring about.  *)

\* Mutations of MapFile: an existing file is resized; a new one is too long.
MapFileResizes(f, path, size) == [f EXCEPT ![path] = size]
MapFileTooLong(f, path, size) == IF f[path] # 0 THEN f ELSE [f EXCEPT ![path] = size + 1]

\* pmem_map_file of an existing file maps all of it and leaves it alone;
\* otherwise the file is created.
MapFile(f, path, size) == IF f[path] # 0 THEN f ELSE [f EXCEPT ![path] = size]

\* Mutation of Usable: the length of the mapping is not looked at.
UsableAnyLength(is_pmem, len, size) == is_pmem

\* A mapping of the wrong length is not usable.
Usable(is_pmem, len, size) == is_pmem /\ len = size

\* Mutation of get_memory_from_pmem: the mapping is of a temporary file.
get_memory_from_tmpfile(f, path, size) ==
  {[data |-> "pmem", len |-> size, fs |-> f]}

\* The mapping fails and changes nothing, or succeeds and is kept only if it is
\* usable; a file created for a mapping that is not kept stays behind.
get_memory_from_pmem(f, path, size) ==
  LET f1 == MapFile(f, path, size) IN
  {[data |-> "null", len |-> size, fs |-> f]} \cup
  {[data |-> IF Usable(is_pmem, f1[path], size) THEN "pmem" ELSE "null",
    len |-> f1[path], fs |-> f1] : is_pmem \in BOOLEAN}

\* init falls back to malloc; when that fails too (data is "null") it throws.
init(f, path, size) ==
  UNION {{[mm |-> [data |-> d, size |-> size, path |-> path,
                   len |-> IF d = "pmem" THEN r.len ELSE size], fs |-> r.fs]
            : d \in IF r.data = "pmem" THEN {"pmem"} ELSE {"dram", "null"}}
         : r \in get_memory_from_pmem(f, path, size)}

\* remove(3) is called whatever kind of memory was held; it fails when there is
\* no such file, or because it may not be removed.
close_and_remove(m, f) ==
  IF m.data = "null" THEN {[mm |-> m, fs |-> f, failed |-> FALSE]}
  ELSE LET closed == [m EXCEPT !.data = "null"] IN
       {[mm |-> closed, fs |-> f, failed |-> TRUE]} \cup
       (IF f[m.path] = 0 THEN {}
        ELSE {[mm |-> closed, fs |-> [f EXCEPT ![m.path] = 0], failed |-> FALSE]})

\* Mutation of destructor: it removes the file, as close_and_remove does.
destructor_removes(m, f) == IF m.data = "null" THEN f ELSE [f EXCEPT ![m.path] = 0]

\* The destructor gives the memory back and keeps the file.
destructor(m, f) == f

-----------------------------------------------------------------------------

Init == mm = [m \in Managers |-> Fresh] /\ fs \in Files

\* get_descriptor_for_write calls init only when there is no memory yet.
InitMemory(m) ==
  /\ mm[m].data = "null"
  /\ \E path \in PathsOf[m], size \in Sizes : \E r \in init(fs, path, size) :
       /\ r.mm.data # "null"
       /\ mm' = [mm EXCEPT ![m] = r.mm] /\ fs' = r.fs

\* init threw: the server process ends, every manager with it.
InitThrows(m) ==
  /\ mm[m].data = "null"
  /\ \E path \in PathsOf[m], size \in Sizes : \E r \in init(fs, path, size) :
       r.mm.data = "null" /\ fs' = r.fs
  /\ mm' = [k \in Managers |-> Fresh]

Close(m) == \E r \in close_and_remove(mm[m], fs) :
              mm' = [mm EXCEPT ![m] = r.mm] /\ fs' = r.fs

\* The connection goes away; m is then the manager of the next one.
Destroy(m) == mm' = [mm EXCEPT ![m] = Fresh] /\ fs' = destructor(mm[m], fs)

\* The server is killed and started again: mappings end, files stay.
Restart == mm' = [m \in Managers |-> Fresh] /\ UNCHANGED fs

Next == \/ \E m \in Managers : InitMemory(m) \/ InitThrows(m) \/ Close(m) \/ Destroy(m)
        \/ Restart

Spec == Init /\ [][Next]_vars

-----------------------------------------------------------------------------
(* Properties.                                                             *)

\* Every variable keeps its type.
TypeOK == mm \in [Managers -> Manager] /\ fs \in Files

\* A mapping that init keeps is exactly as long as the size it was asked for
\* (which is also the length close_and_remove and the destructor unmap, and
\* the length that is registered for remote writes), even when the file was
\* there before with another length.
MappedAsAsked == \A m \in Managers : mm[m].data # "null" => mm[m].len = mm[m].size

\* A replica file that exists is never truncated or grown, by any sequence of
\* connections asking for the same path with other sizes.
NeverResized == [][\A p \in Paths : fs[p] # 0 => fs'[p] \in {0, fs[p]}]_vars

\* Only close_and_remove of a manager that held memory under that path removes
\* a file: a lost connection, a failed init and a restart all keep the replica.
RemovedByClose ==
  [][\A p \in Paths : fs[p] # 0 /\ fs'[p] = 0 =>
       \E m \in Managers : /\ mm[m].path = p /\ mm[m].data # "null"
                           /\ mm'[m].path = p /\ mm'[m].data = "null"]_vars

Exclusive(m, path) == \A n \in Managers \ {m} : path \notin PathsOf[n]

\* As long as a connection has its replica mapped from persistent memory, the
\* file is there with that length, so that what is flushed survives: nobody
\* removes it under the connection, unless another client names the same replica.
MappedHasFile ==
  \A m \in Managers : mm[m].data = "pmem" /\ Exclusive(m, mm[m].path) =>
                       fs[mm[m].path] = mm[m].size
=============================================================================
