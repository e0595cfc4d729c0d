------------------------ MODULE MemoryManagerProofs ------------------------
(* What holds of the memory managers for every set of connections, paths   *)
(* and sizes.                                                              *)
EXTENDS MemoryManager, TLAPS

\* A manager that holds memory has the size and a path of its own client.
NamedByClient ==
  \A m \in Managers : mm[m].data # "null" => mm[m].path \in PathsOf[m] /\ mm[m].size \in Sizes

\* The inductive invariant.
Inv == TypeOK /\ MappedAsAsked /\ NamedByClient

\* Every result of init: the files it leaves, and a manager that is what was
\* asked for; persistent memory only when the file has the length asked for.
LEMMA InitResult ==
  ASSUME NEW f \in Files, NEW path \in Paths, NEW size \in Sizes,
         NEW r \in init(f, path, size)
  PROVE  /\ r.mm \in Manager /\ r.mm.path = path /\ r.mm.size = size /\ r.mm.len = size
         /\ r.fs \in Files /\ r.fs \in {f, MapFile(f, path, size)}
         /\ r.mm.data = "pmem" => r.fs[path] = size
  <1>1. PICK g \in get_memory_from_pmem(f, path, size) :
          \E d \in IF g.data = "pmem" THEN {"pmem"} ELSE {"dram", "null"} :
            r = [mm |-> [data |-> d, size |-> size, path |-> path,
                         len |-> IF d = "pmem" THEN g.len ELSE size], fs |-> g.fs]
    BY DEF init
  <1>2. MapFile(f, path, size) \in Files /\ MapFile(f, path, size)[path] \in Sizes
    BY SizesAssumption DEF Files, MapFile
  <1>3. /\ g.fs \in {f, MapFile(f, path, size)}
        /\ g.data = "pmem" => g.len = size /\ g.fs[path] = size
    BY <1>2 DEF get_memory_from_pmem, Usable
  <1> QED
    BY <1>1, <1>2, <1>3 DEF Manager

\* Every result of close_and_remove: without memory nothing happens; otherwise
\* the memory is gone and at most the manager's own file with it.
LEMMA CloseResult ==
  ASSUME NEW m \in Manager, NEW f \in Files, m.data # "null" => m.path \in Paths,
         NEW r \in close_and_remove(m, f)
  PROVE  /\ r.mm = [m EXCEPT !.data = "null"] /\ r.mm \in Manager /\ r.fs \in Files
         /\ r.fs = f \/ (m.data # "null" /\ r.fs = [f EXCEPT ![m.path] = 0])
  <1> DEFINE closed == [m EXCEPT !.data = "null"]
  <1>1. closed \in Manager
    BY DEF Manager
  <1>2. CASE m.data = "null"
    <2>1. closed = m
      BY <1>2 DEF Manager
    <2> QED
      BY <1>1, <1>2, <2>1 DEF close_and_remove
  <1>3. CASE m.data # "null"
    <2>1. r.mm = closed
      BY <1>3 DEF close_and_remove
    <2>2. r.fs = f \/ r.fs = [f EXCEPT ![m.path] = 0]
      BY <1>3 DEF close_and_remove
    <2>3. [f EXCEPT ![m.path] = 0] \in Files
      BY <1>3 DEF Files
    <2> QED
      BY <1>1, <1>3, <2>1, <2>2, <2>3
  <1> QED
    BY <1>2, <1>3

\* The two ways a path is affected by mapping it: it appears, or nothing.
LEMMA MapFileKeeps ==
  ASSUME NEW f \in Files, NEW path \in Paths, NEW size \in Sizes, NEW p \in Paths
  PROVE  f[p] # 0 => MapFile(f, path, size)[p] = f[p]
  BY DEF MapFile, Files

\* Types and the length of mappings hold in every reachable state.
THEOREM Invariant == Spec => []Inv
  <1>1. Init => Inv
    BY DEF Init, Inv, TypeOK, Fresh, Manager, MappedAsAsked, NamedByClient
  <1>2. Inv /\ [Next]_vars => Inv'
    <2> SUFFICES ASSUME Inv, [Next]_vars PROVE Inv'
      OBVIOUS
    <2> USE DEF Inv
    <2>0. Fresh \in Manager /\ Fresh.data = "null"
      BY DEF Fresh, Manager
    <2>1. ASSUME NEW m \in Managers, InitMemory(m) PROVE Inv'
      <3>1. PICK path \in PathsOf[m], size \in Sizes : \E r \in init(fs, path, size) :
              mm' = [mm EXCEPT ![m] = r.mm] /\ fs' = r.fs
        BY <2>1, Zenon DEF InitMemory
      <3>2. PICK r \in init(fs, path, size) : mm' = [mm EXCEPT ![m] = r.mm] /\ fs' = r.fs
        BY <3>1, Zenon
      <3>3. path \in Paths
        BY PathsAssumption
      <3>4. /\ r.mm \in Manager /\ r.mm.path = path /\ r.mm.size = size /\ r.mm.len = size
            /\ r.fs \in Files
        BY <3>3, InitResult DEF TypeOK
      <3> QED
        BY <3>2, <3>4 DEF TypeOK, MappedAsAsked, NamedByClient
    <2>2. ASSUME NEW m \in Managers, InitThrows(m) PROVE Inv'
      <3>1. PICK path \in PathsOf[m], size \in Sizes : \E r \in init(fs, path, size) : fs' = r.fs
        BY <2>2 DEF InitThrows
      <3>2. fs' \in Files
        BY <3>1, PathsAssumption, InitResult DEF TypeOK
      <3> QED
        BY <2>0, <2>2, <3>2 DEF InitThrows, TypeOK, MappedAsAsked, NamedByClient
    <2>3. ASSUME NEW m \in Managers, Close(m) PROVE Inv'
      <3>1. PICK r \in close_and_remove(mm[m], fs) : mm' = [mm EXCEPT ![m] = r.mm] /\ fs' = r.fs
        BY <2>3, Zenon DEF Close
      <3>2. r.mm = [mm[m] EXCEPT !.data = "null"] /\ r.mm \in Manager /\ r.fs \in Files
        BY CloseResult, PathsAssumption, Zenon DEF TypeOK, NamedByClient
      <3>3. r.mm.data = "null"
        BY <3>2 DEF TypeOK, Manager
      <3> QED
        BY <3>1, <3>2, <3>3 DEF TypeOK, MappedAsAsked, NamedByClient
    <2>4. ASSUME NEW m \in Managers, Destroy(m) PROVE Inv'
      BY <2>0, <2>4 DEF Destroy, destructor, TypeOK, MappedAsAsked, NamedByClient
    <2>5. ASSUME Restart PROVE Inv'
      BY <2>0, <2>5 DEF Restart, TypeOK, MappedAsAsked, NamedByClient
    <2>6. ASSUME UNCHANGED vars PROVE Inv'
      BY <2>6 DEF vars, TypeOK, MappedAsAsked, NamedByClient
    <2> QED
      BY <2>1, <2>2, <2>3, <2>4, <2>5, <2>6 DEF Next
  <1> QED
    BY <1>1, <1>2, PTL DEF Spec

\* Corollary of the invariant: the type invariant.
THEOREM TypesCorrect == Spec => []TypeOK
  BY Invariant, PTL DEF Inv

\* A mapping init keeps is exactly as long as it was asked for.
THEOREM LengthsCorrect == Spec => []MappedAsAsked
  BY Invariant, PTL DEF Inv

-----------------------------------------------------------------------------
(* The files.                                                              *)

\* Existing files keep their length in every step from an Inv state; one that
\* goes was removed by close_and_remove of its own manager.
LEMMA FilesStep ==
  ASSUME Inv, [Next]_vars, NEW p \in Paths, fs[p] # 0, fs'[p] # fs[p]
  PROVE  \E m \in Managers : /\ mm[m].path = p /\ mm[m].data # "null"
                             /\ mm'[m].path = p /\ mm'[m].data = "null"
                             /\ fs'[p] = 0
  <1>1. ASSUME NEW m \in Managers, NEW path \in PathsOf[m], NEW size \in Sizes,
               NEW r \in init(fs, path, size), fs' = r.fs
        PROVE  FALSE
    <2>1. path \in Paths
      BY PathsAssumption
    <2>2. r.fs \in {fs, MapFile(fs, path, size)}
      BY <2>1, InitResult DEF Inv, TypeOK
    <2> QED
      BY <1>1, <2>1, <2>2, MapFileKeeps DEF Inv, TypeOK
  <1>2. ASSUME NEW m \in Managers, Close(m) PROVE
          /\ mm[m].path = p /\ mm[m].data # "null"
          /\ mm'[m].path = p /\ mm'[m].data = "null" /\ fs'[p] = 0
    <2>1. PICK r \in close_and_remove(mm[m], fs) : mm' = [mm EXCEPT ![m] = r.mm] /\ fs' = r.fs
      BY <1>2, Zenon DEF Close
    <2>2. /\ r.mm = [mm[m] EXCEPT !.data = "null"]
          /\ r.fs = fs \/ (mm[m].data # "null" /\ r.fs = [fs EXCEPT ![mm[m].path] = 0])
      BY CloseResult, PathsAssumption DEF Inv, TypeOK, NamedByClient
    <2>3. mm[m].data # "null" /\ fs' = [fs EXCEPT ![mm[m].path] = 0]
      BY <2>1, <2>2
    <2>4. mm[m].path = p /\ fs'[p] = 0
      BY <2>3 DEF Inv, TypeOK, Files
    <2>5. mm'[m] = [mm[m] EXCEPT !.data = "null"] /\ mm[m] \in Manager
      BY <2>1, <2>2 DEF Inv, TypeOK
    <2> QED
      BY <2>3, <2>4, <2>5 DEF Manager
  <1>3. CASE \E m \in Managers : InitMemory(m)
    BY <1>1, <1>3 DEF InitMemory
  <1>4. CASE \E m \in Managers : InitThrows(m)
    BY <1>1, <1>4 DEF InitThrows
  <1>5. CASE \E m \in Managers : Close(m)
    BY <1>2, <1>5
  <1>6. CASE (\E m \in Managers : Destroy(m)) \/ Restart \/ UNCHANGED vars
    BY <1>6 DEF Destroy, destructor, Restart, vars
  <1> QED
    BY <1>3, <1>4, <1>5, <1>6 DEF Next

\* No sequence of connections truncates or grows a replica file.
THEOREM FilesKeepLength == Spec => NeverResized
  <1>1. Inv /\ [Next]_vars => [\A p \in Paths : fs[p] # 0 => fs'[p] \in {0, fs[p]}]_vars
    BY FilesStep DEF Inv
  <1> QED
    BY <1>1, Invariant, PTL DEF Spec, NeverResized

\* A replica file goes only through close_and_remove of a manager that held
\* memory under its path.
THEOREM FilesOutliveConnections == Spec => RemovedByClose
  <1>1. Inv /\ [Next]_vars =>
          [\A p \in Paths : fs[p] # 0 /\ fs'[p] = 0 =>
             \E m \in Managers : /\ mm[m].path = p /\ mm[m].data # "null"
                                 /\ mm'[m].path = p /\ mm'[m].data = "null"]_vars
    BY FilesStep DEF Inv
  <1> QED
    BY <1>1, Invariant, PTL DEF Spec, RemovedByClose

\* When no two clients name the same replica, a replica mapped from persistent
\* memory has its file, whole, until its own connection closes it.
THEOREM MappedStaysBacked == Spec => []MappedHasFile
  <1>1. Init => MappedHasFile
    BY DEF Init, MappedHasFile, Fresh
  <1>2. Inv /\ MappedHasFile /\ [Next]_vars => MappedHasFile'
    <2> SUFFICES ASSUME Inv, MappedHasFile, [Next]_vars,
                        NEW m \in Managers, mm'[m].data = "pmem", Exclusive(m, mm'[m].path)
                 PROVE  fs'[mm'[m].path] = mm'[m].size
      BY DEF MappedHasFile, Exclusive
    <2>1. CASE mm'[m] = mm[m]
      <3>1. mm[m].path \in PathsOf[m] /\ mm[m].path \in Paths /\ mm[m].size \in Sizes
        BY <2>1, PathsAssumption DEF Inv, NamedByClient
      <3>2. fs[mm[m].path] = mm[m].size /\ fs[mm[m].path] # 0
        BY <2>1, <3>1, SizesAssumption DEF MappedHasFile, Exclusive
      <3>3. CASE fs'[mm[m].path] # fs[mm[m].path]
        <4>1. PICK k \in Managers : /\ mm[k].path = mm[m].path /\ mm[k].data # "null"
                                    /\ mm'[k].data = "null"
          BY <3>1, <3>2, <3>3, FilesStep
        <4>2. mm[k].path \in PathsOf[k]
          BY <4>1 DEF Inv, NamedByClient
        <4>3. k = m
          BY <2>1, <3>1, <4>1, <4>2 DEF Exclusive
        <4> QED
          BY <2>1, <4>1, <4>3
      <3> QED
        BY <2>1, <3>2, <3>3
    <2>2. CASE mm'[m] # mm[m]
      <3>1. PICK n \in Managers : InitMemory(n) /\ n = m
        <4>1. ASSUME NEW n \in Managers, Close(n) PROVE FALSE
          <5>1. PICK r \in close_and_remove(mm[n], fs) :
                  mm' = [mm EXCEPT ![n] = r.mm] /\ fs' = r.fs
            BY <4>1, Zenon DEF Close
          <5>2. r.mm = [mm[n] EXCEPT !.data = "null"] /\ mm[n] \in Manager
            BY CloseResult, PathsAssumption, Zenon DEF Inv, TypeOK, NamedByClient
          <5>3. r.mm.data = "null"
            BY <5>2 DEF Manager
          <5> QED
            BY <2>2, <5>1, <5>3 DEF Inv, TypeOK
        <4> QED
          BY <2>2, <4>1 DEF Next, InitMemory, InitThrows, Destroy, Restart, vars, Fresh,
                            Inv, TypeOK
      <3>0. InitMemory(m)
        BY <3>1
      <3>2. PICK path \in PathsOf[m], size \in Sizes : \E r \in init(fs, path, size) :
              mm' = [mm EXCEPT ![m] = r.mm] /\ fs' = r.fs
        BY <3>0, ZenonT(40) DEF InitMemory
      <3>3. PICK r \in init(fs, path, size) : mm'[m] = r.mm /\ fs' = r.fs
        BY <3>2 DEF Inv, TypeOK
      <3> QED
        BY <3>3, InitResult, PathsAssumption DEF Inv, TypeOK
    <2> QED
      BY <2>1, <2>2
  <1> QED
    BY <1>1, <1>2, Invariant, PTL DEF Spec
=============================================================================
