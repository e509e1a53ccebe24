---------------------------- MODULE RunDirProofs ----------------------------
(***************************************************************************)
(* Run directories are never shared, for any number of processes, seconds  *)
(* and names.  The inductive invariant says that every directory that was  *)
(* made is among `dirs`, where Mkdir looks, and that every name a process  *)
(* has passed by was taken.                                                *)
(***************************************************************************)
EXTENDS RunDir, TLAPS

Taken ==
  /\ \A p \in Proc : runDirPc[p] = "made" => DirOf(p) \in dirs
  /\ \A p \in Proc : \A k \in 0..Limit - 1 : k < i[p] => <<startedAt[p], k>> \in dirs
  /\ \A p \in Proc : failure[p] = "full" => i[p] = Limit

RunDirInv == TypeOK /\ Taken /\ NoSharedDir

LEMMA InitRunDirInv == Init => RunDirInv
  BY RunDirAssumption DEF Init, RunDirInv, TypeOK, Taken, NoSharedDir, Name

(* A process that fails moves nothing but its own program counter.         *)
LEMMA FailsKeepsInv ==
  ASSUME RunDirInv, NEW p \in Proc, NEW why \in {"full", "error"}, Fails(p, why),
         runDirPc[p] \in {"root", "mkdir"}, why = "full" => i[p] = Limit
  PROVE  RunDirInv'
  BY DEF RunDirInv, TypeOK, Taken, NoSharedDir, Fails, DirOf

LEMMA MakeRootKeepsInv ==
  ASSUME RunDirInv, NEW p \in Proc, MakeRoot(p)
  PROVE  RunDirInv'
  <1>1. CASE Fails(p, "error")
    BY <1>1, FailsKeepsInv DEF MakeRoot
  <1>2. CASE ~Fails(p, "error")
    BY <1>2 DEF MakeRoot, RunDirInv, TypeOK, Taken, NoSharedDir, DirOf
  <1> QED
    BY <1>1, <1>2

LEMMA MakeDirKeepsInv ==
  ASSUME RunDirInv, NEW p \in Proc, MakeDir(p)
  PROVE  RunDirInv'
  <1>1. CASE Fails(p, "error")
    BY <1>1, FailsKeepsInv DEF MakeDir
  <1>2. CASE ~Fails(p, "error")
    <2>1. /\ DirOf(p) \notin dirs
          /\ dirs' = dirs \cup {DirOf(p)}
          /\ runDirPc' = [runDirPc EXCEPT ![p] = "made"]
          /\ UNCHANGED <<startedAt, i, failure>>
          /\ i[p] < Limit
      BY <1>2 DEF MakeDir
    <2>2. \A q \in Proc : DirOf(q)' = DirOf(q)
      BY <2>1 DEF DirOf
    <2>3. DirOf(p) \in Name
      BY <2>1, RunDirAssumption DEF RunDirInv, TypeOK, DirOf, Name
    <2>4. TypeOK'
      BY <2>1, <2>3 DEF RunDirInv, TypeOK
    <2>5. Taken'
      BY <2>1, <2>2 DEF RunDirInv, TypeOK, Taken
    <2>6. NoSharedDir'
      BY <2>1, <2>2 DEF RunDirInv, TypeOK, Taken, NoSharedDir
    <2> QED
      BY <2>4, <2>5, <2>6 DEF RunDirInv
  <1> QED
    BY <1>1, <1>2

LEMMA NextNameKeepsInv ==
  ASSUME RunDirInv, NEW p \in Proc, NextName(p)
  PROVE  RunDirInv'
  <1>1. /\ runDirPc[p] = "mkdir" /\ i[p] < Limit
        /\ <<startedAt[p], i[p]>> \in dirs
        /\ i' = [i EXCEPT ![p] = i[p] + 1]
        /\ UNCHANGED <<dirs, runDirPc, startedAt, failure>>
    BY DEF NextName, DirOf
  <1>2. TypeOK'
    BY <1>1, RunDirAssumption DEF RunDirInv, TypeOK
  <1>3. \A q \in Proc \ {p} : i'[q] = i[q]
    BY <1>1 DEF RunDirInv, TypeOK
  <1>4. Taken'
    <2>1. \A q \in Proc : \A k \in 0..Limit - 1 : k < i'[q] => <<startedAt[q], k>> \in dirs
      <3> SUFFICES ASSUME NEW q \in Proc, NEW k \in 0..Limit - 1, k < i'[q]
                   PROVE  <<startedAt[q], k>> \in dirs
        OBVIOUS
      <3>1. CASE q = p
        <4>1. k < i[p] \/ k = i[p]
          BY <1>1, <3>1, RunDirAssumption DEF RunDirInv, TypeOK
        <4> QED
          BY <1>1, <3>1, <4>1 DEF RunDirInv, Taken
      <3>2. CASE q # p
        BY <1>3, <3>2 DEF RunDirInv, Taken
      <3> QED
        BY <3>1, <3>2
    <2>2. \A q \in Proc : runDirPc[q] = "made" => q # p
      BY <1>1
    <2>3. \A q \in Proc : failure[q] = "full" => q # p
      BY <1>1, RunDirAssumption DEF RunDirInv, TypeOK, Taken
    <2> QED
      BY <1>1, <1>3, <2>1, <2>2, <2>3 DEF RunDirInv, Taken, DirOf
  <1>5. NoSharedDir'
    BY <1>1, <1>3 DEF RunDirInv, NoSharedDir, DirOf
  <1> QED
    BY <1>2, <1>4, <1>5 DEF RunDirInv

LEMMA NextKeepsInv == RunDirInv /\ [Next]_vars => RunDirInv'
  <1> SUFFICES ASSUME RunDirInv, [Next]_vars PROVE RunDirInv'
    OBVIOUS
  <1>1. ASSUME NEW p \in Proc, OutOfNames(p) PROVE RunDirInv'
    BY <1>1, FailsKeepsInv DEF OutOfNames
  <1>2. CASE UNCHANGED vars
    BY <1>2 DEF vars, RunDirInv, TypeOK, Taken, NoSharedDir, DirOf
  <1> QED
    BY <1>1, <1>2, MakeRootKeepsInv, MakeDirKeepsInv, NextNameKeepsInv
       DEF Next, CreateRunDir, AllDone

LEMMA RunDirInvariant == Spec => []RunDirInv
  BY InitRunDirInv, NextKeepsInv, PTL DEF Spec

(* The state of createRunDir stays in its domains.                         *)
THEOREM DirTypeCorrect == Spec => []TypeOK
  <1>1. RunDirInv => TypeOK
    BY DEF RunDirInv
  <1> QED
    BY <1>1, RunDirInvariant, PTL

(* No two runs ever have the same directory, however many processes start  *)
(* in the same second and however their calls of Mkdir interleave.         *)
THEOREM DirsAreUnique == Spec => []NoSharedDir
  <1>1. RunDirInv => NoSharedDir
    BY DEF RunDirInv
  <1> QED
    BY <1>1, RunDirInvariant, PTL

(* A run that reports that no name is left has met only names that are     *)
(* taken, whatever the limit.                                              *)
THEOREM FullIsTrue == Spec => []FullMeansFull
  <1>1. RunDirInv => FullMeansFull
    BY RunDirAssumption DEF RunDirInv, Taken, FullMeansFull
  <1> QED
    BY <1>1, RunDirInvariant, PTL

(* A directory that exists is never given to a run.                        *)
THEOREM DirsAreNew == Spec => NewDirs
  <1>1. RunDirInv /\ [Next]_vars =>
          [\A p \in Proc : runDirPc[p] # "made" /\ runDirPc'[p] = "made" => DirOf(p) \notin dirs]_vars
    <2> SUFFICES ASSUME RunDirInv, [Next]_vars, NEW p \in Proc,
                        runDirPc[p] # "made", runDirPc'[p] = "made"
                 PROVE  DirOf(p) \notin dirs
      OBVIOUS
    <2>1. PICK q \in Proc : CreateRunDir(q)
      BY DEF Next, AllDone, vars
    <2>2. q = p
      BY <2>1 DEF CreateRunDir, MakeRoot, MakeDir, NextName, OutOfNames, Fails, RunDirInv, TypeOK
    <2> QED
      BY <2>1, <2>2 DEF CreateRunDir, MakeRoot, MakeDir, NextName, OutOfNames, Fails, RunDirInv, TypeOK
  <1> QED
    BY <1>1, RunDirInvariant, PTL DEF Spec, NewDirs
=============================================================================
