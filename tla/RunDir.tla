------------------------------- MODULE RunDir -------------------------------
(***************************************************************************)
(* createRunDir, called by several architon processes at once: each makes  *)
(* the artifact root and then tries the names of its second, first without *)
(* a number and then with -01, -02 and so on, until Mkdir makes one.       *)
(* Mkdir is one atomic step of the file system; that is all the processes  *)
(* have in common.                                                         *)
(***************************************************************************)
EXTENDS Integers, FiniteSets

CONSTANTS
  Proc,    \* architon processes
  Second,  \* the timestamps, formatted to the second, that they may see
  Limit    \* 100 names per second

ASSUME RunDirAssumption == Limit \in Nat \ {0}

Name == Second \X (0..Limit - 1)

VARIABLES
  dirs,     \* the names that exist under the artifact root
  runDirPc, \* "root", "mkdir", "made" or "failed"
  startedAt,
  i,        \* loop counter of each process
  failure   \* why it failed: "none", "full" or "error"

vars == <<dirs, runDirPc, startedAt, i, failure>>

TypeOK ==
  /\ dirs \subseteq Name
  /\ runDirPc \in [Proc -> {"root", "mkdir", "made", "failed"}]
  /\ startedAt \in [Proc -> Second]
  /\ i \in [Proc -> 0..Limit]
  /\ failure \in [Proc -> {"none", "full", "error"}]

Init ==
  /\ dirs \in SUBSET Name
  /\ runDirPc = [p \in Proc |-> "root"]
  /\ startedAt \in [Proc -> Second]
  /\ i = [p \in Proc |-> 0]
  /\ failure = [p \in Proc |-> "none"]

\* the name that p tries, and has once it is made
DirOf(p) == <<startedAt[p], i[p]>>

Fails(p, why) ==
  /\ runDirPc' = [runDirPc EXCEPT ![p] = "failed"]
  /\ failure' = [failure EXCEPT ![p] = why]
  /\ UNCHANGED <<dirs, startedAt, i>>

\* os.MkdirAll
MakeRoot(p) ==
  /\ runDirPc[p] = "root"
  /\ \/ /\ runDirPc' = [runDirPc EXCEPT ![p] = "mkdir"]
        /\ UNCHANGED <<dirs, startedAt, i, failure>>
     \/ Fails(p, "error")

(* Seeded faults: a directory that exists is as good as a new one; one     *)
(* name too many.                                                          *)
MakeDir_MkdirAll(p) ==
  /\ runDirPc[p] = "mkdir"
  /\ i[p] < Limit
  /\ dirs' = dirs \cup {DirOf(p)}
  /\ runDirPc' = [runDirPc EXCEPT ![p] = "made"]
  /\ UNCHANGED <<startedAt, i, failure>>

\* Mkdir makes the directory, or fails for another reason than IsExist
MakeDir(p) ==
  /\ runDirPc[p] = "mkdir"
  /\ i[p] < Limit
  /\ \/ /\ DirOf(p) \notin dirs
        /\ dirs' = dirs \cup {DirOf(p)}
        /\ runDirPc' = [runDirPc EXCEPT ![p] = "made"]
        /\ UNCHANGED <<startedAt, i, failure>>
     \/ Fails(p, "error")

(* Seeded fault: two names at a time. *)
NextName_Skips(p) ==
  /\ runDirPc[p] = "mkdir"
  /\ i[p] < Limit
  /\ DirOf(p) \in dirs
  /\ i' = [i EXCEPT ![p] = IF i[p] + 2 > Limit THEN Limit ELSE i[p] + 2]
  /\ UNCHANGED <<dirs, runDirPc, startedAt, failure>>

\* os.IsExist(err)
NextName(p) ==
  /\ runDirPc[p] = "mkdir"
  /\ i[p] < Limit
  /\ DirOf(p) \in dirs
  /\ i' = [i EXCEPT ![p] = i[p] + 1]
  /\ UNCHANGED <<dirs, runDirPc, startedAt, failure>>

\* "could not create unique run directory"
OutOfNames(p) ==
  /\ runDirPc[p] = "mkdir"
  /\ i[p] = Limit
  /\ Fails(p, "full")

CreateRunDir(p) == MakeRoot(p) \/ MakeDir(p) \/ NextName(p) \/ OutOfNames(p)

AllDone ==
  /\ \A p \in Proc : runDirPc[p] \in {"made", "failed"}
  /\ UNCHANGED vars

Next == (\E p \in Proc : CreateRunDir(p)) \/ AllDone

Spec == Init /\ [][Next]_vars

-----------------------------------------------------------------------------
(* Properties *)

(* Two runs never share a directory, however many start in the same second *)
(* and however their calls interleave: their logs and results never mix    *)
(* (Mkdir, which fails on a name that exists).                             *)
NoSharedDir ==
  \A p, q \in Proc :
    runDirPc[p] = "made" /\ runDirPc[q] = "made" /\ DirOf(p) = DirOf(q) => p = q

(* A run says that there is no name left only when all the names of its    *)
(* second are taken: no free one was passed over (loop of createRunDir).   *)
FullMeansFull ==
  \A p \in Proc :
    failure[p] = "full" => \A k \in 0..Limit - 1 : <<startedAt[p], k>> \in dirs

(* A directory that exists is never given to a run: what an earlier run    *)
(* left is not touched.                                                    *)
NewDirs ==
  [][\A p \in Proc : runDirPc[p] # "made" /\ runDirPc'[p] = "made" => DirOf(p) \notin dirs]_vars
=============================================================================
