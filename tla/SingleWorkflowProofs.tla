------------------------- MODULE SingleWorkflowProofs -------------------------
(***************************************************************************)
(* Theorems about runs that follow each other in output directories: any   *)
(* number of runs, any output paths and any configurations, stopped        *)
(* anywhere; and, in a section of its own, about what the calculations of  *)
(* such runs list and leave in one of the directories.                     *)
(***************************************************************************)
EXTENDS SingleWorkflow, Calculation, Integers, TLAPS

-------------------------------------------------------------------------------
(* The inductive invariant.                                                *)

Begun(r)   == pc[r] # "new"
Before     == {"settings", "deciding"}
Idle       == Before \cup {"skipped", "stopped"}
File(r, k) == Writes(conf[r])[k]
Current(r) == (pos[r] \div 3) + 1

FileStates == [by: 0 .. LastRun, size: Sizes]

Typed ==
  /\ disk \in [Dirs -> [Files -> FileStates]]
  /\ \A d \in Dirs, f \in Files : disk[d][f].size = "absent" => disk[d][f].by = Nobody
  /\ second \in 0 .. LastRun
  /\ pc \in [Runs -> Over \cup Before \cup {"new", "writing"}]
  /\ DOMAIN conf = Runs /\ DOMAIN dir = Runs
  /\ pos \in [Runs -> Nat] /\ report \in [Runs -> 0 .. LastRun]

(* Runs begin in their order, a second of its own for each; no two of one  *)
(* output path are active, so that the earlier one is over.                *)
InOrder ==
  /\ \A r \in Runs : Begun(r) <=> r <= second
  /\ \A q, r \in Runs : q < r /\ Begun(r) /\ conf[q].base = conf[r].base => pc[q] \in Over

(* A run is in the directory that was asked for, or in one named after its *)
(* second; a directory of a later second is empty.                         *)
Placed ==
  /\ \A r \in Runs : Begun(r) =>
       /\ conf[r] \in Configs
       /\ dir[r] \in {<<conf[r].base, 0>>, <<conf[r].base, r>>}
       /\ conf[r].overwrite \/ conf[r].resume => dir[r] = <<conf[r].base, 0>>
  /\ \A b \in Bases, k \in Runs : k > second => disk[<<b, k>>] = EmptyDir

(* How far a run has come: everything before the file it is writing is its *)
(* own and whole, but for that same file.                                  *)
Progress(r) ==
  /\ pos[r] <= 3 * Len(Writes(conf[r]))
  /\ \A k \in DOMAIN Writes(conf[r]) :
       /\ k < Current(r) => \/ disk[dir[r]][File(r, k)] = By(r)
                            \/ pos[r] % 3 # 0 /\ File(r, k) = File(r, Current(r))
       /\ k = Current(r) /\ pos[r] % 3 # 0 =>
            disk[dir[r]][File(r, k)].by = r /\ disk[dir[r]][File(r, k)].size # "absent"

Writing ==
  \A r \in Runs :
    /\ pc[r] \in Before => pos[r] = 0
    /\ pc[r] = "new" => pos[r] = 0
    /\ pc[r] = "writing" => Progress(r)
    /\ pc[r] = "success" => ~conf[r].dry /\ pos[r] % 3 = 0

(* Who neither overwrites nor resumes is where there is no other result.   *)
OwnPlace ==
  \A r \in Active :
    ~conf[r].overwrite /\ ~conf[r].resume => disk[dir[r]]["result"].by \in {Nobody, r}

(* A run that computed to its end, until a later one overwrites: its files *)
(* are there, and later runs in its directory have nothing to do.          *)
Computed(q)  == pc[q] = "success" /\ conf[q].real
Later(q)     == {r \in Users(dir[q]) : r > q}
Protected(q) == Computed(q) /\ \A r \in Later(q) : ~conf[r].overwrite

Kept ==
  \A q \in Runs : Protected(q) =>
    /\ \A k \in DOMAIN Writes(conf[q]) : disk[dir[q]][File(q, k)] = By(q)
    /\ \A r \in Later(q) : conf[r].resume /\ pc[r] \in Idle

(* A directory that only calculations used, none of which stopped in the   *)
(* middle of a file: once it has a result, that is one run's, and so is    *)
(* what the result stands for; later runs have nothing to do.              *)
Clean(d) == \A r \in Users(d) : Computing(conf[r]) /\ ~CutOff(r)
Owner(d) == disk[d]["result"].by

Owned(d, q) ==
  /\ q \in Users(d)
  /\ \A f \in {"force_constants", "band", "plot"} : disk[d][f] = By(q)
  /\ \/ pc[q] = "writing" /\ pos[q] >= 16
     \/ /\ pc[q] \in {"success", "stopped"}
        /\ disk[d]["result"] = By(q) /\ disk[d]["summary"] = By(q)
  /\ \A r \in Users(d) : r > q => conf[r].resume /\ pc[r] \in Idle
  /\ \A r \in Users(d) : pc[r] = "skipped" => q < r /\ report[r] = q

OneOwner ==
  \A d \in Dirs : Clean(d) =>
    IF disk[d]["result"].size = "absent"
    THEN \A r \in Users(d) : pc[r] # "skipped"
    ELSE Owned(d, Owner(d))

Basics == Typed /\ InOrder /\ Placed /\ Writing

IInv == Basics /\ OwnPlace /\ Kept /\ OneOwner

-------------------------------------------------------------------------------
(* Configurations, directories and files.                                  *)

LEMMA Joined ==
  ASSUME NEW T, NEW s \in Seq(T), NEW t \in Seq(T)
  PROVE  /\ s \o t \in Seq(T) /\ Len(s \o t) = Len(s) + Len(t)
         /\ \A k \in 1 .. Len(s) + Len(t) :
              (s \o t)[k] = IF k <= Len(s) THEN s[k] ELSE t[k - Len(s)]
OBVIOUS

(* The files of a calculation, in their order, and those of the dummy.     *)
LEMMA RealFiles ==
  LET w == StructureWrites \o HarmonicWrites \o ReportWrites
  IN /\ w \in Seq(Files) /\ Len(w) = 9
     /\ w[1] = "structure" /\ w[2] = "force_constants" /\ w[3] = "band" /\ w[4] = "plot"
     /\ w[5] = "summary" /\ w[6] = "result" /\ w[7] = "stability" /\ w[8] = "summary"
     /\ w[9] = "result"
<1> DEFINE a == StructureWrites
           b == HarmonicWrites
           c == ReportWrites
<1>1. /\ a \in Seq(Files) /\ Len(a) = 1 /\ a[1] = "structure"
  BY DEF StructureWrites, Files
<1>2. /\ b \in Seq(Files) /\ Len(b) = 3
      /\ b[1] = "force_constants" /\ b[2] = "band" /\ b[3] = "plot"
  BY DEF HarmonicWrites, Files
<1>3. /\ c \in Seq(Files) /\ Len(c) = 5
      /\ c[1] = "summary" /\ c[2] = "result" /\ c[3] = "stability" /\ c[4] = "summary"
      /\ c[5] = "result"
  BY DEF ReportWrites, Files
<1> HIDE DEF a, b, c
<1>4. /\ a \o b \in Seq(Files) /\ Len(a \o b) = Len(a) + Len(b)
      /\ \A k \in 1 .. Len(a) + Len(b) :
           (a \o b)[k] = IF k <= Len(a) THEN a[k] ELSE b[k - Len(a)]
  BY <1>1, <1>2, Joined
<1> DEFINE d == a \o b
<1> HIDE DEF d
<1>5. /\ d \in Seq(Files) /\ Len(d) = 4
      /\ \A k \in 1 .. 4 : d[k] = IF k <= 1 THEN a[k] ELSE b[k - 1]
  BY <1>1, <1>2, <1>4 DEF d
<1>6. /\ d \o c \in Seq(Files) /\ Len(d \o c) = Len(d) + Len(c)
      /\ \A k \in 1 .. Len(d) + Len(c) :
           (d \o c)[k] = IF k <= Len(d) THEN d[k] ELSE c[k - Len(d)]
  BY <1>3, <1>5, Joined
<1> DEFINE w == d \o c
<1> HIDE DEF w
<1>7. /\ w \in Seq(Files) /\ Len(w) = 9
      /\ \A k \in 1 .. 9 : w[k] = IF k <= 4 THEN d[k] ELSE c[k - 4]
  BY <1>3, <1>5, <1>6 DEF w
<1>8. d[1] = a[1] /\ d[2] = b[2 - 1] /\ d[3] = b[3 - 1] /\ d[4] = b[4 - 1]
  BY <1>5
<1>9. /\ w[1] = d[1] /\ w[2] = d[2] /\ w[3] = d[3] /\ w[4] = d[4] /\ w[5] = c[5 - 4]
      /\ w[6] = c[6 - 4] /\ w[7] = c[7 - 4] /\ w[8] = c[8 - 4] /\ w[9] = c[9 - 4]
  BY <1>7
<1>10. /\ w \in Seq(Files) /\ Len(w) = 9
       /\ w[1] = "structure" /\ w[2] = "force_constants" /\ w[3] = "band" /\ w[4] = "plot"
       /\ w[5] = "summary" /\ w[6] = "result" /\ w[7] = "stability" /\ w[8] = "summary"
       /\ w[9] = "result"
  BY <1>1, <1>2, <1>3, <1>7, <1>8, <1>9
<1> QED BY <1>10 DEF w, d, a, b, c

LEMMA DummyFiles ==
  LET w == StructureWrites \o DummyReports
  IN /\ w \in Seq(Files) /\ Len(w) = 4
     /\ w[1] = "structure" /\ w[2] = "summary" /\ w[3] = "result" /\ w[4] = "stability"
<1> DEFINE a == StructureWrites
           b == DummyReports
<1>1. /\ a \in Seq(Files) /\ Len(a) = 1 /\ a[1] = "structure"
  BY DEF StructureWrites, Files
<1>2. /\ b \in Seq(Files) /\ Len(b) = 3
      /\ b[1] = "summary" /\ b[2] = "result" /\ b[3] = "stability"
  BY DEF DummyReports, Files
<1> HIDE DEF a, b
<1>3. /\ a \o b \in Seq(Files) /\ Len(a \o b) = Len(a) + Len(b)
      /\ \A k \in 1 .. Len(a) + Len(b) :
           (a \o b)[k] = IF k <= Len(a) THEN a[k] ELSE b[k - Len(a)]
  BY <1>1, <1>2, Joined
<1> DEFINE d == a \o b
<1> HIDE DEF d
<1>4. /\ d \in Seq(Files) /\ Len(d) = 4
      /\ \A k \in 1 .. 4 : d[k] = IF k <= 1 THEN a[k] ELSE b[k - 1]
  BY <1>1, <1>2, <1>3 DEF d
<1>5. d[1] = a[1] /\ d[2] = b[2 - 1] /\ d[3] = b[3 - 1] /\ d[4] = b[4 - 1]
  BY <1>4
<1>6. /\ d \in Seq(Files) /\ Len(d) = 4
      /\ d[1] = "structure" /\ d[2] = "summary" /\ d[3] = "result" /\ d[4] = "stability"
  BY <1>1, <1>2, <1>4, <1>5
<1> QED BY <1>6 DEF d, a, b

LEMMA WritesAre ==
  ASSUME NEW c \in Configs
  PROVE  /\ c.base \in Bases /\ c.overwrite \in BOOLEAN /\ c.resume \in BOOLEAN
         /\ c.dry \in BOOLEAN /\ c.real \in BOOLEAN
         /\ Len(Writes(c)) \in Nat /\ DOMAIN Writes(c) = 1 .. Len(Writes(c))
         /\ \A k \in DOMAIN Writes(c) : Writes(c)[k] \in Files \ {"settings"}
         /\ c.real /\ ~c.dry =>
              /\ Len(Writes(c)) = 9
              /\ Writes(c)[1] = "structure" /\ Writes(c)[2] = "force_constants"
              /\ Writes(c)[3] = "band" /\ Writes(c)[4] = "plot" /\ Writes(c)[5] = "summary"
              /\ Writes(c)[6] = "result" /\ Writes(c)[7] = "stability"
              /\ Writes(c)[8] = "summary" /\ Writes(c)[9] = "result"
<1>1. c \in ConfigsAt(Bases)
  BY WorkflowAssumption
<1>2. /\ c.base \in Bases /\ c.overwrite \in BOOLEAN /\ c.resume \in BOOLEAN
      /\ c.dry \in BOOLEAN /\ c.real \in BOOLEAN
  BY <1>1 DEF ConfigsAt
<1>3. CASE c.dry
  <2>1. Writes(c) = DryReports
    BY <1>3 DEF Writes
  <2> QED BY <1>2, <1>3, <2>1 DEF DryReports, Files
<1>4. CASE ~c.dry /\ c.real
  <2> DEFINE w == Writes(c)
  <2>1. w = StructureWrites \o HarmonicWrites \o ReportWrites
    BY <1>4 DEF Writes
  <2>2. /\ w \in Seq(Files) /\ Len(w) = 9
        /\ w[1] = "structure" /\ w[2] = "force_constants" /\ w[3] = "band" /\ w[4] = "plot"
        /\ w[5] = "summary" /\ w[6] = "result" /\ w[7] = "stability" /\ w[8] = "summary"
        /\ w[9] = "result"
    BY <2>1, RealFiles
  <2> HIDE DEF w
  <2>3. DOMAIN w = 1 .. 9
    BY <2>2
  <2>4. \A k \in DOMAIN w : w[k] \in Files \ {"settings"}
    BY <2>2, <2>3 DEF Files
  <2> QED BY <1>2, <2>2, <2>3, <2>4 DEF w
<1>5. CASE ~c.dry /\ ~c.real
  <2> DEFINE w == Writes(c)
  <2>1. w = StructureWrites \o DummyReports
    BY <1>5 DEF Writes
  <2>2. /\ w \in Seq(Files) /\ Len(w) = 4
        /\ w[1] = "structure" /\ w[2] = "summary" /\ w[3] = "result" /\ w[4] = "stability"
    BY <2>1, DummyFiles
  <2> HIDE DEF w
  <2>3. DOMAIN w = 1 .. 4
    BY <2>2
  <2>4. \A k \in DOMAIN w : w[k] \in Files \ {"settings"}
    BY <2>2, <2>3 DEF Files
  <2> QED BY <1>2, <1>5, <2>2, <2>3, <2>4 DEF w
<1> QED BY <1>2, <1>3, <1>4, <1>5

LEMMA FileUpdate ==
  ASSUME NEW x \in [Dirs -> [Files -> FileStates]], NEW d \in Dirs, NEW f \in Files,
         NEW s \in FileStates, NEW y, y = [x EXCEPT ![d][f] = s]
  PROVE  /\ y \in [Dirs -> [Files -> FileStates]]
         /\ y[d][f] = s
         /\ \A e \in Dirs : e # d => y[e] = x[e]
         /\ \A g \in Files : g # f => y[d][g] = x[d][g]
OBVIOUS

LEMMA Numbers == LastRun \in Nat /\ Runs = 1 .. LastRun /\ Runs \subseteq Nat \ {0}
BY WorkflowAssumption DEF Runs

LEMMA RunFacts ==
  ASSUME Basics, NEW r \in Runs, Begun(r)
  PROVE  /\ conf[r] \in Configs /\ dir[r] \in Dirs /\ conf[r].base \in Bases
         /\ \A q \in Runs : Begun(q) /\ dir[q] = dir[r] => conf[q].base = conf[r].base
         /\ \A q \in Runs : q > r /\ Begun(q) /\ dir[q] = dir[r] => dir[r] = <<conf[r].base, 0>>
<1>1. \A q \in Runs : Begun(q) =>
        /\ conf[q] \in Configs
        /\ dir[q] = <<conf[q].base, 0>> \/ dir[q] = <<conf[q].base, q>>
  BY DEF Basics, Placed
<1>2. conf[r].base \in Bases
  BY <1>1, WritesAre
<1>3. dir[r] \in Dirs
  <2>1. 0 \in 0 .. LastRun /\ r \in 0 .. LastRun
    BY Numbers
  <2>2. <<conf[r].base, 0>> \in Dirs /\ <<conf[r].base, r>> \in Dirs
    BY <1>2, <2>1 DEF Dirs
  <2> QED BY <1>1, <2>2
<1>4. \A q \in Runs : Begun(q) /\ dir[q] = dir[r] => conf[q].base = conf[r].base
  BY <1>1
<1>5. ASSUME NEW q \in Runs, q > r, Begun(q), dir[q] = dir[r]
      PROVE  dir[r] = <<conf[r].base, 0>>
  BY <1>1, <1>5, Numbers
<1> QED BY <1>1, <1>2, <1>3, <1>4, <1>5

(* The others in the directory of an active run began before it and are    *)
(* over.                                                                   *)
LEMMA Alone ==
  ASSUME Basics, NEW r \in Active
  PROVE  /\ r \in Runs /\ Begun(r) /\ r \in Users(dir[r])
         /\ \A q \in Users(dir[r]) : q = r \/ (q < r /\ pc[q] \in Over)
<1>1. r \in Runs /\ Begun(r) /\ pc[r] \notin Over
  BY DEF Active, Begun
<1>2. ASSUME NEW q \in Users(dir[r]), q # r PROVE q < r /\ pc[q] \in Over
  <2>1. q \in Runs /\ Begun(q) /\ dir[q] = dir[r]
    BY DEF Users, Begun
  <2>2. conf[q].base = conf[r].base
    BY <1>1, <2>1, RunFacts
  <2>3. ~(r < q)
    BY <1>1, <2>1, <2>2 DEF Basics, InOrder
  <2>4. q < r
    BY <1>1, <1>2, <2>1, <2>3, Numbers
  <2> QED BY <1>1, <2>1, <2>2, <2>4 DEF Basics, InOrder
<1> QED BY <1>1, <1>2 DEF Users, Begun

-------------------------------------------------------------------------------
(* What the actions do.                                                    *)

(* A turn of a run moves its pc, and may make its report.                  *)
Turn(r, v) ==
  /\ r \in Active /\ v \in Over \cup {"writing"}
  /\ pc' = [pc EXCEPT ![r] = v]
  /\ report' \in [Runs -> 0 .. LastRun] /\ \A q \in Runs : q # r => report'[q] = report[q]
  /\ UNCHANGED <<disk, second, conf, dir, pos>>
  /\ v = "writing" => pc[r] = "deciding" /\ ~Accepts(r)
                      /\ ~(conf[r].resume /\ Unreadable(disk[dir[r]]))
  /\ v = "skipped" => pc[r] = "deciding" /\ Accepts(r) /\ report'[r] = disk[dir[r]]["result"].by
  /\ v \in {"success", "dry-run"} =>
       /\ pc[r] = "writing" /\ pos[r] = 3 * Len(Writes(conf[r]))
       /\ v = "success" <=> ~conf[r].dry

LEMMA Turns ==
  ASSUME Basics, NEW r \in Runs,
         Skip(r) \/ SkipRaises(r) \/ Proceed(r) \/ End(r) \/ Stop(r)
  PROVE  \E v \in Over \cup {"writing"} : Turn(r, v)
<1>1. /\ report \in [Runs -> 0 .. LastRun] /\ LastRun \in Nat /\ r \in 0 .. LastRun
      /\ disk \in [Dirs -> [Files -> FileStates]] /\ pc \in [Runs -> Over \cup Before \cup {"new", "writing"}]
  BY Numbers DEF Basics, Typed
<1>2. CASE Skip(r)
  <2>1. r \in Active
    BY <1>2 DEF Skip, Active, Over
  <2>2. dir[r] \in Dirs
    BY <2>1, Alone, RunFacts
  <2>3. disk[dir[r]]["result"].by \in 0 .. LastRun
    BY <1>1, <2>2 DEF Files, FileStates
  <2>4. Turn(r, "skipped")
    BY <1>1, <1>2, <2>1, <2>3 DEF Skip, Turn, Over
  <2> QED BY <2>4 DEF Over
<1>3. CASE SkipRaises(r)
  <2>1. Turn(r, "stopped")
    BY <1>1, <1>3 DEF SkipRaises, Turn, Over, Active
  <2> QED BY <2>1 DEF Over
<1>4. CASE Proceed(r)
  <2>1. Turn(r, "writing")
    BY <1>1, <1>4 DEF Proceed, Turn, Over, Active
  <2> QED BY <2>1 DEF Over
<1>5. CASE End(r)
  <2>1. r \in Active
    BY <1>5 DEF End, Active, Over
  <2>2. /\ report' \in [Runs -> 0 .. LastRun] /\ \A q \in Runs : q # r => report'[q] = report[q]
    BY <1>1, <1>5 DEF End
  <2>3. CASE conf[r].dry
    <3>1. Turn(r, "dry-run")
      BY <1>5, <2>1, <2>2, <2>3 DEF End, Turn, Over
    <3> QED BY <3>1 DEF Over
  <2>4. CASE ~conf[r].dry
    <3>1. Turn(r, "success")
      BY <1>5, <2>1, <2>2, <2>4 DEF End, Turn, Over
    <3> QED BY <3>1 DEF Over
  <2> QED BY <2>3, <2>4
<1>6. CASE Stop(r)
  <2>1. Turn(r, "stopped")
    BY <1>1, <1>6 DEF Stop, Turn, Over
  <2> QED BY <2>1 DEF Over
<1> QED BY <1>2, <1>3, <1>4, <1>5, <1>6

(* A file of the directory of a run changes, and nothing of another one.   *)
Puts(r, f, s) ==
  /\ r \in Active /\ f \in Files /\ s \in FileStates
  /\ s.by = r /\ s.size # "absent"
  /\ disk' \in [Dirs -> [Files -> FileStates]]
  /\ disk'[dir[r]][f] = s
  /\ \A e \in Dirs : e # dir[r] => disk'[e] = disk[e]
  /\ \A g \in Files : g # f => disk'[dir[r]][g] = disk[dir[r]][g]
  /\ UNCHANGED <<second, conf, dir, report>>

LEMMA SettingsArePut ==
  ASSUME Basics, NEW r \in Runs, WriteSettings(r)
  PROVE  /\ Puts(r, "settings", By(r)) /\ pc[r] = "settings"
         /\ pc' = [pc EXCEPT ![r] = "deciding"] /\ UNCHANGED pos
<1>1. r \in Active /\ dir[r] \in Dirs
  <2>1. r \in Active
    BY DEF WriteSettings, Active, Over
  <2> QED BY <2>1, Alone, RunFacts
<1>2. By(r) \in FileStates /\ "settings" \in Files
  BY Numbers DEF By, FileStates, Sizes, Files
<1>3. disk' = [disk EXCEPT ![dir[r]]["settings"] = By(r)]
      /\ disk \in [Dirs -> [Files -> FileStates]]
  BY DEF WriteSettings, Basics, Typed
<1>4. /\ disk' \in [Dirs -> [Files -> FileStates]]
      /\ disk'[dir[r]]["settings"] = By(r)
      /\ \A e \in Dirs : e # dir[r] => disk'[e] = disk[e]
      /\ \A g \in Files : g # "settings" => disk'[dir[r]][g] = disk[dir[r]][g]
  BY <1>1, <1>2, <1>3, FileUpdate
<1>5. By(r).by = r /\ By(r).size # "absent"
  BY DEF By
<1> QED BY <1>1, <1>2, <1>4, <1>5 DEF Puts, WriteSettings

(* Thirds of a file: which one is written, and how far it then is.         *)
LEMMA Thirds ==
  ASSUME NEW p \in Nat
  PROVE  /\ (p \div 3) \in Nat /\ p % 3 \in 0 .. 2
         /\ p = 3 * (p \div 3) + (p % 3)
         /\ p % 3 = 2 => (p + 1) \div 3 = (p \div 3) + 1 /\ (p + 1) % 3 = 0
         /\ p % 3 # 2 => (p + 1) \div 3 = p \div 3 /\ (p + 1) % 3 = (p % 3) + 1
OBVIOUS

LEMMA FilesArePut ==
  ASSUME Basics, NEW r \in Runs, Write(r)
  PROVE  /\ pc[r] = "writing" /\ UNCHANGED pc /\ pos' = [pos EXCEPT ![r] = pos[r] + 1]
         /\ pos[r] < 3 * Len(Writes(conf[r])) /\ Current(r) \in DOMAIN Writes(conf[r])
         /\ \E s \in FileStates :
              /\ Puts(r, File(r, Current(r)), s)
              /\ pos[r] % 3 = 2 => s = By(r)
<1>1. r \in Active /\ dir[r] \in Dirs /\ conf[r] \in Configs /\ pos[r] \in Nat
  <2>1. r \in Active
    BY DEF Write, Active, Over
  <2> QED BY <2>1, Alone, RunFacts DEF Basics, Typed
<1> DEFINE size == <<"empty", "part", "whole">>[(pos[r] % 3) + 1]
           s == [by |-> r, size |-> size]
<1>2. /\ pc[r] = "writing" /\ UNCHANGED pc /\ pos' = [pos EXCEPT ![r] = pos[r] + 1]
      /\ pos[r] < 3 * Len(Writes(conf[r]))
      /\ disk' = [disk EXCEPT ![dir[r]][File(r, Current(r))] = s]
      /\ UNCHANGED <<second, conf, dir, report>>
      /\ disk \in [Dirs -> [Files -> FileStates]]
  BY DEF Write, File, Current, Basics, Typed
<1>3. size \in {"empty", "part", "whole"} /\ (pos[r] % 3 = 2 => size = "whole")
  <2>1. pos[r] % 3 \in 0 .. 2
    BY <1>1, Thirds
  <2> QED BY <2>1
<1> HIDE DEF size
<1>4. s \in FileStates /\ s.by = r /\ s.size # "absent" /\ (pos[r] % 3 = 2 => s = By(r))
  BY <1>3, Numbers DEF FileStates, Sizes, By
<1>5. Current(r) \in DOMAIN Writes(conf[r])
  <2>1. Len(Writes(conf[r])) \in Nat /\ DOMAIN Writes(conf[r]) = 1 .. Len(Writes(conf[r]))
    BY <1>1, WritesAre
  <2>2. (pos[r] \div 3) \in Nat /\ pos[r] % 3 \in 0 .. 2 /\ pos[r] = 3 * (pos[r] \div 3) + (pos[r] % 3)
    BY <1>1, Thirds
  <2> QED BY <1>2, <2>1, <2>2 DEF Current
<1>6. File(r, Current(r)) \in Files
  BY <1>1, <1>5, WritesAre DEF File
<1> HIDE DEF s
<1>7. /\ disk' \in [Dirs -> [Files -> FileStates]]
      /\ disk'[dir[r]][File(r, Current(r))] = s
      /\ \A e \in Dirs : e # dir[r] => disk'[e] = disk[e]
      /\ \A g \in Files : g # File(r, Current(r)) => disk'[dir[r]][g] = disk[dir[r]][g]
  BY <1>1, <1>2, <1>4, <1>6, FileUpdate
<1>8. Puts(r, File(r, Current(r)), s)
  BY <1>1, <1>2, <1>4, <1>6, <1>7 DEF Puts
<1> QED BY <1>2, <1>4, <1>5, <1>8

(* What the beginning of a run changes.                                    *)
LEMMA Begins ==
  ASSUME Basics, NEW r \in Runs, NEW c \in Configs, Begin(r, c)
  PROVE  /\ second = r - 1 /\ second' = r
         /\ pc[r] = "new" /\ pc' = [pc EXCEPT ![r] = "settings"]
         /\ conf' = [conf EXCEPT ![r] = c]
         /\ DOMAIN dir' = Runs /\ \A q \in Runs : q # r => dir'[q] = dir[q]
         /\ \/ /\ dir'[r] = <<c.base, 0>>
               /\ c.overwrite \/ c.resume \/ disk[<<c.base, 0>>]["result"].size = "absent"
            \/ dir'[r] = <<c.base, r>> /\ ~c.overwrite /\ ~c.resume
         /\ \A q \in Runs : Begun(q) => q < r
         /\ \A q \in Runs : Begun(q) /\ conf[q].base = c.base => pc[q] \in Over
         /\ UNCHANGED <<disk, pos, report>>
<1>1. pc[r] = "new" /\ \A q \in Runs : q < r => Begun(q)
  BY DEF Begin, Begun
<1>2. /\ second \in Nat /\ r \in Nat \ {0} /\ \A q \in Runs : Begun(q) <=> q <= second
      /\ DOMAIN conf = Runs /\ DOMAIN dir = Runs
  BY Numbers DEF Basics, Typed, InOrder
<1>3. second = r - 1
  <2>1. r > second
    BY <1>1, <1>2 DEF Begun
  <2>2. r > 1 => r - 1 \in Runs
    BY Numbers
  <2>3. r > 1 => r - 1 <= second
    BY <1>1, <1>2, <2>2
  <2> QED BY <1>2, <2>1, <2>3
<1>4. second' = r
  BY <1>2, <1>3 DEF Begin
<1>5. /\ dir' = [dir EXCEPT ![r] = Resolve(c, disk, r)]
      /\ conf' = [conf EXCEPT ![r] = c] /\ pc' = [pc EXCEPT ![r] = "settings"]
      /\ UNCHANGED <<disk, pos, report>>
  BY <1>4 DEF Begin
<1>6. /\ DOMAIN dir' = Runs /\ (\A q \in Runs : q # r => dir'[q] = dir[q])
      /\ dir'[r] = Resolve(c, disk, r)
  BY <1>2, <1>5
<1>7. \A q \in Runs : Begun(q) => q < r
  BY <1>2, <1>3, Numbers
<1>8. \A q \in Runs : Begun(q) /\ conf[q].base = c.base => pc[q] \in Over
  BY DEF Begin, Begun, Active
<1> QED BY <1>1, <1>3, <1>4, <1>5, <1>6, <1>7, <1>8 DEF Resolve

-------------------------------------------------------------------------------
(* The steps keep the basic facts.                                         *)

LEMMA InitBasics == Init => Basics
<1> SUFFICES ASSUME Init PROVE Basics
  OBVIOUS
<1>1. /\ disk = [d \in Dirs |-> EmptyDir] /\ second = 0 /\ pc = [r \in Runs |-> "new"]
      /\ DOMAIN conf = Runs /\ DOMAIN dir = Runs
      /\ pos = [r \in Runs |-> 0] /\ report = [r \in Runs |-> Nobody]
  BY DEF Init
<1>2. EmptyDir \in [Files -> FileStates] /\ \A f \in Files : EmptyDir[f].by = Nobody
  BY Numbers DEF EmptyDir, NoFile, FileStates, Sizes, Nobody
<1>3. Typed
  <2>1. disk \in [Dirs -> [Files -> FileStates]]
    BY <1>1, <1>2
  <2>2. \A d \in Dirs, f \in Files : disk[d][f].size = "absent" => disk[d][f].by = Nobody
    BY <1>1, <1>2
  <2>3. second \in 0 .. LastRun /\ report \in [Runs -> 0 .. LastRun] /\ pos \in [Runs -> Nat]
    BY <1>1, Numbers DEF Nobody
  <2> QED BY <1>1, <2>1, <2>2, <2>3 DEF Typed
<1>4. InOrder
  BY <1>1, Numbers DEF InOrder, Begun
<1>5. Placed
  <2>1. \A b \in Bases, k \in Runs : <<b, k>> \in Dirs
    BY Numbers DEF Dirs
  <2> QED BY <1>1, <2>1 DEF Placed, Begun
<1>6. Writing
  BY <1>1 DEF Writing, Before
<1> QED BY <1>3, <1>4, <1>5, <1>6 DEF Basics

LEMMA TurnBasics ==
  ASSUME Basics, NEW r \in Active, NEW v, Turn(r, v)
  PROVE  Basics'
<1> USE DEF Basics
<1>1. /\ r \in Runs /\ Begun(r) /\ pc[r] \notin Over
      /\ v \in Over \cup {"writing"} /\ pc' = [pc EXCEPT ![r] = v]
      /\ UNCHANGED <<disk, second, conf, dir, pos>>
      /\ report' \in [Runs -> 0 .. LastRun]
  BY Alone DEF Active, Turn
<1>2. /\ pc \in [Runs -> Over \cup Before \cup {"new", "writing"}]
      /\ pc'[r] = v /\ \A q \in Runs : q # r => pc'[q] = pc[q]
  BY <1>1 DEF Typed
<1>3. v # "new" /\ v \notin Before
  BY <1>1 DEF Over, Before
<1>4. Typed'
  BY <1>1, <1>2 DEF Typed
<1>5. \A q \in Runs : /\ Begun(q)' <=> Begun(q)
                      /\ pc[q] \in Over => pc'[q] \in Over
  BY <1>1, <1>2, <1>3 DEF Begun
<1>6. InOrder'
  BY <1>1, <1>5 DEF InOrder
<1>7. Placed'
  BY <1>1, <1>5 DEF Placed
<1>8. Writing'
  <2> SUFFICES ASSUME NEW q \in Runs
               PROVE  /\ pc'[q] \in Before => pos[q] = 0
                      /\ pc'[q] = "new" => pos[q] = 0
                      /\ pc'[q] = "writing" => Progress(q)'
                      /\ pc'[q] = "success" => ~conf[q].dry /\ pos[q] % 3 = 0
    BY <1>1 DEF Writing
  <2>1. Progress(q)' <=> Progress(q)
    BY <1>1 DEF Progress, File, Current
  <2>2. CASE q # r
    BY <1>2, <2>1, <2>2 DEF Writing
  <2>3. CASE q = r
    <3>1. v = "writing" => Progress(r)
      <4> SUFFICES ASSUME v = "writing" PROVE Progress(r)
        OBVIOUS
      <4>1. pos[r] = 0
        BY <1>1 DEF Turn, Writing, Before
      <4>2. 0 \div 3 = 0 /\ 0 % 3 = 0
        OBVIOUS
      <4>3. conf[r] \in Configs
        BY <1>1, RunFacts
      <4>4. Len(Writes(conf[r])) \in Nat /\ DOMAIN Writes(conf[r]) = 1 .. Len(Writes(conf[r]))
        BY <4>3, WritesAre
      <4> QED BY <4>1, <4>2, <4>4 DEF Progress, Current
    <3>2. v = "success" => ~conf[r].dry /\ pos[r] % 3 = 0
      <4> SUFFICES ASSUME v = "success" PROVE ~conf[r].dry /\ pos[r] % 3 = 0
        OBVIOUS
      <4>1. pos[r] = 3 * Len(Writes(conf[r])) /\ ~conf[r].dry /\ conf[r] \in Configs
        BY <1>1, RunFacts DEF Turn
      <4>2. Len(Writes(conf[r])) \in Nat
        BY <4>1, WritesAre
      <4> QED BY <4>1, <4>2
    <3> QED BY <1>2, <1>3, <2>1, <2>3, <3>1, <3>2
  <2> QED BY <2>2, <2>3
<1> QED BY <1>4, <1>6, <1>7, <1>8

(* Files that change in a directory leave the others as they are.          *)
LEMMA PutsPlaced ==
  ASSUME Basics, NEW r \in Active, NEW f, NEW s, Puts(r, f, s),
         \A q \in Runs : Begun(q)' <=> Begun(q)
  PROVE  /\ Placed'
         /\ \A d \in Dirs, g \in Files : disk'[d][g].size = "absent" => disk'[d][g].by = Nobody
         /\ \A q \in Active : q # r => dir[q] # dir[r] /\ disk'[dir[q]] = disk[dir[q]]
<1>1. /\ r \in Runs /\ Begun(r) /\ dir[r] \in Dirs
      /\ dir[r] \in {<<conf[r].base, 0>>, <<conf[r].base, r>>}
      /\ r <= second
  BY Alone, RunFacts DEF Basics, InOrder, Placed
<1>2. \A d \in Dirs, g \in Files : disk'[d][g].size = "absent" => disk'[d][g].by = Nobody
  <2> SUFFICES ASSUME NEW d \in Dirs, NEW g \in Files, disk'[d][g].size = "absent"
               PROVE  disk'[d][g].by = Nobody
    OBVIOUS
  <2>1. disk'[d][g] = disk[d][g]
    BY DEF Puts
  <2> QED BY <2>1 DEF Basics, Typed
<1>3. \A q \in Active : q # r => dir[q] # dir[r] /\ disk'[dir[q]] = disk[dir[q]]
  <2> SUFFICES ASSUME NEW q \in Active, q # r
               PROVE  dir[q] # dir[r] /\ disk'[dir[q]] = disk[dir[q]]
    OBVIOUS
  <2>1. q \in Runs /\ Begun(q) /\ pc[q] \notin Over /\ q \in Users(dir[q]) /\ dir[q] \in Dirs
    <3>1. q \in Runs /\ Begun(q) /\ q \in Users(dir[q])
      BY Alone
    <3> QED BY <3>1, RunFacts DEF Active
  <2>2. dir[q] # dir[r]
    BY <2>1, Alone
  <2> QED BY <2>1, <2>2 DEF Puts
<1>4. \A b \in Bases, k \in Runs : k > second' => disk'[<<b, k>>] = EmptyDir
  <2> SUFFICES ASSUME NEW b \in Bases, NEW k \in Runs, k > second' PROVE disk'[<<b, k>>] = EmptyDir
    OBVIOUS
  <2>1. <<b, k>> \in Dirs /\ second' = second /\ disk[<<b, k>>] = EmptyDir
    BY Numbers DEF Dirs, Puts, Basics, Placed
  <2>2. k # 0 /\ k # r
    BY <1>1, <2>1, Numbers DEF Basics, Typed
  <2>3. <<b, k>> # dir[r]
    BY <1>1, <2>2
  <2> QED BY <2>1, <2>3 DEF Puts
<1>5. Placed'
  <2>1. conf' = conf /\ dir' = dir
    BY DEF Puts
  <2>2. \A q \in Runs : Begun(q) =>
       /\ conf[q] \in Configs
       /\ dir[q] \in {<<conf[q].base, 0>>, <<conf[q].base, q>>}
       /\ conf[q].overwrite \/ conf[q].resume => dir[q] = <<conf[q].base, 0>>
    BY DEF Basics, Placed
  <2> QED BY <1>4, <2>1, <2>2 DEF Placed
<1> QED BY <1>2, <1>3, <1>5

LEMMA SettingsBasics ==
  ASSUME Basics, NEW r \in Runs, WriteSettings(r)
  PROVE  Basics'
<1>1. /\ Puts(r, "settings", By(r)) /\ pc[r] = "settings"
      /\ pc' = [pc EXCEPT ![r] = "deciding"] /\ UNCHANGED pos
  BY SettingsArePut
<1>2. r \in Active /\ UNCHANGED <<second, conf, dir, report>>
      /\ disk' \in [Dirs -> [Files -> FileStates]]
  BY <1>1 DEF Puts
<1>3. /\ pc'[r] = "deciding" /\ \A q \in Runs : q # r => pc'[q] = pc[q]
      /\ pc' \in [Runs -> Over \cup Before \cup {"new", "writing"}]
  BY <1>1 DEF Basics, Typed, Before
<1>4. \A q \in Runs : /\ Begun(q)' <=> Begun(q)
                      /\ pc[q] \in Over => pc'[q] \in Over
  BY <1>1, <1>3 DEF Begun, Over
<1>5. /\ Placed'
      /\ \A d \in Dirs, g \in Files : disk'[d][g].size = "absent" => disk'[d][g].by = Nobody
      /\ \A q \in Active : q # r => dir[q] # dir[r] /\ disk'[dir[q]] = disk[dir[q]]
  BY <1>1, <1>2, <1>4, PutsPlaced
<1>6. Typed'
  BY <1>1, <1>2, <1>3, <1>5 DEF Basics, Typed
<1>7. InOrder'
  BY <1>2, <1>4 DEF Basics, InOrder
<1>8. Writing'
  <2> SUFFICES ASSUME NEW q \in Runs
               PROVE  /\ pc'[q] \in Before => pos[q] = 0
                      /\ pc'[q] = "new" => pos[q] = 0
                      /\ pc'[q] = "writing" => Progress(q)'
                      /\ pc'[q] = "success" => ~conf[q].dry /\ pos[q] % 3 = 0
    BY <1>1, <1>2 DEF Writing
  <2>1. CASE q = r
    BY <1>1, <1>3, <2>1 DEF Basics, Writing, Before
  <2>2. CASE q # r
    <3>1. pc'[q] = pc[q]
      BY <1>3, <2>2
    <3>2. ASSUME pc[q] = "writing" PROVE Progress(q)'
      <4>1. q \in Active
        BY <3>2 DEF Active, Over
      <4>2. disk'[dir[q]] = disk[dir[q]]
        BY <1>5, <2>2, <4>1
      <4>3. Progress(q)
        BY <3>2 DEF Basics, Writing
      <4> QED BY <1>1, <1>2, <4>2, <4>3 DEF Progress, File, Current
    <3> QED BY <3>1, <3>2 DEF Basics, Writing
  <2> QED BY <2>1, <2>2
<1> QED BY <1>5, <1>6, <1>7, <1>8 DEF Basics

(* A run that writes comes further.                                        *)
LEMMA WritingProgresses ==
  ASSUME Basics, NEW r \in Runs, Write(r)
  PROVE  Progress(r)'
<1>1. /\ pc[r] = "writing" /\ pos' = [pos EXCEPT ![r] = pos[r] + 1]
      /\ pos[r] < 3 * Len(Writes(conf[r])) /\ Current(r) \in DOMAIN Writes(conf[r])
  BY FilesArePut
<1>2. PICK s \in FileStates : /\ Puts(r, File(r, Current(r)), s)
                              /\ pos[r] % 3 = 2 => s = By(r)
  BY FilesArePut
<1> DEFINE w == Writes(conf[r])
           p == pos[r]
           c == Current(r)
           x == disk[dir[r]]
           y == disk'[dir[r]]
<1>3. /\ y[w[c]] = s /\ s.by = r /\ s.size # "absent"
      /\ \A k \in DOMAIN w : w[k] # w[c] => y[w[k]] = x[w[k]]
  <2>1. \A k \in DOMAIN w : w[k] \in Files
    <3>1. conf[r] \in Configs
      BY <1>1, RunFacts DEF Begun
    <3> QED BY <3>1, WritesAre
  <2> QED BY <1>2, <2>1 DEF Puts, File
<1>4. /\ p \in Nat /\ p' = p + 1 /\ w' = w /\ dir' = dir
      /\ Len(w) \in Nat /\ DOMAIN w = 1 .. Len(w)
  <2>1. conf[r] \in Configs /\ conf' = conf /\ dir' = dir
    BY <1>1, <1>2, RunFacts DEF Begun, Puts
  <2>2. Len(w) \in Nat /\ DOMAIN w = 1 .. Len(w)
    BY <2>1, WritesAre
  <2> QED BY <1>1, <2>1, <2>2 DEF Basics, Typed
<1>5. /\ \A k \in DOMAIN w :
           k < c => x[w[k]] = By(r) \/ (p % 3 # 0 /\ w[k] = w[c])
      /\ c = (p \div 3) + 1 /\ c' = ((p + 1) \div 3) + 1
  BY <1>1, <1>4 DEF Basics, Writing, Progress, File, Current
<1>6. /\ (p \div 3) \in Nat /\ p % 3 \in 0 .. 2
      /\ p % 3 = 2 => (p + 1) \div 3 = (p \div 3) + 1 /\ (p + 1) % 3 = 0
      /\ p % 3 # 2 => (p + 1) \div 3 = p \div 3 /\ (p + 1) % 3 = (p % 3) + 1
  BY <1>4, Thirds
<1>7. c \in DOMAIN w /\ p + 1 <= 3 * Len(w)
  BY <1>1, <1>4
<1>8. \A k \in DOMAIN w :
        /\ k < c' => y[w[k]] = By(r) \/ ((p + 1) % 3 # 0 /\ w[k] = w[c'])
        /\ k = c' /\ (p + 1) % 3 # 0 => y[w[k]].by = r /\ y[w[k]].size # "absent"
  <2> SUFFICES ASSUME NEW k \in DOMAIN w
               PROVE  /\ k < c' => y[w[k]] = By(r) \/ ((p + 1) % 3 # 0 /\ w[k] = w[c'])
                      /\ k = c' /\ (p + 1) % 3 # 0 => y[w[k]].by = r /\ y[w[k]].size # "absent"
    OBVIOUS
  <2>0. k \in Nat /\ c \in Nat
    BY <1>4, <1>7
  <2>1. CASE p % 3 = 2
    <3>1. c' = c + 1 /\ (p + 1) % 3 = 0 /\ s = By(r)
      BY <1>2, <1>5, <1>6, <2>1
    <3>2. k < c' => k < c \/ k = c
      BY <2>0, <3>1
    <3>3. k < c' => y[w[k]] = By(r)
      BY <1>3, <1>5, <3>1, <3>2
    <3> QED BY <3>1, <3>3
  <2>2. CASE p % 3 # 2
    <3>1. c' = c /\ (p + 1) % 3 # 0
      BY <1>5, <1>6, <2>2
    <3>2. k < c' => y[w[k]] = By(r) \/ w[k] = w[c']
      BY <1>3, <1>5, <3>1
    <3> QED BY <1>3, <3>1, <3>2
  <2> QED BY <2>1, <2>2
<1>9. y = disk'[dir'[r]]
  BY <1>4
<1> QED BY <1>4, <1>7, <1>8, <1>9 DEF Progress, File, Current

LEMMA WriteBasics ==
  ASSUME Basics, NEW r \in Runs, Write(r)
  PROVE  Basics'
<1>1. /\ pc[r] = "writing" /\ UNCHANGED pc /\ pos' = [pos EXCEPT ![r] = pos[r] + 1]
  BY FilesArePut
<1>2. PICK f \in Files, s \in FileStates : Puts(r, f, s)
  <2>1. PICK s \in FileStates : Puts(r, File(r, Current(r)), s)
    BY FilesArePut
  <2> QED BY <2>1 DEF Puts
<1>3. r \in Active /\ UNCHANGED <<second, conf, dir, report>>
      /\ disk' \in [Dirs -> [Files -> FileStates]]
  BY <1>2 DEF Puts
<1>4. \A q \in Runs : Begun(q)' <=> Begun(q)
  BY <1>1 DEF Begun
<1>5. /\ Placed'
      /\ \A d \in Dirs, g \in Files : disk'[d][g].size = "absent" => disk'[d][g].by = Nobody
      /\ \A q \in Active : q # r => dir[q] # dir[r] /\ disk'[dir[q]] = disk[dir[q]]
  BY <1>2, <1>3, <1>4, PutsPlaced
<1>6. pos' \in [Runs -> Nat] /\ \A q \in Runs : q # r => pos'[q] = pos[q]
  BY <1>1 DEF Basics, Typed
<1>7. Typed'
  BY <1>1, <1>3, <1>5, <1>6 DEF Basics, Typed
<1>8. InOrder'
  BY <1>1, <1>3, <1>4 DEF Basics, InOrder
<1>9. Writing'
  <2> SUFFICES ASSUME NEW q \in Runs
               PROVE  /\ pc[q] \in Before => pos'[q] = 0
                      /\ pc[q] = "new" => pos'[q] = 0
                      /\ pc[q] = "writing" => Progress(q)'
                      /\ pc[q] = "success" => ~conf[q].dry /\ pos'[q] % 3 = 0
    BY <1>1, <1>3 DEF Writing
  <2>1. CASE q = r
    BY <1>1, <2>1, WritingProgresses DEF Before
  <2>2. CASE q # r
    <3>1. pos'[q] = pos[q]
      BY <1>6, <2>2
    <3>2. ASSUME pc[q] = "writing" PROVE Progress(q)'
      <4>1. q \in Active
        BY <3>2 DEF Active, Over
      <4>2. disk'[dir[q]] = disk[dir[q]]
        BY <1>5, <2>2, <4>1
      <4>3. Progress(q)
        BY <3>2 DEF Basics, Writing
      <4> QED BY <1>3, <3>1, <4>2, <4>3 DEF Progress, File, Current
    <3> QED BY <3>1, <3>2 DEF Basics, Writing
  <2> QED BY <2>1, <2>2
<1> QED BY <1>5, <1>7, <1>8, <1>9 DEF Basics

LEMMA BeginBasics ==
  ASSUME Basics, NEW r \in Runs, NEW c \in Configs, Begin(r, c)
  PROVE  Basics'
<1>1. /\ second = r - 1 /\ second' = r
      /\ pc[r] = "new" /\ pc' = [pc EXCEPT ![r] = "settings"]
      /\ conf' = [conf EXCEPT ![r] = c]
      /\ DOMAIN dir' = Runs /\ (\A q \in Runs : q # r => dir'[q] = dir[q])
      /\ \/ dir'[r] = <<c.base, 0>>
         \/ dir'[r] = <<c.base, r>> /\ ~c.overwrite /\ ~c.resume
      /\ \A q \in Runs : Begun(q) => q < r
      /\ \A q \in Runs : Begun(q) /\ conf[q].base = c.base => pc[q] \in Over
      /\ UNCHANGED <<disk, pos, report>>
  BY Begins
<1>2. /\ pc' \in [Runs -> Over \cup Before \cup {"new", "writing"}] /\ pc'[r] = "settings"
      /\ \A q \in Runs : q # r => pc'[q] = pc[q]
      /\ DOMAIN conf' = Runs /\ conf'[r] = c /\ \A q \in Runs : q # r => conf'[q] = conf[q]
  BY <1>1 DEF Basics, Typed, Before
<1>3. r \in 0 .. LastRun /\ r \in Nat \ {0} /\ second \in Nat
  BY Numbers DEF Basics, Typed
<1>4. Typed'
  BY <1>1, <1>2, <1>3 DEF Basics, Typed
<1>5. \A q \in Runs : Begun(q)' <=> (Begun(q) \/ q = r)
  BY <1>1, <1>2 DEF Begun
<1>6. InOrder'
  <2>1. ASSUME NEW q \in Runs PROVE Begun(q)' <=> q <= second'
    <3>1. Begun(q) <=> q <= second
      BY DEF Basics, InOrder
    <3> QED BY <1>1, <1>3, <1>5, <3>1, Numbers
  <2>2. ASSUME NEW p \in Runs, NEW q \in Runs, p < q, Begun(q)', conf'[p].base = conf'[q].base
        PROVE  pc'[p] \in Over
    <3>1. Begun(q) \/ q = r
      BY <1>5, <2>2
    <3>2. p # r
      BY <1>1, <1>3, <2>2, <3>1, Numbers
    <3>3. CASE q = r
      <4>1. Begun(p)
        BY <1>1, <1>3, <2>2, <3>3, Numbers DEF Basics, InOrder
      <4> QED BY <1>1, <1>2, <2>2, <3>2, <3>3, <4>1
    <3>4. CASE q # r
      BY <1>2, <2>2, <3>1, <3>2, <3>4 DEF Basics, InOrder
    <3> QED BY <3>3, <3>4
  <2> QED BY <2>1, <2>2 DEF InOrder
<1>7. Placed'
  <2>1. ASSUME NEW q \in Runs, Begun(q)'
        PROVE  /\ conf'[q] \in Configs
               /\ dir'[q] \in {<<conf'[q].base, 0>>, <<conf'[q].base, q>>}
               /\ conf'[q].overwrite \/ conf'[q].resume => dir'[q] = <<conf'[q].base, 0>>
    <3>1. CASE q = r
      BY <1>1, <1>2, <3>1
    <3>2. CASE q # r
      BY <1>1, <1>2, <1>5, <2>1, <3>2 DEF Basics, Placed
    <3> QED BY <3>1, <3>2
  <2>2. \A b \in Bases, k \in Runs : k > second' => disk'[<<b, k>>] = EmptyDir
    <3>1. \A k \in Runs : k > r => k > second
      BY <1>1, <1>3, Numbers
    <3> QED BY <1>1, <3>1 DEF Basics, Placed
  <2> QED BY <2>1, <2>2 DEF Placed
<1>8. Writing'
  <2> SUFFICES ASSUME NEW q \in Runs
               PROVE  /\ pc'[q] \in Before => pos[q] = 0
                      /\ pc'[q] = "new" => pos[q] = 0
                      /\ pc'[q] = "writing" => Progress(q)'
                      /\ pc'[q] = "success" => ~conf'[q].dry /\ pos[q] % 3 = 0
    BY <1>1 DEF Writing
  <2>1. CASE q = r
    BY <1>1, <1>2, <2>1 DEF Basics, Writing
  <2>2. CASE q # r
    <3>1. pc'[q] = pc[q] /\ conf'[q] = conf[q] /\ dir'[q] = dir[q]
      BY <1>1, <1>2, <2>2
    <3>2. Progress(q) => Progress(q)'
      BY <1>1, <3>1 DEF Progress, File, Current
    <3> QED BY <3>1, <3>2 DEF Basics, Writing
  <2> QED BY <2>1, <2>2
<1> QED BY <1>4, <1>6, <1>7, <1>8 DEF Basics

LEMMA StutterBasics == ASSUME Basics, UNCHANGED vars PROVE Basics'
<1>1. UNCHANGED <<disk, second, pc, conf, dir, pos, report>>
  BY DEF vars
<1>2. \A q \in Runs : (Progress(q)' <=> Progress(q)) /\ (Begun(q)' <=> Begun(q))
  BY <1>1 DEF Progress, File, Current, Begun
<1>3. Typed' /\ InOrder' /\ Placed'
  BY <1>1, <1>2 DEF Basics, Typed, InOrder, Placed
<1>4. Writing'
  BY <1>1, <1>2 DEF Basics, Writing
<1> QED BY <1>3, <1>4 DEF Basics

-------------------------------------------------------------------------------
(* Nobody gets into the way of a result that is there.                     *)

LEMMA TurnOwnPlace ==
  ASSUME Basics, OwnPlace, NEW r \in Active, NEW v, Turn(r, v)
  PROVE  OwnPlace'
<1>1. Active' \subseteq Active
  <2> SUFFICES ASSUME NEW q \in Active' PROVE q \in Active
    OBVIOUS
  <2>1. q \in Runs /\ (q # r => pc'[q] = pc[q])
    BY DEF Active, Turn, Basics, Typed
  <2> QED BY <2>1 DEF Active
<1> QED BY <1>1 DEF OwnPlace, Turn

LEMMA PutsOwnPlace ==
  ASSUME Basics, OwnPlace, NEW r \in Active, NEW f, NEW s, Puts(r, f, s), Active' \subseteq Active,
         \A q \in Runs : Begun(q)' <=> Begun(q)
  PROVE  OwnPlace'
<1> SUFFICES ASSUME NEW q \in Active, ~conf[q].overwrite, ~conf[q].resume
             PROVE  disk'[dir[q]]["result"].by \in {Nobody, q}
  BY DEF OwnPlace, Puts
<1>1. disk[dir[q]]["result"].by \in {Nobody, q}
  BY DEF OwnPlace
<1>2. CASE q # r
  <2>1. disk'[dir[q]] = disk[dir[q]]
    BY <1>2, PutsPlaced
  <2> QED BY <1>1, <2>1
<1>3. CASE q = r
  <2>1. "result" \in Files
    BY DEF Files
  <2> QED BY <1>1, <1>3, <2>1 DEF Puts
<1> QED BY <1>2, <1>3

LEMMA BeginOwnPlace ==
  ASSUME Basics, OwnPlace, NEW r \in Runs, NEW c \in Configs, Begin(r, c)
  PROVE  OwnPlace'
<1>1. /\ second = r - 1 /\ pc' = [pc EXCEPT ![r] = "settings"]
      /\ conf' = [conf EXCEPT ![r] = c] /\ DOMAIN conf = Runs
      /\ DOMAIN dir' = Runs /\ (\A q \in Runs : q # r => dir'[q] = dir[q])
      /\ \/ /\ dir'[r] = <<c.base, 0>>
            /\ c.overwrite \/ c.resume \/ disk[<<c.base, 0>>]["result"].size = "absent"
         \/ dir'[r] = <<c.base, r>> /\ ~c.overwrite /\ ~c.resume
      /\ UNCHANGED <<disk, pos, report>>
  BY Begins DEF Basics, Typed
<1>2. /\ conf'[r] = c /\ (\A q \in Runs : q # r => conf'[q] = conf[q] /\ pc'[q] = pc[q])
  BY <1>1 DEF Basics, Typed
<1> SUFFICES ASSUME NEW q \in Active', ~conf'[q].overwrite, ~conf'[q].resume
             PROVE  disk[dir'[q]]["result"].by \in {Nobody, q}
  BY <1>1 DEF OwnPlace
<1>3. q \in Runs
  BY DEF Active
<1>4. CASE q # r
  <2>1. q \in Active
    BY <1>2, <1>3, <1>4 DEF Active
  <2> QED BY <1>1, <1>2, <1>3, <1>4, <2>1 DEF OwnPlace
<1>5. CASE q = r
  <2>1. <<c.base, 0>> \in Dirs /\ <<c.base, r>> \in Dirs /\ "result" \in Files /\ c.base \in Bases
    BY WritesAre, Numbers DEF Dirs, Files
  <2>2. CASE dir'[r] = <<c.base, 0>>
    <3>0. ~c.overwrite /\ ~c.resume /\ <<c.base, 0>> # <<c.base, r>>
      BY <1>2, <1>5, Numbers
    <3>1. disk[<<c.base, 0>>]["result"].size = "absent"
      BY <1>1, <2>2, <3>0
    <3> QED BY <1>5, <2>1, <2>2, <3>1 DEF Basics, Typed
  <2>3. CASE dir'[r] = <<c.base, r>>
    <3>1. r > second
      BY <1>1, Numbers
    <3>2. disk[<<c.base, r>>] = EmptyDir
      BY <2>1, <3>1 DEF Basics, Placed
    <3> QED BY <1>5, <2>1, <2>3, <3>2 DEF EmptyDir, NoFile
  <2> QED BY <1>1, <2>2, <2>3
<1> QED BY <1>4, <1>5

-------------------------------------------------------------------------------
(* The files of a run that computed to its end stay.                       *)

LEMMA KeptIsComplete ==
  ASSUME Basics, Kept, NEW q \in Runs, Protected(q)
  PROVE  /\ IsComplete(disk[dir[q]]) /\ ~Unreadable(disk[dir[q]])
         /\ disk[dir[q]]["result"] = By(q)
<1>1. conf[q] \in Configs /\ conf[q].real /\ ~conf[q].dry
  BY RunFacts DEF Protected, Computed, Begun, Basics, Writing
<1>2. \A k \in DOMAIN Writes(conf[q]) : disk[dir[q]][Writes(conf[q])[k]] = By(q)
  BY DEF Kept, File
<1> DEFINE w == Writes(conf[q])
           x == disk[dir[q]]
<1>3. /\ DOMAIN w = 1 .. 9
      /\ w[2] = "force_constants" /\ w[3] = "band" /\ w[4] = "plot" /\ w[5] = "summary"
      /\ w[6] = "result"
  BY <1>1, WritesAre
<1>4. x[w[2]] = By(q) /\ x[w[3]] = By(q) /\ x[w[4]] = By(q) /\ x[w[5]] = By(q) /\ x[w[6]] = By(q)
  BY <1>2, <1>3
<1> HIDE DEF w, x
<1>5. \A f \in {"force_constants", "band", "plot", "summary", "result"} : x[f] = By(q)
  BY <1>3, <1>4
<1> QED BY <1>5 DEF IsComplete, Unreadable, By, x

LEMMA UsersStay ==
  ASSUME UNCHANGED dir, \A q \in Runs : Begun(q)' <=> Begun(q)
  PROVE  \A d : Users(d)' = Users(d)
BY DEF Users, Begun

LEMMA TurnKept ==
  ASSUME Basics, Kept, NEW r \in Active, NEW v, Turn(r, v)
  PROVE  Kept'
<1>1. /\ r \in Runs /\ pc' = [pc EXCEPT ![r] = v] /\ v \in Over \cup {"writing"}
      /\ UNCHANGED <<disk, second, conf, dir, pos>> /\ pc[r] \notin Over /\ Begun(r)
  BY Alone DEF Turn, Active
<1>2. pc'[r] = v /\ \A q \in Runs : q # r => pc'[q] = pc[q]
  BY <1>1 DEF Basics, Typed
<1>3. \A q \in Runs : Begun(q)' <=> Begun(q)
  BY <1>1, <1>2 DEF Begun, Over
<1>4. \A d : Users(d)' = Users(d)
  BY <1>1, <1>3, UsersStay
<1>5. \A q : Later(q)' = Later(q)
  BY <1>1, <1>4 DEF Later
<1> SUFFICES ASSUME NEW q \in Runs, Protected(q)'
             PROVE  /\ \A k \in DOMAIN Writes(conf[q]) : disk[dir[q]][File(q, k)] = By(q)
                    /\ \A p \in Later(q) : conf[p].resume /\ pc'[p] \in Idle
  BY <1>1, <1>5 DEF Kept, File
<1>6. /\ pc'[q] = "success" /\ conf[q].real /\ \A p \in Later(q) : ~conf[p].overwrite
  BY <1>1, <1>5 DEF Protected, Computed
<1>7. CASE q # r
  <2>1. Protected(q)
    BY <1>2, <1>6, <1>7 DEF Protected, Computed
  <2>2. ASSUME NEW p \in Later(q) PROVE conf[p].resume /\ pc'[p] \in Idle
    <3>1. conf[p].resume /\ pc[p] \in Idle /\ p \in Runs /\ dir[p] = dir[q]
      BY <2>1 DEF Kept, Later, Users
    <3>2. CASE p = r
      <4>1. v # "writing"
        <5>1. IsComplete(disk[dir[r]])
          BY <2>1, <3>1, <3>2, KeptIsComplete
        <5> QED BY <3>1, <3>2, <5>1 DEF Turn, Accepts
      <4>2. v \notin {"success", "dry-run"}
        BY <3>1, <3>2 DEF Turn, Idle, Before
      <4> QED BY <1>1, <1>2, <3>1, <3>2, <4>1, <4>2 DEF Over, Idle
    <3> QED BY <1>2, <3>1, <3>2
  <2> QED BY <2>1, <2>2 DEF Kept
<1>8. CASE q = r
  <2>1. /\ pc[r] = "writing" /\ pos[r] = 3 * Len(Writes(conf[r])) /\ conf[r] \in Configs
    BY <1>1, <1>2, <1>6, <1>8, RunFacts DEF Turn
  <2>2. Len(Writes(conf[r])) \in Nat /\ DOMAIN Writes(conf[r]) = 1 .. Len(Writes(conf[r]))
    BY <2>1, WritesAre
  <2>3. pos[r] % 3 = 0 /\ Current(r) = Len(Writes(conf[r])) + 1
    BY <2>1, <2>2 DEF Current
  <2>4. \A k \in DOMAIN Writes(conf[r]) : disk[dir[r]][File(r, k)] = By(r)
    <3>1. Progress(r)
      BY <1>1, <2>1 DEF Basics, Writing
    <3> QED BY <2>2, <2>3, <3>1 DEF Progress
  <2>5. Later(r) = {}
    <3>1. \A p \in Users(dir[r]) : p \in Runs /\ ~(p > r)
      <4>1. \A p \in Users(dir[r]) : p \in Runs /\ (p = r \/ p < r)
        BY Alone DEF Users
      <4> QED BY <1>1, <4>1, Numbers
    <3> QED BY <3>1 DEF Later
  <2> QED BY <1>8, <2>4, <2>5
<1> QED BY <1>7, <1>8

LEMMA PutsKept ==
  ASSUME Basics, Kept, NEW r \in Active, NEW f, NEW s, Puts(r, f, s),
         \A q \in Runs : Begun(q)' <=> Begun(q),
         \A q \in Runs : pc'[q] = pc[q] \/ (pc[q] \in Idle /\ pc'[q] = "deciding"),
         pc[r] \in Idle => f = "settings"
  PROVE  Kept'
<1>1. UNCHANGED <<conf, dir>> /\ r \in Runs /\ Begun(r) /\ pc[r] \notin Over
  BY Alone DEF Puts, Active
<1>2. \A d : Users(d)' = Users(d)
  BY <1>1, UsersStay
<1>3. \A q : Later(q)' = Later(q)
  BY <1>1, <1>2 DEF Later
<1> SUFFICES ASSUME NEW q \in Runs, Protected(q)'
             PROVE  /\ \A k \in DOMAIN Writes(conf[q]) : disk'[dir[q]][File(q, k)] = By(q)
                    /\ \A p \in Later(q) : conf[p].resume /\ pc'[p] \in Idle
  BY <1>1, <1>3 DEF Kept, File
<1>4. Protected(q) /\ pc[q] = "success" /\ Begun(q)
  BY <1>1, <1>3 DEF Protected, Computed, Begun
<1>5. /\ \A k \in DOMAIN Writes(conf[q]) : disk[dir[q]][File(q, k)] = By(q)
      /\ \A p \in Later(q) : conf[p].resume /\ pc[p] \in Idle
  BY <1>4 DEF Kept
<1>6. \A p \in Later(q) : conf[p].resume /\ pc'[p] \in Idle
  BY <1>5 DEF Later, Users, Idle, Before
<1>7. ASSUME NEW k \in DOMAIN Writes(conf[q]) PROVE disk'[dir[q]][File(q, k)] = By(q)
  <2>1. conf[q] \in Configs /\ dir[q] \in Dirs
    BY <1>4, RunFacts
  <2>2. File(q, k) \in Files /\ File(q, k) # "settings"
    BY <2>1, WritesAre DEF File
  <2>3. CASE dir[q] # dir[r]
    BY <1>5, <2>1, <2>3 DEF Puts
  <2>4. CASE dir[q] = dir[r]
    <3>1. q \in Users(dir[r]) /\ q # r
      BY <1>1, <1>4, <2>4 DEF Users, Over
    <3>2. q < r
      BY <3>1, Alone
    <3>3. r \in Later(q)
      BY <1>1, <1>4, <2>4, <3>2, Numbers DEF Later, Users, Begun
    <3>4. f = "settings"
      BY <1>5, <3>3
    <3>5. disk'[dir[r]][File(q, k)] = disk[dir[r]][File(q, k)]
      BY <2>2, <3>4 DEF Puts
    <3> QED BY <1>5, <2>4, <3>5
  <2> QED BY <2>3, <2>4
<1> QED BY <1>6, <1>7

LEMMA BeginKept ==
  ASSUME Basics, Kept, NEW r \in Runs, NEW c \in Configs, Begin(r, c)
  PROVE  Kept'
<1>1. /\ pc[r] = "new" /\ pc' = [pc EXCEPT ![r] = "settings"]
      /\ conf' = [conf EXCEPT ![r] = c] /\ DOMAIN conf = Runs
      /\ (\A q \in Runs : q # r => dir'[q] = dir[q])
      /\ \/ /\ dir'[r] = <<c.base, 0>>
            /\ c.overwrite \/ c.resume \/ disk[<<c.base, 0>>]["result"].size = "absent"
         \/ dir'[r] = <<c.base, r>> /\ ~c.overwrite /\ ~c.resume
      /\ (\A q \in Runs : Begun(q) => q < r)
      /\ UNCHANGED <<disk, pos, report>>
  BY Begins DEF Basics, Typed
<1>2. /\ conf'[r] = c /\ pc'[r] = "settings"
      /\ (\A q \in Runs : q # r => conf'[q] = conf[q] /\ pc'[q] = pc[q])
  BY <1>1 DEF Basics, Typed
<1> SUFFICES ASSUME NEW q \in Runs, Protected(q)'
             PROVE  /\ \A k \in DOMAIN Writes(conf'[q]) : disk[dir'[q]][Writes(conf'[q])[k]] = By(q)
                    /\ \A p \in Later(q)' : conf'[p].resume /\ pc'[p] \in Idle
  BY <1>1 DEF Kept, File
<1>3. /\ q # r /\ pc[q] = "success" /\ Begun(q) /\ conf[q].real
      /\ conf'[q] = conf[q] /\ dir'[q] = dir[q]
      /\ \A p \in Later(q)' : ~conf'[p].overwrite
  BY <1>1, <1>2 DEF Protected, Computed, Begun
<1>4. \A p \in Later(q) : p \in Later(q)' /\ p # r
  BY <1>1, <1>2, <1>3 DEF Later, Users
<1>5. \A p \in Later(q)' : p = r \/ p \in Later(q)
  BY <1>1, <1>2, <1>3 DEF Later, Users
<1>6. Protected(q)
  <2>1. \A p \in Later(q) : p \in Runs
    BY DEF Later, Users
  <2> QED BY <1>2, <1>3, <1>4, <2>1 DEF Protected, Computed
<1>7. /\ \A k \in DOMAIN Writes(conf[q]) : disk[dir[q]][Writes(conf[q])[k]] = By(q)
      /\ \A p \in Later(q) : conf[p].resume /\ pc[p] \in Idle
  BY <1>6 DEF Kept, File
<1>8. ASSUME r \in Later(q)' PROVE c.resume
  <2>1. dir'[r] = dir[q] /\ ~c.overwrite
    BY <1>2, <1>3, <1>8 DEF Later, Users
  <2>2. dir[q] = <<conf[q].base, 0>> \/ dir[q] = <<conf[q].base, q>>
    BY <1>3 DEF Basics, Placed
  <2>3. dir'[r] # <<c.base, r>>
    BY <1>1, <1>3, <2>1, <2>2, Numbers
  <2>4. disk[<<c.base, 0>>]["result"].size # "absent"
    <3>1. disk[dir[q]]["result"] = By(q)
      BY <1>6, KeptIsComplete
    <3>2. dir[q] = <<c.base, 0>>
      BY <1>1, <2>1, <2>3
    <3> QED BY <3>1, <3>2 DEF By
  <2> QED BY <1>1, <2>1, <2>3, <2>4
<1>9. ASSUME NEW p \in Later(q)' PROVE conf'[p].resume /\ pc'[p] \in Idle
  <2>1. CASE p = r
    BY <1>2, <1>8, <1>9, <2>1 DEF Idle, Before
  <2>2. CASE p # r
    <3>1. p \in Later(q) /\ p \in Runs
      BY <1>5, <2>2 DEF Later, Users
    <3> QED BY <1>2, <1>7, <2>2, <3>1
  <2> QED BY <2>1, <2>2
<1> QED BY <1>3, <1>7, <1>9

-------------------------------------------------------------------------------
(* A directory has one owner.                                              *)

OneOwnerAt(d) ==
  Clean(d) =>
    IF disk[d]["result"].size = "absent"
    THEN \A r \in Users(d) : pc[r] # "skipped"
    ELSE Owned(d, Owner(d))

(* A directory of which nothing changes.                                   *)
LEMMA Untouched ==
  ASSUME NEW d, OneOwnerAt(d), disk'[d] = disk[d], Users(d)' = Users(d),
         \A q \in Users(d) :
           /\ pc'[q] = pc[q] /\ conf'[q] = conf[q] /\ pos'[q] = pos[q] /\ report'[q] = report[q]
  PROVE  OneOwnerAt(d)'
<1> SUFFICES ASSUME Clean(d)'
             PROVE  IF disk'[d]["result"].size = "absent"
                    THEN \A r \in Users(d)' : pc'[r] # "skipped"
                    ELSE Owned(d, Owner(d))'
  BY DEF OneOwnerAt
<1>1. Clean(d)
  BY DEF Clean, CutOff
<1>2. CASE disk[d]["result"].size = "absent"
  BY <1>1, <1>2 DEF OneOwnerAt
<1>3. CASE disk[d]["result"].size # "absent"
  <2>1. PICK q : q = Owner(d)
    OBVIOUS
  <2>2. Owned(d, q) /\ Owner(d)' = q
    BY <1>1, <1>3, <2>1 DEF OneOwnerAt, Owner
  <2>3. Owned(d, q)'
    BY <2>2 DEF Owned
  <2> QED BY <1>3, <2>2, <2>3
<1> QED BY <1>2, <1>3

(* The run that owns a directory has written everything that a result      *)
(* stands for, once it is over.                                            *)
LEMMA OwnedIsComplete ==
  ASSUME NEW d, NEW q, Owned(d, q), pc[q] # "writing"
  PROVE  IsComplete(disk[d]) /\ ~Unreadable(disk[d])
BY DEF Owned, IsComplete, Unreadable, By

LEMMA TurnOneOwner ==
  ASSUME Basics, OneOwner, NEW r \in Active, NEW v, Turn(r, v)
  PROVE  OneOwner'
<1>1. /\ r \in Runs /\ pc' = [pc EXCEPT ![r] = v] /\ v \in Over \cup {"writing"}
      /\ UNCHANGED <<disk, second, conf, dir, pos>> /\ pc[r] \notin Over /\ Begun(r)
      /\ \A q \in Runs : q # r => report'[q] = report[q]
  BY Alone DEF Turn, Active
<1>2. pc'[r] = v /\ \A q \in Runs : q # r => pc'[q] = pc[q]
  BY <1>1 DEF Basics, Typed
<1>3. \A q \in Runs : Begun(q)' <=> Begun(q)
  BY <1>1, <1>2 DEF Begun, Over
<1>4. \A d : Users(d)' = Users(d)
  BY <1>1, <1>3, UsersStay
<1> SUFFICES ASSUME NEW d \in Dirs PROVE OneOwnerAt(d)'
  BY DEF OneOwner, OneOwnerAt
<1>5. OneOwnerAt(d) /\ Users(d)' = Users(d) /\ \A q \in Users(d) : q \in Runs /\ Begun(q) /\ dir[q] = d
  BY <1>4 DEF OneOwner, OneOwnerAt, Users, Begun
<1>6. CASE d # dir[r]
  <2>1. \A q \in Users(d) :
          /\ pc'[q] = pc[q] /\ conf'[q] = conf[q] /\ pos'[q] = pos[q] /\ report'[q] = report[q]
    BY <1>1, <1>2, <1>5, <1>6
  <2>2. disk'[d] = disk[d]
    BY <1>1
  <2> QED BY <1>5, <2>1, <2>2, Untouched
<1>7. CASE d = dir[r]
  <2> SUFFICES ASSUME Clean(d)'
               PROVE  IF disk[d]["result"].size = "absent"
                      THEN \A q \in Users(d) : pc'[q] # "skipped"
                      ELSE Owned(d, Owner(d))'
    BY <1>1, <1>4 DEF OneOwnerAt
  <2>1. r \in Users(d) /\ \A q \in Users(d) : q = r \/ (q < r /\ pc[q] \in Over)
    BY <1>7, Alone
  <2>2. \A q \in Users(d) : Computing(conf[q]) /\ ~CutOff(q)'
    BY <1>1, <1>4 DEF Clean
  <2>3. Clean(d)
    <3> SUFFICES ASSUME NEW q \in Users(d) PROVE ~CutOff(q)
      BY <2>2 DEF Clean
    <3> QED BY <1>1, <1>2, <1>5, <2>2 DEF CutOff, Over
  <2>4. CASE disk[d]["result"].size = "absent"
    <3>1. \A q \in Users(d) : pc[q] # "skipped"
      BY <1>5, <2>3, <2>4 DEF OneOwnerAt
    <3>2. v # "skipped"
      BY <1>7, <2>4 DEF Turn, Accepts, IsComplete
    <3> QED BY <1>2, <1>5, <2>4, <3>1, <3>2
  <2>5. CASE disk[d]["result"].size # "absent"
    <3>0. PICK q : q = Owner(d)
      OBVIOUS
    <3>1. Owned(d, q)
      BY <1>5, <2>3, <2>5, <3>0 DEF OneOwnerAt
    <3>2. q \in Users(d) /\ q \in Runs /\ Owner(d)' = q
      BY <1>1, <1>5, <3>0, <3>1 DEF Owned, Owner
    <3>3. CASE q = r
      <4>1. pc[r] = "writing" /\ pos[r] >= 16
        BY <1>1, <3>1, <3>3 DEF Owned, Over
      <4>2. v \in {"success", "stopped"} /\ pos[r] % 3 = 0
        <5>1. ~conf[r].dry
          BY <2>1, <2>2 DEF Computing
        <5>2. v \notin {"writing", "skipped", "dry-run"}
          BY <4>1, <5>1 DEF Turn
        <5>3. CASE v = "success"
          <6>1. pos[r] = 3 * Len(Writes(conf[r])) /\ conf[r] \in Configs
            BY <1>1, <5>3, RunFacts DEF Turn
          <6>2. Len(Writes(conf[r])) \in Nat
            BY <6>1, WritesAre
          <6> QED BY <5>3, <6>1, <6>2
        <5>4. CASE v = "stopped"
          BY <1>1, <1>2, <2>1, <2>2, <5>4 DEF CutOff
        <5> QED BY <1>1, <5>2, <5>3, <5>4 DEF Over
      <4>3. disk[d]["result"] = By(r) /\ disk[d]["summary"] = By(r)
        <5>1. conf[r] \in Configs /\ conf[r].real /\ ~conf[r].dry
          BY <1>1, <2>1, <2>2, RunFacts DEF Computing
        <5>2. /\ DOMAIN Writes(conf[r]) = 1 .. 9
              /\ File(r, 5) = "summary" /\ File(r, 6) = "result"
          BY <5>1, WritesAre DEF File
        <5>3. Current(r) > 6
          <6>1. pos[r] \in Nat
            BY <1>1 DEF Basics, Typed
          <6> QED BY <4>1, <4>2, <6>1 DEF Current
        <5>4. \A k \in 1 .. 9 : k < Current(r) => disk[dir[r]][File(r, k)] = By(r)
          <6>1. Progress(r)
            BY <1>1, <4>1 DEF Basics, Writing
          <6> QED BY <4>2, <5>2, <6>1 DEF Progress
        <5>5. 5 < Current(r) /\ 6 < Current(r) /\ 5 \in 1 .. 9 /\ 6 \in 1 .. 9
          BY <5>3, <1>1 DEF Basics, Typed, Current
        <5>6. disk[dir[r]][File(r, 5)] = By(r) /\ disk[dir[r]][File(r, 6)] = By(r)
          BY <5>4, <5>5
        <5> QED BY <1>7, <5>2, <5>6
      <4>4. \A p \in Users(d) : p > r => FALSE
        BY <1>5, <2>1, Numbers
      <4>5. \A p \in Users(d) : pc[p] = "skipped" => r < p /\ report[p] = r
        BY <3>1, <3>3 DEF Owned
      <4>6. \A p \in Users(d) : pc'[p] = "skipped" => r < p /\ report'[p] = r
        BY <1>1, <1>2, <1>5, <4>2, <4>5
      <4>7. Owned(d, r)'
        <5>1. \A f \in {"force_constants", "band", "plot"} : disk[d][f] = By(r)
          BY <3>1, <3>3 DEF Owned
        <5> QED BY <1>1, <1>2, <1>4, <2>1, <4>2, <4>3, <4>4, <4>6, <5>1 DEF Owned
      <4> QED BY <1>1, <2>5, <3>2, <3>3, <4>7 DEF Owner
    <3>4. CASE q # r
      <4>1. q < r /\ pc[q] \in Over /\ pc[q] # "writing"
        BY <2>1, <3>2, <3>4 DEF Over
      <4>2. conf[r].resume /\ pc[r] \in Idle
        BY <1>1, <2>1, <3>1, <3>2, <4>1, Numbers DEF Owned
      <4>3. disk[d]["result"] = By(q) /\ IsComplete(disk[d])
        BY <3>1, <4>1, OwnedIsComplete DEF Owned
      <4>4. v # "writing"
        BY <1>7, <4>2, <4>3 DEF Turn, Accepts
      <4>5. v \in {"skipped", "stopped"}
        BY <1>1, <4>2, <4>4 DEF Turn, Idle, Before, Over
      <4>6. v = "skipped" => report'[r] = q
        BY <1>7, <4>3 DEF Turn, By
      <4>7. \A p \in Users(d) : p > q => conf[p].resume /\ pc'[p] \in Idle
        BY <1>2, <1>5, <3>1, <4>2, <4>5 DEF Owned, Idle
      <4>8. \A p \in Users(d) : pc'[p] = "skipped" => q < p /\ report'[p] = q
        BY <1>1, <1>2, <1>5, <3>1, <4>1, <4>6 DEF Owned
      <4>9. Owned(d, q)'
        <5>1. \A f \in {"force_constants", "band", "plot"} : disk[d][f] = By(q)
          BY <3>1 DEF Owned
        <5>2. pc'[q] = pc[q] /\ pc[q] \in {"success", "stopped"} /\ disk[d]["summary"] = By(q)
          BY <1>2, <3>1, <3>2, <3>4, <4>1 DEF Owned
        <5> QED BY <1>1, <1>4, <3>2, <4>3, <4>7, <4>8, <5>1, <5>2 DEF Owned
      <4> QED BY <2>5, <3>2, <4>9
    <3> QED BY <3>3, <3>4
  <2> QED BY <2>4, <2>5
<1> QED BY <1>6, <1>7

LEMMA SettingsOneOwner ==
  ASSUME Basics, OneOwner, NEW r \in Runs, WriteSettings(r)
  PROVE  OneOwner'
<1>1. /\ Puts(r, "settings", By(r)) /\ pc[r] = "settings"
      /\ pc' = [pc EXCEPT ![r] = "deciding"] /\ UNCHANGED <<pos, conf, dir, report>>
      /\ r \in Active
  BY SettingsArePut DEF Puts
<1>2. pc'[r] = "deciding" /\ \A q \in Runs : q # r => pc'[q] = pc[q]
  BY <1>1 DEF Basics, Typed
<1>3. \A q \in Runs : Begun(q)' <=> Begun(q)
  BY <1>1, <1>2 DEF Begun
<1>4. \A d : Users(d)' = Users(d)
  BY <1>1, <1>3, UsersStay
<1> SUFFICES ASSUME NEW d \in Dirs PROVE OneOwnerAt(d)'
  BY DEF OneOwner, OneOwnerAt
<1>5. OneOwnerAt(d) /\ \A q \in Users(d) : q \in Runs /\ Begun(q) /\ dir[q] = d
  BY DEF OneOwner, OneOwnerAt, Users, Begun
<1>6. CASE d # dir[r]
  <2>1. \A q \in Users(d) :
          /\ pc'[q] = pc[q] /\ conf'[q] = conf[q] /\ pos'[q] = pos[q] /\ report'[q] = report[q]
    BY <1>1, <1>2, <1>5, <1>6
  <2>2. disk'[d] = disk[d]
    BY <1>1, <1>6 DEF Puts
  <2> QED BY <1>4, <1>5, <2>1, <2>2, Untouched
<1>7. CASE d = dir[r]
  <2>1. \A f \in {"force_constants", "band", "plot", "summary", "result"} : disk'[d][f] = disk[d][f]
    <3>1. \A f \in {"force_constants", "band", "plot", "summary", "result"} :
            f \in Files /\ f # "settings"
      BY DEF Files
    <3> QED BY <1>1, <1>7, <3>1 DEF Puts
  <2> SUFFICES ASSUME Clean(d)'
               PROVE  IF disk[d]["result"].size = "absent"
                      THEN \A q \in Users(d) : pc'[q] # "skipped"
                      ELSE Owned(d, Owner(d))'
    BY <1>4, <2>1 DEF OneOwnerAt
  <2>2. Clean(d)
    BY <1>1, <1>2, <1>4, <1>5 DEF Clean, CutOff
  <2>3. CASE disk[d]["result"].size = "absent"
    BY <1>2, <1>5, <2>2, <2>3 DEF OneOwnerAt
  <2>4. CASE disk[d]["result"].size # "absent"
    <3>0. PICK q : q = Owner(d)
      OBVIOUS
    <3>1. Owned(d, q) /\ Owner(d)' = q
      BY <1>5, <2>1, <2>2, <2>4, <3>0 DEF OneOwnerAt, Owner
    <3>2. q \in Users(d) /\ q \in Runs /\ q # r
      BY <1>1, <1>5, <3>1 DEF Owned
    <3>3. \A p \in Users(d) : p > q => conf[p].resume /\ pc'[p] \in Idle
      BY <1>2, <1>5, <3>1 DEF Owned, Idle, Before
    <3>4. \A p \in Users(d) : pc'[p] = "skipped" => q < p /\ report[p] = q
      BY <1>2, <1>5, <3>1 DEF Owned
    <3>5. Owned(d, q)'
      <4>1. pc'[q] = pc[q]
        BY <1>2, <3>2
      <4>2. \A f \in {"force_constants", "band", "plot"} : disk'[d][f] = By(q)
        BY <2>1, <3>1 DEF Owned
      <4>3. \/ pc[q] = "writing" /\ pos[q] >= 16
            \/ /\ pc[q] \in {"success", "stopped"}
               /\ disk'[d]["result"] = By(q) /\ disk'[d]["summary"] = By(q)
        BY <2>1, <3>1 DEF Owned
      <4> QED BY <1>1, <1>4, <3>2, <3>3, <3>4, <4>1, <4>2, <4>3 DEF Owned
    <3> QED BY <2>4, <3>1, <3>5
  <2> QED BY <2>3, <2>4
<1> QED BY <1>6, <1>7

(* Writing: only the owner writes where there is a result, and who writes  *)
(* the first one has written everything else of it.                        *)
LEMMA WriteOneOwner ==
  ASSUME Basics, OneOwner, NEW r \in Runs, Write(r)
  PROVE  OneOwner'
<1>1. /\ pc[r] = "writing" /\ UNCHANGED pc /\ pos' = [pos EXCEPT ![r] = pos[r] + 1]
      /\ pos[r] < 3 * Len(Writes(conf[r])) /\ Current(r) \in DOMAIN Writes(conf[r])
  BY FilesArePut
<1>2. PICK s \in FileStates : Puts(r, File(r, Current(r)), s)
  BY FilesArePut
<1>3. /\ UNCHANGED <<conf, dir, report>> /\ r \in Active /\ Begun(r)
      /\ pos[r] \in Nat /\ pos'[r] = pos[r] + 1 /\ \A q \in Runs : q # r => pos'[q] = pos[q]
  BY <1>1, <1>2 DEF Puts, Begun, Basics, Typed
<1>4. \A d : Users(d)' = Users(d)
  BY <1>1, <1>3, UsersStay DEF Begun
<1> SUFFICES ASSUME NEW d \in Dirs PROVE OneOwnerAt(d)'
  BY DEF OneOwner, OneOwnerAt
<1>5. OneOwnerAt(d) /\ \A q \in Users(d) : q \in Runs /\ Begun(q) /\ dir[q] = d
  BY DEF OneOwner, OneOwnerAt, Users, Begun
<1>6. CASE d # dir[r]
  <2>1. \A q \in Users(d) :
          /\ pc'[q] = pc[q] /\ conf'[q] = conf[q] /\ pos'[q] = pos[q] /\ report'[q] = report[q]
    BY <1>1, <1>3, <1>5, <1>6
  <2>2. disk'[d] = disk[d]
    BY <1>2, <1>6 DEF Puts
  <2> QED BY <1>4, <1>5, <2>1, <2>2, Untouched
<1>7. CASE d = dir[r]
  <2> SUFFICES ASSUME Clean(d)'
               PROVE  IF disk'[d]["result"].size = "absent"
                      THEN \A q \in Users(d) : pc[q] # "skipped"
                      ELSE Owned(d, Owner(d))'
    BY <1>1, <1>4 DEF OneOwnerAt
  <2>1. r \in Users(d) /\ \A q \in Users(d) : q = r \/ (q < r /\ pc[q] \in Over)
    BY <1>3, <1>7, Alone
  <2>2. \A q \in Users(d) : Computing(conf[q]) /\ ~CutOff(q)'
    BY <1>3, <1>4 DEF Clean
  <2>3. Clean(d)
    <3> SUFFICES ASSUME NEW q \in Users(d) PROVE ~CutOff(q)
      BY <2>2 DEF Clean
    <3> QED BY <1>1, <1>3, <1>5, <2>2 DEF CutOff
  <2> DEFINE w == Writes(conf[r])
             f == w[Current(r)]
             x == disk[d]
             y == disk'[d]
  <2>4. /\ DOMAIN w = 1 .. 9 /\ w[1] = "structure" /\ w[2] = "force_constants"
        /\ w[3] = "band" /\ w[4] = "plot" /\ w[5] = "summary" /\ w[6] = "result"
        /\ w[7] = "stability" /\ w[8] = "summary" /\ w[9] = "result"
    <3>1. conf[r] \in Configs /\ conf[r].real /\ ~conf[r].dry
      BY <1>3, <2>1, <2>2, RunFacts DEF Computing
    <3> QED BY <3>1, WritesAre
  <2>5. /\ y[f] = s /\ s.by = r /\ s.size # "absent"
        /\ \A g \in {"force_constants", "band", "plot", "summary", "result"} :
             g # f => y[g] = x[g]
    BY <1>2, <1>7 DEF Puts, File, Files
  <2>6. /\ \A k \in 1 .. 9 : k < Current(r) => x[w[k]] = By(r) \/ (pos[r] % 3 # 0 /\ w[k] = f)
        /\ pos[r] % 3 # 0 => x[f].by = r /\ x[f].size # "absent"
    <3>1. Progress(r)
      BY <1>1 DEF Basics, Writing
    <3> QED BY <1>1, <1>7, <2>4, <3>1 DEF Progress, File
  <2>7. Current(r) = (pos[r] \div 3) + 1 /\ Current(r) \in 1 .. 9
    BY <1>1, <2>4 DEF Current
  <2>8. \A p \in Users(d) : ~(p > r)
    BY <1>5, <2>1, Numbers
  <2> HIDE DEF w, f, x, y
  <2>9. CASE x["result"].size # "absent"
    <3>1. PICK q : q = Owner(d)
      OBVIOUS
    <3>2. Owned(d, q) /\ q \in Users(d) /\ q \in Runs
      BY <1>5, <2>3, <2>9, <3>1 DEF OneOwnerAt, Owned, x
    <3>3. q = r
      <4> SUFFICES ASSUME q # r PROVE FALSE
        OBVIOUS
      <4>1. r > q
        BY <2>1, <3>2, Numbers
      <4>2. pc[r] \in Idle
        BY <2>1, <3>2, <4>1 DEF Owned
      <4> QED BY <1>1, <4>2 DEF Idle, Before
    <3>4. pos[r] >= 16
      BY <1>1, <3>2, <3>3 DEF Owned
    <3>5. f \in {"result", "stability", "summary"}
      <4>1. Current(r) >= 6
        BY <1>3, <2>7, <3>4
      <4>2. Current(r) \in {6, 7, 8, 9}
        BY <2>7, <4>1
      <4> QED BY <2>4, <4>2 DEF f
    <3>6. \A g \in {"force_constants", "band", "plot"} : y[g] = By(r)
      <4>1. \A g \in {"force_constants", "band", "plot"} : x[g] = By(r)
        BY <3>2, <3>3 DEF Owned, x
      <4> QED BY <2>5, <3>5, <4>1
    <3>7. y["result"].by = r /\ y["result"].size # "absent"
      <4>1. x["result"].by = r
        BY <3>1, <3>3 DEF Owner, x
      <4>2. CASE f = "result"
        BY <2>5, <4>2
      <4>3. CASE f # "result"
        BY <2>5, <2>9, <4>1, <4>3
      <4> QED BY <4>2, <4>3
    <3>8. Owned(d, r)'
      <4>1. pos'[r] >= 16
        BY <1>3, <3>4
      <4>2. \A p \in Users(d) : pc[p] = "skipped" => r < p /\ report[p] = r
        BY <3>2, <3>3 DEF Owned
      <4> QED BY <1>1, <1>3, <1>4, <2>1, <2>8, <3>6, <4>1, <4>2 DEF Owned, y
    <3> QED BY <3>7, <3>8 DEF Owner, y
  <2>10. CASE x["result"].size = "absent"
    <3>1. \A q \in Users(d) : pc[q] # "skipped"
      BY <1>5, <2>3, <2>10 DEF OneOwnerAt, x
    <3>2. CASE f # "result"
      BY <2>5, <2>10, <3>1, <3>2 DEF y
    <3>3. CASE f = "result"
      <4>1. pos[r] % 3 = 0
        BY <2>6, <2>10, <3>3
      <4>2. ~(6 < Current(r))
        <5>1. 6 < Current(r) => x[w[6]] = By(r)
          BY <2>6, <4>1
        <5> QED BY <2>4, <2>10, <5>1 DEF By
      <4>3. Current(r) = 6
        <5>1. Current(r) \in {1, 2, 3, 4, 5, 6}
          BY <2>7, <4>2
        <5> QED BY <2>4, <3>3, <5>1 DEF f
      <4>4. pos[r] = 15
        BY <1>3, <2>7, <4>1, <4>3
      <4>5. x[w[2]] = By(r) /\ x[w[3]] = By(r) /\ x[w[4]] = By(r)
        BY <2>6, <4>1, <4>3
      <4>6. \A g \in {"force_constants", "band", "plot"} : y[g] = By(r)
        BY <2>4, <2>5, <3>3, <4>5
      <4>7. y["result"].by = r /\ y["result"].size # "absent"
        BY <2>5, <3>3
      <4>8. Owned(d, r)'
        <5>1. pos'[r] >= 16
          BY <1>3, <4>4
        <5> QED BY <1>1, <1>3, <1>4, <2>1, <2>8, <3>1, <4>6, <5>1 DEF Owned, y
      <4> QED BY <4>7, <4>8 DEF Owner, y
    <3> QED BY <3>2, <3>3
  <2> QED BY <2>9, <2>10
<1> QED BY <1>6, <1>7

(* A new run finds a result: then it resumes, unless it overwrites.        *)
LEMMA BeginOneOwner ==
  ASSUME Basics, OneOwner, NEW r \in Runs, NEW c \in Configs, Begin(r, c)
  PROVE  OneOwner'
<1>1. /\ second = r - 1 /\ pc[r] = "new" /\ pc' = [pc EXCEPT ![r] = "settings"]
      /\ conf' = [conf EXCEPT ![r] = c] /\ DOMAIN conf = Runs
      /\ (\A q \in Runs : q # r => dir'[q] = dir[q])
      /\ \/ /\ dir'[r] = <<c.base, 0>>
            /\ c.overwrite \/ c.resume \/ disk[<<c.base, 0>>]["result"].size = "absent"
         \/ dir'[r] = <<c.base, r>> /\ ~c.overwrite /\ ~c.resume
      /\ (\A q \in Runs : Begun(q) => q < r)
      /\ (\A q \in Runs : Begun(q) /\ conf[q].base = c.base => pc[q] \in Over)
      /\ UNCHANGED <<disk, pos, report>>
  BY Begins DEF Basics, Typed
<1>2. /\ conf'[r] = c /\ pc'[r] = "settings"
      /\ (\A q \in Runs : q # r => conf'[q] = conf[q] /\ pc'[q] = pc[q])
  BY <1>1 DEF Basics, Typed
<1> SUFFICES ASSUME NEW d \in Dirs PROVE OneOwnerAt(d)'
  BY DEF OneOwner, OneOwnerAt
<1>3. OneOwnerAt(d) /\ \A q \in Users(d) : q \in Runs /\ Begun(q) /\ dir[q] = d /\ q # r
  BY <1>1 DEF OneOwner, OneOwnerAt, Users, Begun
<1>4. \A q \in Users(d) :
          /\ pc'[q] = pc[q] /\ conf'[q] = conf[q] /\ pos'[q] = pos[q] /\ report'[q] = report[q]
  BY <1>1, <1>2, <1>3
<1>5. CASE d # dir'[r]
  <2>1. Users(d)' = Users(d)
    <3>1. \A q \in Runs : (pc'[q] # "new" /\ dir'[q] = d) <=> (pc[q] # "new" /\ dir[q] = d)
      BY <1>1, <1>2, <1>5
    <3> QED BY <3>1 DEF Users
  <2> QED BY <1>1, <1>3, <1>4, <2>1, Untouched
<1>6. CASE d = dir'[r]
  <2>1. Users(d)' = Users(d) \cup {r}
    <3>1. \A q \in Runs : (pc'[q] # "new" /\ dir'[q] = d) <=> ((pc[q] # "new" /\ dir[q] = d) \/ q = r)
      BY <1>1, <1>2, <1>6
    <3> QED BY <3>1 DEF Users
  <2> SUFFICES ASSUME Clean(d)'
               PROVE  IF disk[d]["result"].size = "absent"
                      THEN \A q \in Users(d)' : pc'[q] # "skipped"
                      ELSE Owned(d, Owner(d))'
    BY <1>1 DEF OneOwnerAt
  <2>2. Clean(d) /\ ~c.overwrite
    <3>1. \A q \in Users(d)' : Computing(conf'[q]) /\ ~CutOff(q)'
      BY DEF Clean
    <3>2. \A q \in Users(d) : Computing(conf[q]) /\ ~CutOff(q)
      BY <1>4, <2>1, <3>1 DEF CutOff
    <3>3. Computing(c)
      BY <1>2, <2>1, <3>1
    <3> QED BY <3>2, <3>3 DEF Clean, Computing
  <2>3. CASE disk[d]["result"].size = "absent"
    <3>1. \A q \in Users(d) : pc[q] # "skipped"
      BY <1>3, <2>2, <2>3 DEF OneOwnerAt
    <3> QED BY <1>2, <1>4, <2>1, <2>3, <3>1
  <2>4. CASE disk[d]["result"].size # "absent"
    <3>1. c.resume /\ dir'[r] = <<c.base, 0>>
      <4>1. dir'[r] # <<c.base, r>>
        <5> SUFFICES ASSUME dir'[r] = <<c.base, r>> PROVE FALSE
          OBVIOUS
        <5>1. r > second /\ c.base \in Bases
          BY <1>1, Numbers, WritesAre
        <5>2. disk[<<c.base, r>>] = EmptyDir
          BY <5>1 DEF Basics, Placed
        <5> QED BY <1>6, <2>4, <5>2 DEF EmptyDir, NoFile, Files
      <4> QED BY <1>1, <1>6, <2>2, <2>4, <4>1
    <3>2. PICK q : q = Owner(d)
      OBVIOUS
    <3>3. Owned(d, q) /\ q \in Users(d) /\ Owner(d)' = q
      BY <1>1, <1>3, <2>2, <2>4, <3>2 DEF OneOwnerAt, Owned, Owner
    <3>4. q \in Runs /\ q < r /\ pc[q] # "writing"
      <4>1. q \in Runs /\ Begun(q) /\ dir[q] = <<c.base, 0>>
        BY <1>3, <1>6, <3>1, <3>3
      <4>2. conf[q].base = c.base
        BY <4>1 DEF Basics, Placed
      <4> QED BY <1>1, <4>1, <4>2 DEF Over
    <3>5. \A p \in Users(d)' : p > q => conf'[p].resume /\ pc'[p] \in Idle
      BY <1>2, <1>4, <2>1, <3>1, <3>3 DEF Owned, Idle, Before
    <3>6. \A p \in Users(d)' : pc'[p] = "skipped" => q < p /\ report'[p] = q
      BY <1>2, <1>4, <2>1, <3>3 DEF Owned
    <3>7. Owned(d, q)'
      <4>1. pc'[q] = pc[q]
        BY <1>4, <3>3
      <4>2. /\ \A f \in {"force_constants", "band", "plot"} : disk[d][f] = By(q)
            /\ pc[q] \in {"success", "stopped"}
            /\ disk[d]["result"] = By(q) /\ disk[d]["summary"] = By(q)
        BY <3>3, <3>4 DEF Owned
      <4> QED BY <1>1, <2>1, <3>3, <3>5, <3>6, <4>1, <4>2 DEF Owned
    <3> QED BY <2>4, <3>3, <3>7
  <2> QED BY <2>3, <2>4
<1> QED BY <1>5, <1>6

LEMMA StutterRest ==
  ASSUME IInv, UNCHANGED vars
  PROVE  OwnPlace' /\ Kept' /\ OneOwner'
<1>1. UNCHANGED <<disk, second, pc, conf, dir, pos, report>>
  BY DEF vars
<1>2. OwnPlace'
  BY <1>1 DEF IInv, OwnPlace, Active
<1>3. \A d : Users(d)' = Users(d)
  BY <1>1 DEF Users
<1>4. Kept'
  <2>1. \A q : Later(q)' = Later(q)
    BY <1>1, <1>3 DEF Later
  <2> QED BY <1>1, <2>1 DEF IInv, Kept, Protected, Computed, File
<1>5. OneOwner'
  <2> SUFFICES ASSUME NEW d \in Dirs PROVE OneOwnerAt(d)'
    BY DEF OneOwner, OneOwnerAt
  <2>1. OneOwnerAt(d)
    BY DEF IInv, OneOwner, OneOwnerAt
  <2> QED BY <1>1, <1>3, <2>1, Untouched
<1> QED BY <1>2, <1>4, <1>5

LEMMA Inductive == Spec => []IInv
<1>1. Init => IInv
  <2> SUFFICES ASSUME Init PROVE IInv
    OBVIOUS
  <2>1. Basics
    BY InitBasics
  <2>2. \A r \in Runs : pc[r] = "new"
    BY DEF Init
  <2>3. OwnPlace
    BY <2>2 DEF OwnPlace, Active
  <2>4. Kept
    BY <2>2 DEF Kept, Protected, Computed
  <2>5. OneOwner
    <3> SUFFICES ASSUME NEW d \in Dirs
                 PROVE  disk[d]["result"].size = "absent" /\ Users(d) = {}
      BY DEF OneOwner
    <3>1. disk[d] = EmptyDir
      BY DEF Init
    <3> QED BY <2>2, <3>1 DEF EmptyDir, NoFile, Files, Users
  <2> QED BY <2>1, <2>3, <2>4, <2>5 DEF IInv
<1>2. IInv /\ [Next]_vars => IInv'
  <2> SUFFICES ASSUME IInv, [Next]_vars PROVE IInv'
    OBVIOUS
  <2> USE DEF IInv
  <2>1. CASE \E r \in Runs : Skip(r) \/ SkipRaises(r) \/ Proceed(r) \/ End(r) \/ Stop(r)
    <3>1. PICK r \in Runs, v \in Over \cup {"writing"} : Turn(r, v)
      BY <2>1, Turns
    <3>2. r \in Active
      BY <3>1 DEF Turn
    <3> QED BY <3>1, <3>2, TurnBasics, TurnOwnPlace, TurnKept, TurnOneOwner
  <2>2. CASE \E r \in Runs : WriteSettings(r)
    <3>1. PICK r \in Runs : WriteSettings(r)
      BY <2>2
    <3>2. /\ Puts(r, "settings", By(r)) /\ r \in Active
          /\ pc[r] = "settings" /\ pc' = [pc EXCEPT ![r] = "deciding"]
      BY <3>1, SettingsArePut DEF Puts
    <3>3. \A q \in Runs : /\ Begun(q)' <=> Begun(q)
                          /\ pc'[q] = pc[q] \/ (pc[q] \in Idle /\ pc'[q] = "deciding")
      BY <3>2 DEF Begun, Basics, Typed, Idle, Before
    <3>4. Active' \subseteq Active
      BY <3>2, <3>3 DEF Active, Over, Idle, Before, Basics, Typed
    <3>5. OwnPlace'
      BY <3>2, <3>3, <3>4, PutsOwnPlace
    <3>6. Kept'
      BY <3>2, <3>3, PutsKept
    <3> QED BY <3>1, <3>5, <3>6, SettingsBasics, SettingsOneOwner
  <2>3. CASE \E r \in Runs : Write(r)
    <3>1. PICK r \in Runs : Write(r)
      BY <2>3
    <3>2. pc[r] = "writing" /\ UNCHANGED pc
      BY <3>1, FilesArePut
    <3>3. PICK s \in FileStates : Puts(r, File(r, Current(r)), s)
      BY <3>1, FilesArePut
    <3>4. r \in Active /\ Active' = Active /\ \A q \in Runs : Begun(q)' <=> Begun(q)
      BY <3>2, <3>3 DEF Puts, Active, Begun
    <3>5. pc[r] \notin Idle
      BY <3>2 DEF Idle, Before
    <3>6. OwnPlace'
      BY <3>3, <3>4, PutsOwnPlace
    <3>7. Kept'
      BY <3>2, <3>3, <3>4, <3>5, PutsKept
    <3> QED BY <3>1, <3>6, <3>7, WriteBasics, WriteOneOwner
  <2>4. CASE \E r \in Runs : \E c \in Configs : Begin(r, c)
    BY <2>4, BeginBasics, BeginOwnPlace, BeginKept, BeginOneOwner
  <2>5. CASE Finished \/ UNCHANGED vars
    BY <2>5, StutterBasics, StutterRest DEF Finished
  <2> QED BY <2>1, <2>2, <2>3, <2>4, <2>5 DEF Next
<1> QED BY <1>1, <1>2, PTL DEF Spec

-------------------------------------------------------------------------------
(* The files of a run that computed to its end stay until somebody         *)
(* overwrites, whatever runs come after it and wherever they stop: what    *)
(* _resolve_output_dir and _is_complete_result achieve together.           *)
THEOREM FinishedFilesStay == Spec => []FinishedResultsStay
<1>1. IInv => FinishedResultsStay
  <2> SUFFICES ASSUME IInv, NEW q \in Runs, pc[q] = "success", conf[q].real,
                      \A r \in Users(dir[q]) : r > q => ~conf[r].overwrite
               PROVE  \A i \in DOMAIN Writes(conf[q]) : disk[dir[q]][Writes(conf[q])[i]] = By(q)
    BY DEF FinishedResultsStay
  <2>1. Protected(q)
    BY DEF Protected, Computed, Later
  <2> QED BY <2>1 DEF IInv, Kept, File
<1> QED BY <1>1, Inductive, PTL

(* A run with --resume that computes in the directory of an earlier run    *)
(* that finished does so because somebody overwrote its results: otherwise *)
(* it finds them complete and skips.                                       *)
THEOREM NothingIsRepeated == Spec => []FinishedWorkIsNotRepeated
<1>1. IInv => FinishedWorkIsNotRepeated
  <2> SUFFICES ASSUME IInv, NEW r \in Runs, NEW q \in Runs,
                      pc[r] = "writing", conf[r].resume,
                      pc[q] = "success", conf[q].real, dir[q] = dir[r],
                      \A s \in Users(dir[r]) : ~(q < s /\ s <= r /\ conf[s].overwrite)
               PROVE  FALSE
    BY DEF FinishedWorkIsNotRepeated
  <2>1. r \in Active /\ q \in Users(dir[r]) /\ q # r
    BY DEF Active, Over, Users
  <2>2. /\ r \in Users(dir[r]) /\ q < r
        /\ \A s \in Users(dir[r]) : s = r \/ s < r
    BY <2>1, Alone DEF IInv
  <2>3. \A s \in Users(dir[q]) : s > q => ~conf[s].overwrite
    <3>1. \A s \in Users(dir[r]) : s <= r
      BY <2>2, Numbers DEF Users
    <3>2. \A s \in Users(dir[r]) : s > q => q < s
      BY Numbers DEF Users
    <3> QED BY <3>1, <3>2
  <2>4. Protected(q)
    BY <2>3 DEF Protected, Computed, Later
  <2>5. r \in Later(q)
    BY <2>2, Numbers DEF Later
  <2>6. pc[r] \in Idle
    BY <2>4, <2>5 DEF IInv, Kept
  <2> QED BY <2>6 DEF Idle, Before
<1> QED BY <1>1, Inductive, PTL

(* In a directory that only calculations without --overwrite used, none of *)
(* which was cut off in the middle of a file, what --resume returns is one *)
(* run's result, with the files of the same run beside it.                 *)
THEOREM CalculationsAreResumed == Spec => []CalculationsResume
<1>1. IInv => CalculationsResume
  <2> SUFFICES ASSUME IInv, NEW r \in Runs, pc[r] = "skipped",
                      \A q \in Users(dir[r]) : Computing(conf[q]) /\ ~CutOff(q)
               PROVE  Reused(r)
    BY DEF CalculationsResume
  <2>1. Begun(r) /\ r \in Users(dir[r]) /\ dir[r] \in Dirs
    <3>1. Begun(r)
      BY DEF Begun
    <3> QED BY <3>1, RunFacts DEF IInv, Users
  <2>2. PICK q : q = Owner(dir[r])
    OBVIOUS
  <2>3. Owned(dir[r], q)
    BY <2>1, <2>2 DEF IInv, OneOwner, Clean
  <2>4. q \in Users(dir[r]) /\ q < r /\ report[r] = q
    BY <2>1, <2>3 DEF Owned
  <2>5. pc[q] # "writing"
    <3>1. q \in Runs /\ Begun(q) /\ dir[q] = dir[r]
      BY <2>4 DEF Users, Begun
    <3>2. conf[q].base = conf[r].base
      BY <2>1, <3>1, RunFacts DEF IInv
    <3>3. pc[q] \in Over
      BY <2>1, <2>4, <3>1, <3>2 DEF IInv, Basics, InOrder
    <3> QED BY <3>3 DEF Over
  <2>6. \A f \in {"force_constants", "band", "plot", "result"} : disk[dir[r]][f] = By(q)
    BY <2>3, <2>5 DEF Owned
  <2> QED BY <2>4, <2>6 DEF Reused, Computing
<1> QED BY <1>1, Inductive, PTL

(* A run whose user asked neither to overwrite nor to resume never writes  *)
(* into a directory that has the result.json of another run.               *)
THEOREM OthersResultsAreKept == Spec => KeepsOthersResults
<1>1. ASSUME IInv
      PROVE  \A r \in Active :
               ~conf[r].overwrite /\ ~conf[r].resume /\ disk'[dir[r]] # disk[dir[r]]
               => disk[dir[r]]["result"].by \in {Nobody, r}
  BY <1>1 DEF IInv, OwnPlace
<1> QED BY <1>1, Inductive, PTL DEF KeepsOthersResults

-------------------------------------------------------------------------------
(* Calculations that follow each other in one directory, a specification   *)
(* of its own: what a finished one lists and leaves there, for any number  *)
(* of calculations with any configurations, whatever the earlier ones left *)
(* behind, whichever stages fail and wherever a calculation is stopped.    *)

(* Lists of steps: what is in them, and what does not come after what.     *)
Entries(s) == {s[i] : i \in DOMAIN s}

After(s, X, Y) == \A i, k \in DOMAIN s : i < k /\ s[i] \in X => s[k] \notin Y

LEMMA ListsTogether ==
  ASSUME NEW S, NEW s \in Seq(S), NEW t \in Seq(S)
  PROVE  /\ s \o t \in Seq(S)
         /\ Entries(s \o t) = Entries(s) \cup Entries(t)
         /\ \A i \in DOMAIN (s \o t) :
              \/ i \in DOMAIN s /\ (s \o t)[i] = s[i]
              \/ i - Len(s) \in DOMAIN t /\ i > Len(s) /\ (s \o t)[i] = t[i - Len(s)]
<1> DEFINE u == s \o t
<1>1. /\ u \in Seq(S) /\ Len(u) = Len(s) + Len(t)
      /\ Len(s) \in Nat /\ Len(t) \in Nat
      /\ DOMAIN s = 1 .. Len(s) /\ DOMAIN t = 1 .. Len(t) /\ DOMAIN u = 1 .. Len(u)
  OBVIOUS
<1>2. /\ \A i \in 1 .. Len(s) : u[i] = s[i]
      /\ \A i \in 1 .. Len(t) : u[Len(s) + i] = t[i]
  OBVIOUS
<1>3. \A i \in DOMAIN u : \/ i \in DOMAIN s /\ u[i] = s[i]
                          \/ i - Len(s) \in DOMAIN t /\ i > Len(s) /\ u[i] = t[i - Len(s)]
  <2> SUFFICES ASSUME NEW i \in DOMAIN u
               PROVE  \/ i \in DOMAIN s /\ u[i] = s[i]
                      \/ i - Len(s) \in DOMAIN t /\ i > Len(s) /\ u[i] = t[i - Len(s)]
    OBVIOUS
  <2>1. CASE i <= Len(s)
    BY <1>1, <1>2, <2>1
  <2>2. CASE i > Len(s)
    <3>1. i - Len(s) \in 1 .. Len(t) /\ Len(s) + (i - Len(s)) = i
      BY <1>1, <2>2
    <3>2. u[Len(s) + (i - Len(s))] = t[i - Len(s)]
      BY <1>2, <3>1
    <3> QED BY <1>1, <2>2, <3>1, <3>2
  <2> QED BY <1>1, <2>1, <2>2
<1>4. Entries(u) \subseteq Entries(s) \cup Entries(t)
  BY <1>3 DEF Entries
<1>5. Entries(s) \subseteq Entries(u)
  <2>1. \A i \in DOMAIN s : i \in DOMAIN u /\ u[i] = s[i]
    BY <1>1, <1>2
  <2> HIDE DEF u
  <2> QED BY <2>1 DEF Entries
<1>6. Entries(t) \subseteq Entries(u)
  <2>1. \A i \in DOMAIN t : Len(s) + i \in DOMAIN u /\ u[Len(s) + i] = t[i]
    BY <1>1, <1>2
  <2> HIDE DEF u
  <2> QED BY <2>1 DEF Entries
<1> QED BY <1>1, <1>3, <1>4, <1>5, <1>6

LEMMA AfterTogether ==
  ASSUME NEW S, NEW s \in Seq(S), NEW t \in Seq(S), NEW X, NEW Y,
         After(s, X, Y), After(t, X, Y),
         Entries(s) \cap X = {} \/ Entries(t) \cap Y = {}
  PROVE  After(s \o t, X, Y)
<1> DEFINE u == s \o t
           Left(i)  == i \in DOMAIN s /\ u[i] = s[i]
           Right(i) == i - Len(s) \in DOMAIN t /\ i > Len(s) /\ u[i] = t[i - Len(s)]
<1> SUFFICES ASSUME NEW i \in DOMAIN u, NEW k \in DOMAIN u, i < k, u[i] \in X, u[k] \in Y
             PROVE  FALSE
  BY DEF After
<1>1. /\ Len(s) \in Nat /\ DOMAIN s = 1 .. Len(s) /\ DOMAIN t = 1 .. Len(t) /\ Len(t) \in Nat
      /\ i \in Int /\ k \in Int
  OBVIOUS
<1>2. (Left(i) \/ Right(i)) /\ (Left(k) \/ Right(k))
  BY ListsTogether
<1>3. CASE Left(i) /\ Left(k)
  BY <1>3 DEF After
<1>4. CASE Right(i) /\ Right(k)
  <2>1. i - Len(s) < k - Len(s)
    BY <1>1
  <2> QED BY <1>4, <2>1 DEF After
<1>5. CASE Left(i) /\ Right(k)
  BY <1>5 DEF Entries
<1>6. CASE Right(i) /\ Left(k)
  BY <1>1, <1>6
<1> QED BY <1>2, <1>3, <1>4, <1>5, <1>6

(* What is left of a list after its first entries.                         *)
LEMMA RestOfList ==
  ASSUME NEW S, NEW s \in Seq(S), NEW n \in 0 .. Len(s), NEW X, NEW Y
  PROVE  LET t == SubSeq(s, n + 1, Len(s))
         IN /\ t \in Seq(S)
            /\ Entries(t) = {s[i] : i \in n + 1 .. Len(s)}
            /\ \A i \in DOMAIN t : n + i \in DOMAIN s /\ t[i] = s[n + i]
            /\ \A x \in Entries(s) : x \in Entries(t) \/ \E i \in 1 .. n : x = s[i]
            /\ After(s, X, Y) => After(t, X, Y)
<1> DEFINE t == SubSeq(s, n + 1, Len(s))
<1>1. /\ Len(s) \in Nat /\ n \in Nat /\ n <= Len(s)
      /\ DOMAIN s = 1 .. Len(s) /\ DOMAIN t = 1 .. Len(s) - n
  OBVIOUS
<1>2. \A i \in DOMAIN t : n + i \in DOMAIN s /\ t[i] = s[n + i]
  OBVIOUS
<1>3. t \in Seq(S)
  OBVIOUS
<1> HIDE DEF t
<1>4. Entries(t) = {s[i] : i \in n + 1 .. Len(s)}
  <2>1. Entries(t) \subseteq {s[i] : i \in n + 1 .. Len(s)}
    <3>1. \A i \in DOMAIN t : n + i \in n + 1 .. Len(s)
      BY <1>1
    <3> QED BY <1>2, <3>1 DEF Entries
  <2>2. \A i \in n + 1 .. Len(s) : i - n \in DOMAIN t /\ n + (i - n) = i
    BY <1>1
  <2>3. \A i \in n + 1 .. Len(s) : s[i] = t[i - n]
    <3> TAKE i \in n + 1 .. Len(s)
    <3>1. t[i - n] = s[n + (i - n)] /\ n + (i - n) = i
      BY <1>2, <2>2
    <3> QED BY <3>1
  <2>4. {s[i] : i \in n + 1 .. Len(s)} \subseteq Entries(t)
    BY <2>2, <2>3 DEF Entries
  <2> QED BY <2>1, <2>4
<1>5. \A x \in Entries(s) : x \in Entries(t) \/ \E i \in 1 .. n : x = s[i]
  <2> SUFFICES ASSUME NEW j \in DOMAIN s
               PROVE  s[j] \in Entries(t) \/ \E i \in 1 .. n : s[j] = s[i]
    BY DEF Entries
  <2>1. j \in 1 .. n \/ j \in n + 1 .. Len(s)
    BY <1>1
  <2> QED BY <1>4, <2>1
<1>6. ASSUME After(s, X, Y) PROVE After(t, X, Y)
  <2> SUFFICES ASSUME NEW i \in DOMAIN t, NEW k \in DOMAIN t, i < k, t[i] \in X
               PROVE  t[k] \notin Y
    BY DEF After
  <2>1. n + i < n + k
    BY <1>1
  <2> QED BY <1>2, <1>6, <2>1 DEF After
<1> QED BY <1>2, <1>3, <1>4, <1>5, <1>6 DEF t

LEMMA TailOfList ==
  ASSUME NEW S, NEW s \in Seq(S), s # <<>>, NEW X, NEW Y
  PROVE  /\ Tail(s) \in Seq(S)
         /\ Head(s) \in Entries(s)
         /\ Entries(s) = {Head(s)} \cup Entries(Tail(s))
         /\ After(s, X, Y) => After(Tail(s), X, Y)
         /\ After(s, X, Y) /\ Head(s) \in X => Entries(Tail(s)) \cap Y = {}
<1> DEFINE t == SubSeq(s, 2, Len(s))
<1>1. Len(s) \in Nat /\ 1 \in 0 .. Len(s) /\ Tail(s) = t /\ Head(s) = s[1] /\ 1 \in DOMAIN s
  OBVIOUS
<1>2. /\ t \in Seq(S)
      /\ Entries(t) = {s[i] : i \in 2 .. Len(s)}
      /\ \A x \in Entries(s) : x \in Entries(t) \/ \E i \in 1 .. 1 : x = s[i]
      /\ After(s, X, Y) => After(t, X, Y)
  BY <1>1, RestOfList
<1> HIDE DEF t
<1>3. \A i \in 2 .. Len(s) : i \in DOMAIN s /\ 1 < i
  OBVIOUS
<1>4. Entries(s) = {Head(s)} \cup Entries(t)
  <2>1. Entries(t) \subseteq Entries(s) /\ Head(s) \in Entries(s)
    BY <1>1, <1>2, <1>3 DEF Entries
  <2>2. \A x \in Entries(s) : x \in Entries(t) \/ x = s[1]
    BY <1>2
  <2> QED BY <1>1, <2>1, <2>2
<1>5. After(s, X, Y) /\ s[1] \in X => Entries(t) \cap Y = {}
  BY <1>1, <1>2, <1>3 DEF After
<1> QED BY <1>1, <1>2, <1>4, <1>5

-------------------------------------------------------------------------------
(* The plan of a calculation, as far as the proofs depend on it.           *)
Kappas    == {"kappa-m111.hdf5", "kappa-m222.hdf5"}
StepNames == (FileNames \ Kappas) \cup Calls
PartNames == {"core", "text", "velocity", "thermal"}
Steps     == [part: PartNames, name: StepNames]
Step(part, name) == [part |-> part, name |-> name]
Named(N)  == {x \in Steps : x.name \in N}

(* A part that is not the core is in one piece.                            *)
InOnePiece(s) ==
  \A i, j, k \in DOMAIN s :
    i < j /\ j < k /\ s[i].part = s[k].part /\ s[i].part # "core" => s[j].part = s[i].part

LEMMA PiecesTogether ==
  ASSUME NEW s \in Seq(Steps), NEW t \in Seq(Steps), InOnePiece(s), InOnePiece(t),
         \A x \in Entries(s), y \in Entries(t) : x.part = y.part => x.part = "core"
  PROVE  InOnePiece(s \o t)
<1> DEFINE u == s \o t
           Left(i)  == i \in DOMAIN s /\ u[i] = s[i]
           Right(i) == i - Len(s) \in DOMAIN t /\ i > Len(s) /\ u[i] = t[i - Len(s)]
<1> SUFFICES ASSUME NEW i \in DOMAIN u, NEW j \in DOMAIN u, NEW k \in DOMAIN u,
                    i < j, j < k, u[i].part = u[k].part, u[i].part # "core"
             PROVE  u[j].part = u[i].part
  BY DEF InOnePiece
<1>1. /\ Len(s) \in Nat /\ DOMAIN s = 1 .. Len(s) /\ DOMAIN t = 1 .. Len(t) /\ Len(t) \in Nat
      /\ i \in Int /\ j \in Int /\ k \in Int
  OBVIOUS
<1>2. \A m \in DOMAIN u : Left(m) \/ Right(m)
  BY ListsTogether
<1> HIDE DEF u
<1>3. CASE Left(i) /\ Left(k)
  <2>1. Left(j)
    BY <1>1, <1>2, <1>3
  <2> QED BY <1>3, <2>1 DEF InOnePiece
<1>4. CASE Right(i) /\ Right(k)
  <2>1. Right(j)
    BY <1>1, <1>2, <1>4
  <2>2. i - Len(s) < j - Len(s) /\ j - Len(s) < k - Len(s)
    BY <1>1
  <2> QED BY <1>4, <2>1, <2>2 DEF InOnePiece
<1>5. CASE Left(i) /\ Right(k)
  BY <1>5 DEF Entries
<1>6. CASE Right(i) /\ Left(k)
  BY <1>1, <1>6
<1> QED BY <1>2, <1>3, <1>4, <1>5, <1>6

LEMMA PieceOfRest ==
  ASSUME NEW s \in Seq(Steps), InOnePiece(s), NEW n \in 0 .. Len(s)
  PROVE  InOnePiece(SubSeq(s, n + 1, Len(s)))
<1> DEFINE t == SubSeq(s, n + 1, Len(s))
<1>1. \A i \in DOMAIN t : n + i \in DOMAIN s /\ t[i] = s[n + i]
  BY RestOfList
<1>2. n \in Nat /\ t \in Seq(Steps)
  BY RestOfList
<1> HIDE DEF t
<1> SUFFICES ASSUME NEW i \in DOMAIN t, NEW j \in DOMAIN t, NEW k \in DOMAIN t,
                    i < j, j < k, t[i].part = t[k].part, t[i].part # "core"
             PROVE  t[j].part = t[i].part
  BY DEF InOnePiece, t
<1>3. n + i < n + j /\ n + j < n + k
  BY <1>2
<1> QED BY <1>1, <1>3 DEF InOnePiece

(* What the two operators that make lists of steps return.                 *)
LEMMA StepsAre ==
  ASSUME NEW part \in PartNames, NEW names \in Seq(StepNames), NEW X, NEW Y
  PROVE  LET s == StepsOf(part, names)
         IN /\ s \in Seq(Steps)
            /\ Entries(s) = {Step(part, n) : n \in Entries(names)}
            /\ InOnePiece(s)
            /\ After(names, X, Y) => After(s, Named(X), Named(Y))
<1> DEFINE s == StepsOf(part, names)
<1>1. /\ s = [i \in DOMAIN names |-> Step(part, names[i])]
      /\ DOMAIN names = 1 .. Len(names) /\ Len(names) \in Nat
      /\ \A i \in DOMAIN names : names[i] \in StepNames
  BY DEF StepsOf, Step
<1>2. \A i \in DOMAIN names : s[i] = Step(part, names[i]) /\ s[i] \in Steps
  BY <1>1 DEF Step, Steps
<1>3. s \in Seq(Steps) /\ DOMAIN s = DOMAIN names
  BY <1>1, <1>2
<1> HIDE DEF s
<1>4. Entries(s) = {Step(part, n) : n \in Entries(names)}
  BY <1>2, <1>3 DEF Entries
<1>5. \A i \in DOMAIN s : s[i].part = part /\ s[i].name = names[i]
  BY <1>2, <1>3 DEF Step
<1>6. InOnePiece(s)
  BY <1>5 DEF InOnePiece
<1>7. After(names, X, Y) => After(s, Named(X), Named(Y))
  BY <1>3, <1>5 DEF After, Named
<1> QED BY <1>3, <1>4, <1>6, <1>7 DEF s

LEMMA OnlyAre ==
  ASSUME NEW S, NEW condition \in BOOLEAN, NEW names \in Seq(S), NEW X, NEW Y
  PROVE  LET s == Only(condition, names)
         IN /\ s \in Seq(S)
            /\ Entries(s) = IF condition THEN Entries(names) ELSE {}
            /\ After(names, X, Y) => After(s, X, Y)
<1>1. <<>> \in Seq(S) /\ Entries(<<>>) = {} /\ After(<<>>, X, Y)
  BY DEF Entries, After
<1> QED BY <1>1 DEF Only

LEMMA Apart ==
  ASSUME NEW s, NEW X, NEW Y, Entries(s) \cap X = {} \/ Entries(s) \cap Y = {}
  PROVE  After(s, X, Y)
BY DEF After, Entries

(* The orders that matter: behind the removal of the first text file it is *)
(* not written again and nothing is copied; phono3py does not run again    *)
(* once its file was looked for.                                           *)
Unlinks   == Named({"unlink"})
TextFirst == Named({"copy", "FORCE_CONSTANTS"})
Selects   == Named({"select"})
Phono3py  == Named({"phono3py"})

Arranged(s) ==
  /\ s \in Seq(Steps)
  /\ InOnePiece(s)
  /\ After(s, Unlinks, TextFirst)
  /\ After(s, Selects, Phono3py)

Plain(s) ==
  /\ s \in Seq(Steps)
  /\ \A x \in Entries(s) : x.part = "core" /\ x.name \notin Calls \cup {"FORCE_CONSTANTS"}

LEMMA ArrangedTogether ==
  ASSUME NEW s, Arranged(s), NEW t, Arranged(t),
         \A x \in Entries(s), y \in Entries(t) : x.part = y.part => x.part = "core",
         Entries(s) \cap Unlinks = {} \/ Entries(t) \cap TextFirst = {},
         Entries(s) \cap Selects = {} \/ Entries(t) \cap Phono3py = {}
  PROVE  Arranged(s \o t) /\ Entries(s \o t) = Entries(s) \cup Entries(t)
<1>1. s \in Seq(Steps) /\ t \in Seq(Steps)
  BY DEF Arranged
<1>2. s \o t \in Seq(Steps) /\ Entries(s \o t) = Entries(s) \cup Entries(t)
  BY <1>1, ListsTogether
<1>3. InOnePiece(s \o t)
  BY <1>1, PiecesTogether DEF Arranged
<1>4. After(s \o t, Unlinks, TextFirst)
  BY <1>1, AfterTogether DEF Arranged
<1>5. After(s \o t, Selects, Phono3py)
  BY <1>1, AfterTogether DEF Arranged
<1> QED BY <1>2, <1>3, <1>4, <1>5 DEF Arranged

LEMMA PlainIsArranged ==
  ASSUME NEW s, Plain(s)
  PROVE  /\ Arranged(s)
         /\ Entries(s) \cap (Unlinks \cup TextFirst \cup Selects \cup Phono3py) = {}
<1>1. Entries(s) \cap (Unlinks \cup TextFirst \cup Selects \cup Phono3py) = {}
  BY DEF Plain, Unlinks, TextFirst, Selects, Phono3py, Named, Calls
<1>2. After(s, Unlinks, TextFirst) /\ After(s, Selects, Phono3py)
  BY <1>1, Apart
<1>3. s \in Seq(Steps) /\ DOMAIN s = 1 .. Len(s) /\ \A i \in DOMAIN s : s[i].part = "core"
  BY DEF Plain, Entries
<1>4. InOnePiece(s)
  BY <1>3 DEF InOnePiece
<1> QED BY <1>1, <1>2, <1>3, <1>4 DEF Arranged

LEMMA PlainTogether ==
  ASSUME NEW s, Plain(s), NEW t, Plain(t)
  PROVE  Plain(s \o t) /\ Entries(s \o t) = Entries(s) \cup Entries(t)
<1>1. s \o t \in Seq(Steps) /\ Entries(s \o t) = Entries(s) \cup Entries(t)
  BY ListsTogether DEF Plain
<1> QED BY <1>1 DEF Plain

LEMMA ThenPlain ==
  ASSUME NEW s, Arranged(s), NEW t, Plain(t)
  PROVE  Arranged(s \o t) /\ Entries(s \o t) = Entries(s) \cup Entries(t)
<1>1. Arranged(t) /\ Entries(t) \cap (TextFirst \cup Phono3py) = {}
  BY PlainIsArranged
<1>2. \A x \in Entries(s), y \in Entries(t) : x.part = y.part => x.part = "core"
  BY DEF Plain
<1> QED BY <1>1, <1>2, ArrangedTogether

(* The stages, one after the other.                                        *)
PlainNames == FileNames \ (Kappas \cup {"FORCE_CONSTANTS"})

LEMMA NamesDiffer ==
  /\ {KappaFiles[m] : m \in Meshes} = Kappas
  /\ PlainNames \subseteq StepNames
  /\ PlainNames \cap (Calls \cup {"FORCE_CONSTANTS"}) = {}
<1>1. {KappaFiles[m] : m \in Meshes} = Kappas
  BY DEF KappaFiles, Meshes, Kappas
<1>2. Calls \cap FileNames = {}
  BY <1>1 DEF Calls, FileNames, Kappas
<1> QED BY <1>1, <1>2 DEF PlainNames, StepNames

LEMMA CoreSteps ==
  ASSUME NEW names \in Seq(PlainNames)
  PROVE  /\ Plain(StepsOf("core", names))
         /\ Entries(StepsOf("core", names)) = {Step("core", n) : n \in Entries(names)}
<1>1. PlainNames \subseteq StepNames /\ PlainNames \cap (Calls \cup {"FORCE_CONSTANTS"}) = {}
  BY NamesDiffer
<1>2. names \in Seq(StepNames) /\ Entries(names) \subseteq PlainNames
  BY <1>1 DEF Entries
<1>3. "core" \in PartNames
  BY DEF PartNames
<1>4. /\ StepsOf("core", names) \in Seq(Steps)
      /\ Entries(StepsOf("core", names)) = {Step("core", n) : n \in Entries(names)}
  BY <1>2, <1>3, StepsAre
<1> QED BY <1>1, <1>2, <1>4 DEF Plain, Step

LEMMA StructureSteps ==
  ASSUME NEW c \in Configurations
  PROVE  LET s == StructureStage(c)
             always == {"resolved_config.yaml", "input_structure.vasp", "relaxed.vasp",
                        "spacegroup_report.json"}
         IN /\ Plain(s)
            /\ {Step("core", n) : n \in always} \subseteq Entries(s)
            /\ Entries(s) \subseteq {Step("core", n) : n \in always \cup {"relax.log"}}
            /\ c.backend = "real" => Step("core", "relax.log") \in Entries(s)
<1> DEFINE first  == <<"resolved_config.yaml", "input_structure.vasp">>
           middle == Relaxation(c)
           last   == <<"relaxed.vasp", "spacegroup_report.json">>
<1>1. /\ first \in Seq(PlainNames) /\ last \in Seq(PlainNames) /\ <<"relax.log">> \in Seq(PlainNames)
      /\ Entries(first) = {"resolved_config.yaml", "input_structure.vasp"}
      /\ Entries(last) = {"relaxed.vasp", "spacegroup_report.json"}
      /\ Entries(<<"relax.log">>) = {"relax.log"}
  BY DEF PlainNames, FileNames, Kappas, Entries
<1>2. /\ middle \in Seq(PlainNames)
      /\ Entries(middle) \subseteq {"relax.log"}
      /\ c.backend = "real" => Entries(middle) = {"relax.log"}
  <2>1. (c.backend = "real" \/ ~c.relax) \in BOOLEAN
    OBVIOUS
  <2> QED BY <1>1, <2>1, OnlyAre DEF Relaxation
<1> DEFINE begin == first \o middle
<1> HIDE DEF first, middle, last
<1>3. begin \in Seq(PlainNames) /\ Entries(begin) = Entries(first) \cup Entries(middle)
  BY <1>1, <1>2, ListsTogether
<1> HIDE DEF begin
<1>4. /\ begin \o last \in Seq(PlainNames)
      /\ Entries(begin \o last) = Entries(begin) \cup Entries(last)
  BY <1>1, <1>3, ListsTogether
<1>5. StructureStage(c) = StepsOf("core", begin \o last)
  BY DEF StructureStage, begin, first, middle, last
<1>6. /\ Plain(StructureStage(c))
      /\ Entries(StructureStage(c)) = {Step("core", n) : n \in Entries(begin \o last)}
  BY <1>4, <1>5, CoreSteps
<1> QED BY <1>1, <1>2, <1>3, <1>4, <1>6

LEMMA TextSteps ==
  ASSUME NEW c \in Configurations
  PROVE  LET s == TextExport(c)
         IN /\ Arranged(s)
            /\ \A x \in Entries(s) : x.part = "text" /\ c.text # "no"
                  /\ x.name \in {"FORCE_CONSTANTS", "FORCE_CONSTANTS_2ND", "fc2.txt", "copy", "unlink"}
            /\ c.text # "no" => {Step("text", "copy"), Step("text", "unlink")} \subseteq Entries(s)
<1> DEFINE f == fc2_text_name(c)
           names == <<f, "copy", "unlink">>
           chosen == Only(c.text # "no", names)
<1>1. f \in {"FORCE_CONSTANTS", "FORCE_CONSTANTS_2ND", "fc2.txt"}
  BY DEF fc2_text_name
<1> HIDE DEF f
<1>2. /\ names \in Seq(StepNames) /\ Entries(names) = {f, "copy", "unlink"}
      /\ After(names, {"unlink"}, {"copy", "FORCE_CONSTANTS"})
      /\ After(names, {"select"}, {"phono3py"})
  BY <1>1 DEF StepNames, FileNames, Calls, Kappas, Entries, After
<1> HIDE DEF names
<1>3. /\ chosen \in Seq(StepNames)
      /\ Entries(chosen) = IF c.text # "no" THEN {f, "copy", "unlink"} ELSE {}
      /\ After(chosen, {"unlink"}, {"copy", "FORCE_CONSTANTS"})
      /\ After(chosen, {"select"}, {"phono3py"})
  <2>1. (c.text # "no") \in BOOLEAN
    OBVIOUS
  <2> QED BY <1>2, <2>1, OnlyAre
<1> HIDE DEF chosen
<1>4. TextExport(c) = StepsOf("text", chosen)
  BY DEF TextExport, chosen, names, f
<1>5. "text" \in PartNames
  BY DEF PartNames
<1> DEFINE s == StepsOf("text", chosen)
<1>6. /\ s \in Seq(Steps) /\ InOnePiece(s)
      /\ Entries(s) = {Step("text", n) : n \in Entries(chosen)}
  BY <1>3, <1>5, StepsAre
<1>7. After(s, Unlinks, TextFirst)
  BY <1>3, <1>5, StepsAre DEF Unlinks, TextFirst
<1>8. After(s, Selects, Phono3py)
  BY <1>3, <1>5, StepsAre DEF Selects, Phono3py
<1> HIDE DEF s
<1>9. Arranged(s)
  BY <1>6, <1>7, <1>8 DEF Arranged
<1> QED BY <1>1, <1>3, <1>4, <1>6, <1>9 DEF s, Step

LEMMA AuditNames ==
  ASSUME NEW c \in Configurations, NEW order \in {2, 3}
  PROVE  /\ ForceAudit(c, order) \in Seq(PlainNames)
         /\ Entries(ForceAudit(c, order))
              \subseteq {"fd_fc2_forces_stats.csv", "fd_fc3_forces_stats.csv"}
<1> DEFINE f == IF order = 2 THEN "fd_fc2_forces_stats.csv" ELSE "fd_fc3_forces_stats.csv"
<1>1. f \in PlainNames /\ f \in {"fd_fc2_forces_stats.csv", "fd_fc3_forces_stats.csv"}
  BY DEF PlainNames, FileNames, Kappas
<1>2. c.audit \in BOOLEAN
  BY DEF Configurations
<1>3. ForceAudit(c, order) = Only(c.audit, <<f>>)
  BY DEF ForceAudit
<1> HIDE DEF f
<1>4. <<f>> \in Seq(PlainNames) /\ Entries(<<f>>) = {f}
  BY <1>1 DEF Entries
<1>5. /\ Only(c.audit, <<f>>) \in Seq(PlainNames)
      /\ Entries(Only(c.audit, <<f>>)) = IF c.audit THEN Entries(<<f>>) ELSE {}
  BY <1>2, <1>4, OnlyAre
<1> QED BY <1>1, <1>3, <1>4, <1>5

LEMMA PhononSteps ==
  ASSUME NEW c \in Configurations
  PROVE  LET s == PhononStage(c)
         IN /\ Arranged(s)
            /\ \A x \in Entries(s) : x.part \in {"core", "text", "velocity"}
                 /\ x.name \notin {"result.json", "select", "phono3py", "lifetime"}
                 /\ (x.name = "unlink" => x = Step("text", "unlink") /\ c.text # "no")
            /\ {Step("core", n) : n \in {"force_constants.hdf5", "phonopy.yaml", "band.yaml"}}
                 \subseteq Entries(s)
            /\ c.text # "no" => {Step("text", "copy"), Step("text", "unlink")} \subseteq Entries(s)
            /\ c.dos => Step("core", "phonon_dos.dat") \in Entries(s)
            /\ Step("velocity", "phonon_group_velocity.csv") \in Entries(s)
<1> DEFINE n1 == ForceAudit(c, 2) \o <<"force_constants.hdf5">>
           s1 == StepsOf("core", n1)
           s2 == TextExport(c)
           s3 == StepsOf("core", <<"phonopy.yaml">>)
           s4 == Bands
           s5 == DensityOfStates(c)
           s6 == GroupVelocities
<1>1. /\ <<"force_constants.hdf5">> \in Seq(PlainNames)
      /\ Entries(<<"force_constants.hdf5">>) = {"force_constants.hdf5"}
      /\ <<"phonopy.yaml">> \in Seq(PlainNames) /\ Entries(<<"phonopy.yaml">>) = {"phonopy.yaml"}
      /\ <<"band.yaml">> \in Seq(PlainNames) /\ Entries(<<"band.yaml">>) = {"band.yaml"}
      /\ <<"phonon_dos.dat">> \in Seq(PlainNames) /\ Entries(<<"phonon_dos.dat">>) = {"phonon_dos.dat"}
  BY DEF PlainNames, FileNames, Kappas, Entries
<1>2. /\ n1 \in Seq(PlainNames)
      /\ Entries(n1) \subseteq {"fd_fc2_forces_stats.csv", "fd_fc3_forces_stats.csv",
                                "force_constants.hdf5"}
      /\ "force_constants.hdf5" \in Entries(n1)
  <2> DEFINE a == ForceAudit(c, 2)
             b == <<"force_constants.hdf5">>
  <2>1. /\ a \in Seq(PlainNames)
        /\ Entries(a) \subseteq {"fd_fc2_forces_stats.csv", "fd_fc3_forces_stats.csv"}
    BY AuditNames
  <2>2. b \in Seq(PlainNames) /\ Entries(b) = {"force_constants.hdf5"}
    BY <1>1
  <2> HIDE DEF a, b
  <2>3. a \o b \in Seq(PlainNames) /\ Entries(a \o b) = Entries(a) \cup Entries(b)
    BY <2>1, <2>2, ListsTogether
  <2>4. n1 = a \o b
    BY DEF a, b
  <2> HIDE DEF n1
  <2> QED BY <2>1, <2>2, <2>3, <2>4
<1> HIDE DEF n1
<1>3. Plain(s1) /\ Entries(s1) = {Step("core", n) : n \in Entries(n1)}
  BY <1>2, CoreSteps
<1>4. Plain(s3) /\ Entries(s3) = {Step("core", "phonopy.yaml")}
  BY <1>1, CoreSteps
<1>5. Plain(s4) /\ Entries(s4) = {Step("core", "band.yaml")}
  BY <1>1, CoreSteps DEF Bands
<1>6. /\ Plain(s5) /\ Entries(s5) \subseteq {Step("core", "phonon_dos.dat")}
      /\ c.dos => Step("core", "phonon_dos.dat") \in Entries(s5)
  <2> DEFINE n5 == Only(c.dos, <<"phonon_dos.dat">>)
  <2>1. c.dos \in BOOLEAN
    BY DEF Configurations
  <2>2. /\ n5 \in Seq(PlainNames)
        /\ Entries(n5) = IF c.dos THEN {"phonon_dos.dat"} ELSE {}
    BY <1>1, <2>1, OnlyAre
  <2>3. s5 = StepsOf("core", n5)
    BY DEF DensityOfStates
  <2> HIDE DEF n5, s5
  <2>4. Plain(s5) /\ Entries(s5) = {Step("core", n) : n \in Entries(n5)}
    BY <2>2, <2>3, CoreSteps
  <2> QED BY <2>2, <2>4
<1>7. Arranged(s6) /\ Entries(s6) = {Step("velocity", "phonon_group_velocity.csv")}
  <2> DEFINE n6 == <<"phonon_group_velocity.csv">>
  <2>1. /\ n6 \in Seq(StepNames) /\ Entries(n6) = {"phonon_group_velocity.csv"}
        /\ "velocity" \in PartNames
    BY DEF StepNames, FileNames, Kappas, Entries, PartNames
  <2> HIDE DEF n6
  <2>2. s6 = StepsOf("velocity", n6)
    BY DEF GroupVelocities, n6
  <2>3. /\ s6 \in Seq(Steps) /\ InOnePiece(s6)
        /\ Entries(s6) = {Step("velocity", n) : n \in Entries(n6)}
    BY <2>1, <2>2, StepsAre
  <2>4. Entries(s6) = {Step("velocity", "phonon_group_velocity.csv")}
    BY <2>1, <2>3
  <2> HIDE DEF s6
  <2>5. Entries(s6) \cap Unlinks = {} /\ Entries(s6) \cap Selects = {}
    BY <2>4 DEF Unlinks, Selects, Named, Step
  <2>6. After(s6, Unlinks, TextFirst) /\ After(s6, Selects, Phono3py)
    BY <2>5, Apart
  <2> QED BY <2>3, <2>4, <2>6 DEF Arranged
<1>8. /\ Arranged(s2)
      /\ \A x \in Entries(s2) : x.part = "text" /\ c.text # "no"
           /\ x.name \in {"FORCE_CONSTANTS", "FORCE_CONSTANTS_2ND", "fc2.txt", "copy", "unlink"}
      /\ c.text # "no" => {Step("text", "copy"), Step("text", "unlink")} \subseteq Entries(s2)
  BY TextSteps
<1>9. PhononStage(c) = ((((s1 \o s2) \o s3) \o s4) \o s5) \o s6
  BY DEF PhononStage, HarmonicForceConstants, n1
<1> HIDE DEF s1, s2, s3, s4, s5, s6
<1>10. Arranged(s1 \o s2) /\ Entries(s1 \o s2) = Entries(s1) \cup Entries(s2)
  <2>1. Arranged(s1) /\ Entries(s1) \cap (Unlinks \cup Selects) = {}
    BY <1>3, PlainIsArranged
  <2>2. \A x \in Entries(s1), y \in Entries(s2) : x.part = y.part => x.part = "core"
    BY <1>3, <1>8 DEF Step
  <2> QED BY <1>8, <2>1, <2>2, ArrangedTogether
<1>11. /\ Arranged((s1 \o s2) \o s3)
       /\ Entries((s1 \o s2) \o s3) = Entries(s1 \o s2) \cup Entries(s3)
  BY <1>4, <1>10, ThenPlain
<1>12. /\ Arranged(((s1 \o s2) \o s3) \o s4)
       /\ Entries(((s1 \o s2) \o s3) \o s4) = Entries((s1 \o s2) \o s3) \cup Entries(s4)
  BY <1>5, <1>11, ThenPlain
<1> DEFINE u == (((s1 \o s2) \o s3) \o s4) \o s5
<1>13. Arranged(u) /\ Entries(u) = Entries(((s1 \o s2) \o s3) \o s4) \cup Entries(s5)
  BY <1>6, <1>12, ThenPlain
<1>14. Entries(u) = Entries(s1) \cup Entries(s2) \cup Entries(s3) \cup Entries(s4) \cup Entries(s5)
  BY <1>10, <1>11, <1>12, <1>13
<1> HIDE DEF u
<1>15. \A x \in Entries(u) : x.part \in {"core", "text"}
  BY <1>3, <1>4, <1>5, <1>6, <1>8, <1>14 DEF Plain
<1>16. Entries(s6) \cap (TextFirst \cup Phono3py) = {}
  BY <1>7 DEF TextFirst, Phono3py, Named, Step
<1>17. \A x \in Entries(u), y \in Entries(s6) : x.part = y.part => x.part = "core"
  BY <1>7, <1>15 DEF Step
<1>18. Arranged(u \o s6) /\ Entries(u \o s6) = Entries(u) \cup Entries(s6)
  BY <1>7, <1>13, <1>16, <1>17, ArrangedTogether
<1>19. PhononStage(c) = u \o s6
  BY <1>9 DEF u
<1>20. ASSUME NEW x \in Entries(u \o s6)
       PROVE  /\ x.part \in {"core", "text", "velocity"}
              /\ x.name \notin {"result.json", "select", "phono3py", "lifetime"}
              /\ x.name = "unlink" => x = Step("text", "unlink") /\ c.text # "no"
  <2>1. CASE x \in Entries(s1) \cup Entries(s3) \cup Entries(s4) \cup Entries(s5)
    BY <1>2, <1>3, <1>4, <1>5, <1>6, <2>1 DEF Step
  <2>2. CASE x \in Entries(s2)
    <3>1. x \in Steps
      BY <1>8, <2>2 DEF Arranged, Entries
    <3> QED BY <1>8, <2>2, <3>1 DEF Steps, Step
  <2>3. CASE x \in Entries(s6)
    BY <1>7, <2>3 DEF Step
  <2> QED BY <1>14, <1>18, <2>1, <2>2, <2>3
<1>21. {Step("core", n) : n \in {"force_constants.hdf5", "phonopy.yaml", "band.yaml"}}
         \subseteq Entries(u \o s6)
  BY <1>2, <1>3, <1>4, <1>5, <1>14, <1>18
<1> QED BY <1>6, <1>7, <1>8, <1>14, <1>18, <1>19, <1>20, <1>21

(* Both ways to the conductivity run phono3py, look for its file and read  *)
(* it, in this order.                                                      *)
Reads == {"fc3.hdf5", "thermal_conductivity.csv", "phono3py", "select", "lifetime"}

ThermalNames(s) ==
  /\ s \in Seq(StepNames)
  /\ After(s, {"select"}, {"phono3py"})
  /\ Entries(s) \cap {"result.json", "FORCE_CONSTANTS", "copy", "unlink"} = {}

Diagnostics(s) == s \in Seq(PlainNames) /\ "result.json" \notin Entries(s)

LEMMA DiagnosticsAreThermal ==
  ASSUME NEW s, Diagnostics(s)
  PROVE  ThermalNames(s) /\ Entries(s) \cap {"select", "phono3py"} = {}
<1>1. s \in Seq(StepNames) /\ Entries(s) \subseteq PlainNames
  BY NamesDiffer DEF Diagnostics, Entries
<1>2. Entries(s) \cap {"FORCE_CONSTANTS", "copy", "unlink", "select", "phono3py"} = {}
  BY <1>1, NamesDiffer DEF Calls
<1>3. After(s, {"select"}, {"phono3py"})
  BY <1>2, Apart
<1> QED BY <1>1, <1>2, <1>3 DEF ThermalNames, Diagnostics

LEMMA ThermalTogether ==
  ASSUME NEW s, ThermalNames(s), NEW t, ThermalNames(t),
         "select" \notin Entries(s) \/ "phono3py" \notin Entries(t)
  PROVE  ThermalNames(s \o t) /\ Entries(s \o t) = Entries(s) \cup Entries(t)
<1>1. s \o t \in Seq(StepNames) /\ Entries(s \o t) = Entries(s) \cup Entries(t)
  BY ListsTogether DEF ThermalNames
<1>2. Entries(s) \cap {"select"} = {} \/ Entries(t) \cap {"phono3py"} = {}
  OBVIOUS
<1>3. After(s \o t, {"select"}, {"phono3py"})
  BY <1>2, AfterTogether DEF ThermalNames
<1> QED BY <1>1, <1>3 DEF ThermalNames

LEMMA ThenDiagnostics ==
  ASSUME NEW s, ThermalNames(s), NEW t, Diagnostics(t)
  PROVE  ThermalNames(s \o t) /\ Entries(s \o t) = Entries(s) \cup Entries(t)
BY DiagnosticsAreThermal, ThermalTogether

LEMMA ThermalLists ==
  /\ ThermalNames(Conductivity)
  /\ {"thermal_conductivity.csv", "phono3py", "select", "lifetime"} \subseteq Entries(Conductivity)
  /\ ThermalNames(<<"available">>) /\ Entries(<<"available">>) = {"available"}
  /\ ThermalNames(<<"available", "hiphive_model.fcp", "fc3.hdf5">>)
  /\ Entries(<<"available", "hiphive_model.fcp", "fc3.hdf5">>)
       = {"available", "hiphive_model.fcp", "fc3.hdf5"}
  /\ Diagnostics(<<"fc3.hdf5">>) /\ Entries(<<"fc3.hdf5">>) = {"fc3.hdf5"}
  /\ Diagnostics(FdDiagnostics) /\ Diagnostics(HiphiveDiagnostics)
  /\ Diagnostics(TransportDiagnostics) /\ Diagnostics(<<"hiphive_fit_summary.json">>)
<1>1. /\ Entries(<<"available">>) = {"available"}
      /\ Entries(<<"fc3.hdf5">>) = {"fc3.hdf5"}
      /\ Entries(<<"fd_fc3_diagnostics.json">>) = {"fd_fc3_diagnostics.json"}
      /\ Entries(<<"hiphive_fit_diagnostics.json">>) = {"hiphive_fit_diagnostics.json"}
      /\ Entries(<<"hiphive_fit_summary.json">>) = {"hiphive_fit_summary.json"}
      /\ Entries(<<"thermal_conductivity.csv">>) = {"thermal_conductivity.csv"}
      /\ Entries(<<"lifetime">>) = {"lifetime"}
      /\ Entries(<<"available", "hiphive_model.fcp", "fc3.hdf5">>)
           = {"available", "hiphive_model.fcp", "fc3.hdf5"}
      /\ Entries(<<"phono3py_params.yaml", "phono3py", "select">>)
           = {"phono3py_params.yaml", "phono3py", "select"}
  BY DEF Entries
<1>2. /\ <<"fc3.hdf5">> \in Seq(PlainNames)
      /\ <<"fd_fc3_diagnostics.json">> \in Seq(PlainNames)
      /\ <<"hiphive_fit_diagnostics.json">> \in Seq(PlainNames)
      /\ <<"hiphive_fit_summary.json">> \in Seq(PlainNames)
      /\ <<"thermal_conductivity.csv">> \in Seq(PlainNames)
  BY DEF PlainNames, FileNames, Kappas
<1>3. /\ <<"available">> \in Seq(StepNames)
      /\ <<"lifetime">> \in Seq(StepNames)
      /\ <<"available", "hiphive_model.fcp", "fc3.hdf5">> \in Seq(StepNames)
      /\ <<"phono3py_params.yaml", "phono3py", "select">> \in Seq(StepNames)
  BY DEF StepNames, Calls, FileNames, Kappas
<1>4. /\ After(<<"available">>, {"select"}, {"phono3py"})
      /\ After(<<"lifetime">>, {"select"}, {"phono3py"})
      /\ After(<<"available", "hiphive_model.fcp", "fc3.hdf5">>, {"select"}, {"phono3py"})
      /\ After(<<"phono3py_params.yaml", "phono3py", "select">>, {"select"}, {"phono3py"})
  BY DEF After
<1>5. /\ ThermalNames(<<"available">>) /\ ThermalNames(<<"lifetime">>)
      /\ ThermalNames(<<"available", "hiphive_model.fcp", "fc3.hdf5">>)
      /\ ThermalNames(<<"phono3py_params.yaml", "phono3py", "select">>)
  BY <1>1, <1>3, <1>4 DEF ThermalNames
<1>6. /\ Diagnostics(<<"fc3.hdf5">>) /\ Diagnostics(<<"thermal_conductivity.csv">>)
      /\ Diagnostics(<<"fd_fc3_diagnostics.json">>)
      /\ Diagnostics(<<"hiphive_fit_diagnostics.json">>)
      /\ Diagnostics(<<"hiphive_fit_summary.json">>)
  BY <1>1, <1>2 DEF Diagnostics
<1>7. /\ ThermalNames(Conductivity)
      /\ {"thermal_conductivity.csv", "phono3py", "select", "lifetime"}
           \subseteq Entries(Conductivity)
  <2> DEFINE a == <<"phono3py_params.yaml", "phono3py", "select">>
             b == <<"thermal_conductivity.csv">>
             d == <<"lifetime">>
             ab == a \o b
  <2>1. /\ ThermalNames(a) /\ Diagnostics(b) /\ ThermalNames(d)
        /\ Entries(a) = {"phono3py_params.yaml", "phono3py", "select"}
        /\ Entries(b) = {"thermal_conductivity.csv"} /\ Entries(d) = {"lifetime"}
    BY <1>1, <1>5, <1>6
  <2>2. Conductivity = ab \o d
    BY DEF Conductivity, ConductivityTable
  <2> HIDE DEF a, b, d
  <2>3. ThermalNames(ab) /\ Entries(ab) = Entries(a) \cup Entries(b)
    BY <2>1, ThenDiagnostics
  <2> HIDE DEF ab
  <2>4. ThermalNames(ab \o d) /\ Entries(ab \o d) = Entries(ab) \cup Entries(d)
    BY <2>1, <2>3, ThermalTogether
  <2> QED BY <2>1, <2>2, <2>3, <2>4
<1> QED BY <1>1, <1>5, <1>6, <1>7
        DEF FdDiagnostics, HiphiveDiagnostics, TransportDiagnostics

LEMMA WaysToConductivity ==
  ASSUME NEW c \in Configurations
  PROVE  /\ ThermalNames(FiniteDisplacement(c)) /\ Reads \subseteq Entries(FiniteDisplacement(c))
         /\ ThermalNames(Hiphive) /\ Reads \subseteq Entries(Hiphive)
<1>1. ThermalNames(FiniteDisplacement(c)) /\ Reads \subseteq Entries(FiniteDisplacement(c))
  <2> DEFINE s1 == <<"available">>
             s2 == s1 \o ForceAudit(c, 3)
             s3 == s2 \o ForceAudit(c, 2)
             s4 == s3 \o <<"fc3.hdf5">>
             s5 == s4 \o Conductivity
             s6 == s5 \o FdDiagnostics
  <2>1. /\ Diagnostics(ForceAudit(c, 2)) /\ Diagnostics(ForceAudit(c, 3))
        /\ Entries(ForceAudit(c, 2)) \cap {"select"} = {}
        /\ Entries(ForceAudit(c, 3)) \cap {"select"} = {}
    BY AuditNames DEF Diagnostics
  <2>2. FiniteDisplacement(c) = s6
    BY DEF FiniteDisplacement
  <2>3. ThermalNames(s1) /\ Entries(s1) = {"available"}
    BY ThermalLists
  <2> HIDE DEF s1
  <2>4. ThermalNames(s2) /\ Entries(s2) = Entries(s1) \cup Entries(ForceAudit(c, 3))
    BY <2>1, <2>3, ThenDiagnostics
  <2> HIDE DEF s2
  <2>5. ThermalNames(s3) /\ Entries(s3) = Entries(s2) \cup Entries(ForceAudit(c, 2))
    BY <2>1, <2>4, ThenDiagnostics
  <2> HIDE DEF s3
  <2>6. ThermalNames(s4) /\ Entries(s4) = Entries(s3) \cup {"fc3.hdf5"}
    <3>1. Diagnostics(<<"fc3.hdf5">>) /\ Entries(<<"fc3.hdf5">>) = {"fc3.hdf5"}
      BY ThermalLists
    <3>2. ThermalNames(s4) /\ Entries(s4) = Entries(s3) \cup Entries(<<"fc3.hdf5">>)
      BY <2>5, <3>1, ThenDiagnostics
    <3> QED BY <3>1, <3>2
  <2> HIDE DEF s4
  <2>7. ThermalNames(s5) /\ Entries(s5) = Entries(s4) \cup Entries(Conductivity)
    <3>1. "select" \notin Entries(s4)
      BY <2>1, <2>3, <2>4, <2>5, <2>6
    <3> QED BY <2>6, <3>1, ThermalLists, ThermalTogether
  <2> HIDE DEF s5
  <2>8. ThermalNames(s6) /\ Entries(s6) = Entries(s5) \cup Entries(FdDiagnostics)
    BY <2>7, ThermalLists, ThenDiagnostics
  <2>9. Reads \subseteq Entries(s5)
    BY <2>6, <2>7, ThermalLists DEF Reads
  <2> HIDE DEF s6
  <2> QED BY <2>2, <2>8, <2>9
<1>2. ThermalNames(Hiphive) /\ Reads \subseteq Entries(Hiphive)
  <2> DEFINE s1 == <<"available", "hiphive_model.fcp", "fc3.hdf5">>
             s2 == s1 \o HiphiveDiagnostics
             b  == <<"hiphive_fit_summary.json">>
             s3 == s2 \o b
             s4 == s3 \o Conductivity
             s5 == s4 \o TransportDiagnostics
  <2>1. Hiphive = s5
    BY DEF Hiphive
  <2>2. /\ ThermalNames(s1) /\ Entries(s1) = {"available", "hiphive_model.fcp", "fc3.hdf5"}
        /\ Diagnostics(b)
    BY ThermalLists
  <2> HIDE DEF s1, b
  <2>3. ThermalNames(s2) /\ Entries(s2) = Entries(s1) \cup Entries(HiphiveDiagnostics)
    BY <2>2, ThermalLists, ThenDiagnostics
  <2> HIDE DEF s2
  <2>4. ThermalNames(s3) /\ Entries(s3) = Entries(s2) \cup Entries(b)
    BY <2>2, <2>3, ThenDiagnostics
  <2> HIDE DEF s3
  <2>5. ThermalNames(s4) /\ Entries(s4) = Entries(s3) \cup Entries(Conductivity)
    <3>1. "select" \notin Entries(s3)
      <4>1. Entries(HiphiveDiagnostics) \cap {"select"} = {} /\ Entries(b) \cap {"select"} = {}
        BY <2>2, ThermalLists, DiagnosticsAreThermal
      <4> QED BY <2>2, <2>3, <2>4, <4>1
    <3> QED BY <2>4, <3>1, ThermalLists, ThermalTogether
  <2> HIDE DEF s4
  <2>6. ThermalNames(s5) /\ Entries(s5) = Entries(s4) \cup Entries(TransportDiagnostics)
    BY <2>5, ThermalLists, ThenDiagnostics
  <2>7. Reads \subseteq Entries(s4)
    BY <2>2, <2>3, <2>4, <2>5, ThermalLists DEF Reads
  <2> HIDE DEF s5
  <2> QED BY <2>1, <2>6, <2>7
<1> QED BY <1>1, <1>2

LEMMA ThermalSteps ==
  ASSUME NEW c \in Configurations
  PROVE  LET s == ThermalStage(c)
         IN /\ Arranged(s)
            /\ \A x \in Entries(s) :
                 /\ x.part = "thermal" /\ c.kappa # "no"
                 /\ x.name \notin {"result.json", "FORCE_CONSTANTS", "copy", "unlink"}
            /\ c.kappa # "no" => {Step("thermal", n) : n \in Reads} \subseteq Entries(s)
<1> DEFINE s == ThermalStage(c)
<1>1. "thermal" \in PartNames
  BY DEF PartNames
<1>2. PICK names : /\ s = StepsOf("thermal", names)
                   /\ ThermalNames(names)
                   /\ c.kappa = "no" => Entries(names) = {}
                   /\ c.kappa # "no" => Reads \subseteq Entries(names)
  <2>1. CASE c.kappa = "no"
    <3>1. s = StepsOf("thermal", <<>>)
      BY <2>1 DEF ThermalStage
    <3>2. ThermalNames(<<>>) /\ Entries(<<>>) = {}
      BY DEF ThermalNames, Entries, After
    <3> QED BY <2>1, <3>1, <3>2
  <2>2. CASE c.kappa = "finite-displacement"
    <3>1. s = StepsOf("thermal", FiniteDisplacement(c))
      BY <2>2 DEF ThermalStage
    <3> QED BY <2>2, <3>1, WaysToConductivity
  <2>3. CASE c.kappa = "hiphive"
    <3>1. s = StepsOf("thermal", Hiphive)
      BY <2>3 DEF ThermalStage
    <3> QED BY <2>3, <3>1, WaysToConductivity
  <2> QED BY <2>1, <2>2, <2>3 DEF Configurations
<1>3. /\ s \in Seq(Steps) /\ InOnePiece(s)
      /\ Entries(s) = {Step("thermal", n) : n \in Entries(names)}
  BY <1>1, <1>2, StepsAre DEF ThermalNames
<1>4. After(s, Selects, Phono3py)
  BY <1>1, <1>2, StepsAre DEF ThermalNames, Selects, Phono3py
<1> HIDE DEF s
<1>5. \A x \in Entries(s) :
        x.part = "thermal" /\ x.name \notin {"result.json", "FORCE_CONSTANTS", "copy", "unlink"}
  BY <1>2, <1>3 DEF ThermalNames, Step
<1>6. After(s, Unlinks, TextFirst)
  <2>1. Entries(s) \cap Unlinks = {}
    BY <1>5 DEF Unlinks, Named
  <2> QED BY <2>1, Apart
<1>7. Arranged(s)
  BY <1>3, <1>4, <1>6 DEF Arranged
<1> QED BY <1>2, <1>3, <1>5, <1>7 DEF s

Reports == Entries(RealReportSteps)

LEMMA ReportSteps ==
  /\ Plain(RealReportSteps) /\ Plain(DummyReportSteps) /\ Plain(DryReportSteps)
  /\ Reports = {Step("core", n) : n \in {"timing_breakdown.json", "summary.txt", "result.json",
                                         "stability_report.json"}}
  /\ Entries(DummyReportSteps)
       = {Step("core", n) : n \in {"timing_breakdown.json", "summary.txt", "result.json",
                                   "stability_report.json"}}
  /\ Entries(DryReportSteps)
       = {Step("core", n) : n \in {"timing_breakdown.json", "spacegroup_report.json",
                                   "result.json", "summary.txt"}}
<1> DEFINE r == <<"timing_breakdown.json", "summary.txt", "result.json", "stability_report.json",
                  "timing_breakdown.json", "summary.txt", "result.json">>
           u == <<"timing_breakdown.json", "summary.txt", "result.json", "stability_report.json">>
           d == <<"timing_breakdown.json", "spacegroup_report.json", "result.json", "summary.txt",
                  "timing_breakdown.json", "result.json", "summary.txt">>
<1>1. r \in Seq(PlainNames) /\ u \in Seq(PlainNames) /\ d \in Seq(PlainNames)
  BY DEF PlainNames, FileNames, Kappas
<1>2. /\ Entries(r) = {"timing_breakdown.json", "summary.txt", "result.json",
                       "stability_report.json"}
      /\ Entries(u) = {"timing_breakdown.json", "summary.txt", "result.json",
                       "stability_report.json"}
      /\ Entries(d) = {"timing_breakdown.json", "spacegroup_report.json", "result.json",
                       "summary.txt"}
  BY DEF Entries
<1>3. /\ RealReportSteps = StepsOf("core", r) /\ DummyReportSteps = StepsOf("core", u)
      /\ DryReportSteps = StepsOf("core", d)
  BY DEF RealReportSteps, DummyReportSteps, DryReportSteps
<1> HIDE DEF r, u, d
<1>4. Plain(RealReportSteps) /\ Reports = {Step("core", n) : n \in Entries(r)}
  BY <1>1, <1>3, CoreSteps DEF Reports
<1>5. Plain(DummyReportSteps) /\ Entries(DummyReportSteps) = {Step("core", n) : n \in Entries(u)}
  BY <1>1, <1>3, CoreSteps
<1>6. Plain(DryReportSteps) /\ Entries(DryReportSteps) = {Step("core", n) : n \in Entries(d)}
  BY <1>1, <1>3, CoreSteps
<1> QED BY <1>2, <1>4, <1>5, <1>6

(* What every plan is like, and what the plan of a real workflow contains. *)
Ruled(c, p) ==
  /\ Arranged(p)
  /\ Step("core", "result.json") \in Entries(p)
  /\ \A x \in Entries(p) :
       /\ x.name = "unlink" => x = Step("text", "unlink") /\ Step("text", "copy") \in Entries(p)
       /\ x.name = "select" => x.part = "thermal" /\ Step("thermal", "phono3py") \in Entries(p)

LEMMA RealPlan ==
  ASSUME NEW c \in Configurations, c.backend = "real"
  PROVE  LET p == Plan(c)
         IN /\ Ruled(c, p)
            /\ After(p, Named({"result.json"}), Steps \ Reports)
            /\ {Step("core", f) : f \in Required} \subseteq Entries(p)
            /\ c.dos => Step("core", "phonon_dos.dat") \in Entries(p)
            /\ c.text # "no" => {Step("text", "copy"), Step("text", "unlink")} \subseteq Entries(p)
            /\ Step("velocity", "phonon_group_velocity.csv") \in Entries(p)
            /\ c.kappa # "no" => {Step("thermal", n) : n \in Reads} \subseteq Entries(p)
<1> DEFINE s1 == StructureStage(c)
           s2 == PhononStage(c)
           s3 == ThermalStage(c)
           s4 == RealReportSteps
           u  == s1 \o s2
           v  == u \o s3
           p  == v \o s4
           always == {"resolved_config.yaml", "input_structure.vasp", "relaxed.vasp",
                      "spacegroup_report.json"}
<1>1. Plan(c) = p
  BY DEF Plan
<1>2. /\ Plain(s1) /\ {Step("core", n) : n \in always \cup {"relax.log"}} \subseteq Entries(s1)
      /\ Entries(s1) \subseteq {Step("core", n) : n \in always \cup {"relax.log"}}
  BY StructureSteps
<1>3. /\ Arranged(s2)
      /\ \A x \in Entries(s2) : x.part \in {"core", "text", "velocity"}
           /\ x.name \notin {"result.json", "select", "phono3py", "lifetime"}
           /\ (x.name = "unlink" => x = Step("text", "unlink") /\ c.text # "no")
      /\ {Step("core", n) : n \in {"force_constants.hdf5", "phonopy.yaml", "band.yaml"}}
           \subseteq Entries(s2)
      /\ c.text # "no" => {Step("text", "copy"), Step("text", "unlink")} \subseteq Entries(s2)
      /\ c.dos => Step("core", "phonon_dos.dat") \in Entries(s2)
      /\ Step("velocity", "phonon_group_velocity.csv") \in Entries(s2)
  BY PhononSteps
<1>4. /\ Arranged(s3)
      /\ \A x \in Entries(s3) :
           /\ x.part = "thermal" /\ c.kappa # "no"
           /\ x.name \notin {"result.json", "FORCE_CONSTANTS", "copy", "unlink"}
      /\ c.kappa # "no" => {Step("thermal", n) : n \in Reads} \subseteq Entries(s3)
  BY ThermalSteps
<1>5. /\ Plain(s4) /\ Entries(s4) = Reports
      /\ Reports = {Step("core", n) : n \in {"timing_breakdown.json", "summary.txt", "result.json",
                                             "stability_report.json"}}
  BY ReportSteps DEF Reports
<1> HIDE DEF s1, s2, s3, s4
<1>6. Arranged(u) /\ Entries(u) = Entries(s1) \cup Entries(s2)
  <2>1. Arranged(s1) /\ Entries(s1) \cap (Unlinks \cup Selects) = {}
    BY <1>2, PlainIsArranged
  <2>2. \A x \in Entries(s1), y \in Entries(s2) : x.part = y.part => x.part = "core"
    BY <1>2 DEF Plain
  <2> QED BY <1>3, <2>1, <2>2, ArrangedTogether
<1> HIDE DEF u
<1>7. Arranged(v) /\ Entries(v) = Entries(u) \cup Entries(s3)
  <2>1. \A x \in Entries(u), y \in Entries(s3) : x.part = y.part => x.part = "core"
    BY <1>2, <1>3, <1>4, <1>6 DEF Step
  <2>2. Entries(s3) \cap TextFirst = {}
    BY <1>4 DEF TextFirst, Named
  <2>3. Entries(u) \cap Selects = {}
    BY <1>2, <1>3, <1>6 DEF Selects, Named, Step
  <2> QED BY <1>4, <1>6, <2>1, <2>2, <2>3, ArrangedTogether
<1> HIDE DEF v
<1>8. Arranged(p) /\ Entries(p) = Entries(v) \cup Entries(s4)
  BY <1>5, <1>7, ThenPlain
<1>9. After(p, Named({"result.json"}), Steps \ Reports)
  <2>1. Entries(v) \cap Named({"result.json"}) = {}
    BY <1>2, <1>3, <1>4, <1>6, <1>7 DEF Named, Step
  <2>2. Entries(s4) \cap (Steps \ Reports) = {}
    BY <1>5
  <2>3. After(v, Named({"result.json"}), Steps \ Reports)
    BY <2>1, Apart
  <2>4. After(s4, Named({"result.json"}), Steps \ Reports)
    BY <2>2, Apart
  <2>5. v \in Seq(Steps) /\ s4 \in Seq(Steps)
    BY <1>5, <1>7 DEF Arranged, Plain
  <2> QED BY <2>1, <2>3, <2>4, <2>5, AfterTogether
<1> HIDE DEF p
<1>10. Entries(p) = Entries(s1) \cup Entries(s2) \cup Entries(s3) \cup Reports
  BY <1>5, <1>6, <1>7, <1>8
<1>11. {Step("core", f) : f \in Required} \subseteq Entries(p)
  BY <1>2, <1>3, <1>5, <1>10 DEF Required
<1>12. Step("core", "result.json") \in Entries(p)
  BY <1>5, <1>10
<1>13. ASSUME NEW x \in Entries(p)
       PROVE  /\ x.name = "unlink" => x = Step("text", "unlink") /\ Step("text", "copy") \in Entries(p)
              /\ x.name = "select" => x.part = "thermal" /\ Step("thermal", "phono3py") \in Entries(p)
  <2>1. CASE x \in Entries(s1) \cup Reports
    BY <1>2, <1>5, <2>1 DEF Step
  <2>2. CASE x \in Entries(s2)
    BY <1>3, <1>10, <2>2
  <2>3. CASE x \in Entries(s3)
    <3>1. Step("thermal", "phono3py") \in Entries(p)
      BY <1>4, <1>10, <2>3 DEF Reads
    <3> QED BY <1>4, <2>3, <3>1
  <2> QED BY <1>10, <2>1, <2>2, <2>3
<1>14. Ruled(c, p)
  BY <1>8, <1>12, <1>13 DEF Ruled
<1> QED BY <1>1, <1>3, <1>4, <1>9, <1>10, <1>11, <1>14

LEMMA OtherPlans ==
  ASSUME NEW c \in Configurations, c.backend # "real"
  PROVE  LET p == Plan(c)
         IN /\ Ruled(c, p)
            /\ \A f \in DryListed : Step("core", f) \in Entries(p)
            /\ c.backend = "dummy" => \A f \in DummyListed : Step("core", f) \in Entries(p)
<1> DEFINE p == Plan(c)
           always == {"resolved_config.yaml", "input_structure.vasp", "relaxed.vasp",
                      "spacegroup_report.json"}
           reports == {"timing_breakdown.json", "summary.txt", "result.json"}
<1>1. CASE c.backend = "dummy"
  <2>1. p = StructureStage(c) \o DummyReportSteps
    BY <1>1 DEF Plan
  <2>2. Plain(StructureStage(c)) /\ Plain(DummyReportSteps)
    BY StructureSteps, ReportSteps
  <2>3. Plain(p) /\ Entries(p) = Entries(StructureStage(c)) \cup Entries(DummyReportSteps)
    BY <2>1, <2>2, PlainTogether
  <2> HIDE DEF p
  <2>4. {Step("core", n) : n \in always} \subseteq Entries(p)
    BY <2>3, StructureSteps
  <2>5. {Step("core", n) : n \in reports} \subseteq Entries(p)
    BY <2>3, ReportSteps
  <2>6. Ruled(c, p)
    BY <2>3, <2>5, PlainIsArranged DEF Ruled, Plain, Calls
  <2> QED BY <2>4, <2>5, <2>6 DEF DryListed, DummyListed, p
<1>2. CASE c.backend = "dry"
  <2> DEFINE first == StepsOf("core", <<"resolved_config.yaml">>)
  <2>1. p = first \o DryReportSteps
    BY <1>2 DEF Plan
  <2>2. /\ <<"resolved_config.yaml">> \in Seq(PlainNames)
        /\ Entries(<<"resolved_config.yaml">>) = {"resolved_config.yaml"}
    BY DEF PlainNames, FileNames, Kappas, Entries
  <2>3. Plain(first) /\ Entries(first) = {Step("core", n) : n \in {"resolved_config.yaml"}}
    BY <2>2, CoreSteps
  <2>4. Plain(DryReportSteps)
    BY ReportSteps
  <2> HIDE DEF first
  <2>5. Plain(p) /\ Entries(p) = Entries(first) \cup Entries(DryReportSteps)
    BY <2>1, <2>3, <2>4, PlainTogether
  <2> HIDE DEF p
  <2>6. {Step("core", n) : n \in reports \cup {"resolved_config.yaml", "spacegroup_report.json"}}
          \subseteq Entries(p)
    BY <2>3, <2>5, ReportSteps
  <2>7. Ruled(c, p)
    BY <2>5, <2>6, PlainIsArranged DEF Ruled, Plain, Calls
  <2> QED BY <1>2, <2>6, <2>7 DEF DryListed, p
<1> QED BY <1>1, <1>2 DEF Configurations

-------------------------------------------------------------------------------
(* The inductive invariant.  A calculation has before it the rest of its   *)
(* plan, but for the parts that were given up ...                          *)
CalcTyped ==
  /\ run \in 0 .. LastCalculation /\ (state # "none" => run # 0)
  /\ state \in {"none", "running", "finished", "stopped"}
  /\ setup \in Setups
  /\ files \in [FileNames -> 0 .. LastCalculation]
  /\ todo \in Seq(Steps)
  /\ done \subseteq [part: PartNames, name: FileNames]
  /\ said \subseteq {"text", "velocity", "thermal", "lifetime"}
  /\ silent \in BOOLEAN
  /\ outcome.by \in 0 .. run

Planned ==
  /\ Entries(todo) \subseteq Entries(Plan(setup))
  /\ Arranged(todo)
  /\ setup.backend = "real" => After(todo, Named({"result.json"}), Steps \ Reports)
  /\ \A x \in Entries(todo) : x.part \notin said
  /\ state = "finished" => todo = <<>>

(* ... and what is behind it has left its file, or what the step is for.   *)
Settled(x) ==
  /\ x.name \notin Calls => x \in done
  /\ x.name = "copy" => Step(x.part, "FORCE_CONSTANTS_2ND") \in done
  /\ x.name = "unlink" /\ setup.text = "default" =>
       files["FORCE_CONSTANTS"] = 0 /\ \A y \in Entries(todo) : y.name # "FORCE_CONSTANTS"
  /\ x.name = "phono3py" => silent \/ files[KappaFiles[setup.mesh]] = run
  /\ x.name = "select" => \E k \in Kappas : Step(x.part, k) \in done
  /\ x.name = "lifetime" => "lifetime" \in said \/ Step(x.part, "phonon_lifetime.csv") \in done

Accounted ==
  \A x \in Entries(Plan(setup)) : x \in Entries(todo) \/ x.part \in said \/ Settled(x)

(* What it is going to list it wrote itself, but for a kappa file that     *)
(* phono3py did not write, and the text files that are taken away again.   *)
OwnFile(d) ==
  \/ files[d.name] = run
  \/ d.name \in {"FORCE_CONSTANTS", "fc2.txt"}
  \/ d.name \in Kappas /\ silent /\ files[d.name] # 0

Own ==
  \A d \in done :
    /\ OwnFile(d)
    /\ d.name \in Kappas => \A y \in Entries(todo) : y.name # "phono3py"

(* When the result is written only reports are left to write.              *)
Told ==
  /\ \A d \in done : d.name = "result.json" => outcome.by = run
  /\ outcome.by = run /\ setup.backend = "dry"   => outcome.listed = DryListed
  /\ outcome.by = run /\ setup.backend = "dummy" => outcome.listed = DummyListed
  /\ outcome.by = run /\ setup.backend = "real"  =>
       /\ Entries(todo) \subseteq Reports
       /\ outcome.said = said /\ outcome.thermal = ThermalStatus
       /\ outcome.listed \subseteq {d.name : d \in done} \ Unlisted
       /\ \A d \in done : d.name \in outcome.listed \cup Unlisted \/ d \in Reports

CalcInv == CalcTyped /\ (state # "none" => Planned /\ Accounted /\ Own /\ Told)

(* What the constants and the types give.                                  *)
LEMMA CalcNames ==
  /\ Kappas \subseteq FileNames
  /\ Calls \cap FileNames = {}
  /\ \A m \in Meshes : KappaFiles[m] \in Kappas
  /\ Range(KappaFiles) = Kappas
  /\ \A x \in Steps : x.name \notin Calls => x.name \in FileNames \ Kappas
  /\ \A x \in Steps : x = Step(x.part, x.name)
<1>1. {KappaFiles[m] : m \in Meshes} = Kappas
  BY NamesDiffer
<1>2. Kappas \subseteq FileNames
  BY <1>1 DEF FileNames
<1>3. Calls \cap FileNames = {}
  BY DEF Calls, FileNames, KappaFiles, Meshes
<1>4. Range(KappaFiles) = Kappas
  <2>1. DOMAIN KappaFiles = Meshes
    BY DEF KappaFiles, Meshes
  <2> QED BY <1>1, <2>1 DEF Range
<1>5. \A x \in Steps : x.name \notin Calls => x.name \in FileNames \ Kappas
  BY DEF Steps, StepNames
<1>6. \A x \in Steps : x = Step(x.part, x.name)
  BY DEF Steps, Step
<1> QED BY <1>1, <1>2, <1>3, <1>4, <1>5, <1>6

LEMMA Chosen ==
  ASSUME Setups \subseteq Configurations, CalcTyped
  PROVE  /\ setup \in Configurations /\ setup.mesh \in Meshes
         /\ KappaFiles[setup.mesh] \in Kappas
         /\ Ruled(setup, Plan(setup))
         /\ Entries(Plan(setup)) \subseteq Steps
<1>1. setup \in Configurations /\ setup.mesh \in Meshes
  BY DEF CalcTyped, Configurations
<1>2. Ruled(setup, Plan(setup))
  BY <1>1, RealPlan, OtherPlans
<1>3. Entries(Plan(setup)) \subseteq Steps
  BY <1>2 DEF Ruled, Arranged, Entries
<1> QED BY <1>1, <1>2, <1>3, CalcNames

(* Steps that are behind the calculation, one or those of a part.          *)
LEMMA StepsPassed ==
  ASSUME CalcTyped, Planned, NEW n \in 0 .. Len(todo), todo' = SubSeq(todo, n + 1, Len(todo)),
         setup' = setup, state' = "running",
         \A x \in Entries(todo') : x.part \notin said'
  PROVE  /\ Planned' /\ todo' \in Seq(Steps)
         /\ Entries(todo') \subseteq Entries(todo)
         /\ \A x \in Entries(todo) : x \in Entries(todo') \/ \E i \in 1 .. n : x = todo[i]
<1> DEFINE t == SubSeq(todo, n + 1, Len(todo))
<1>0. todo \in Seq(Steps)
  BY DEF CalcTyped
<1>1. /\ t \in Seq(Steps)
      /\ \A i \in DOMAIN t : n + i \in DOMAIN todo /\ t[i] = todo[n + i]
      /\ \A x \in Entries(todo) : x \in Entries(t) \/ \E i \in 1 .. n : x = todo[i]
  BY <1>0, RestOfList
<1>2. After(t, Unlinks, TextFirst)
  BY <1>0, RestOfList DEF Planned, Arranged
<1>3. After(t, Selects, Phono3py)
  BY <1>0, RestOfList DEF Planned, Arranged
<1>4. setup.backend = "real" => After(t, Named({"result.json"}), Steps \ Reports)
  BY <1>0, RestOfList DEF Planned
<1>5. InOnePiece(t)
  BY <1>0, PieceOfRest DEF Planned, Arranged
<1>6. Entries(t) \subseteq Entries(todo)
  <2> HIDE DEF t
  <2> QED BY <1>1 DEF Entries
<1>7. todo' = t
  OBVIOUS
<1> HIDE DEF t
<1>8. Planned'
  <2>1. Entries(todo') \subseteq Entries(Plan(setup))'
    BY <1>6, <1>7 DEF Planned
  <2>2. Arranged(todo')
    BY <1>1, <1>2, <1>3, <1>5, <1>7 DEF Arranged
  <2> QED BY <1>4, <1>7, <2>1, <2>2 DEF Planned
<1> QED BY <1>1, <1>6, <1>7, <1>8

LEMMA StepPassed ==
  ASSUME CalcTyped, Planned, todo # <<>>, todo' = Tail(todo),
         setup' = setup, state' = "running", said' \subseteq said \cup {"lifetime"}
  PROVE  /\ Planned' /\ todo' \in Seq(Steps)
         /\ Entries(todo') \subseteq Entries(todo)
         /\ Head(todo) \in Entries(todo)
         /\ \A x \in Entries(todo) : x \in Entries(todo') \/ x = Head(todo)
<1>1. todo \in Seq(Steps) /\ 1 \in 0 .. Len(todo) /\ Tail(todo) = SubSeq(todo, 2, Len(todo))
      /\ Head(todo) = todo[1] /\ Head(todo) \in Entries(todo)
  BY DEF CalcTyped, Entries
<1>2. \A x \in Entries(Tail(todo)) : x.part \notin said'
  <2>1. Entries(Tail(todo)) \subseteq Entries(todo) /\ Entries(todo) \subseteq Steps
    BY <1>1, TailOfList DEF Entries
  <2> QED BY <2>1 DEF Planned, Steps, PartNames
<1>3. todo' = SubSeq(todo, 1 + 1, Len(todo))
  BY <1>1
<1>4. /\ Planned' /\ todo' \in Seq(Steps)
      /\ Entries(todo') \subseteq Entries(todo)
      /\ \A x \in Entries(todo) : x \in Entries(todo') \/ \E i \in 1 .. 1 : x = todo[i]
  BY <1>1, <1>2, <1>3, StepsPassed
<1> QED BY <1>1, <1>4

(* What is settled stays settled, or its part is given up.                 *)
Frame ==
  /\ run' = run /\ setup' = setup
  /\ said \subseteq said'
  /\ \A d \in done : d \in done' \/ d.part \in said'
  /\ Entries(todo') \subseteq Entries(todo)
  /\ files'["FORCE_CONSTANTS"] # 0 =>
       files["FORCE_CONSTANTS"] # 0 \/ \E y \in Entries(todo) : y.name = "FORCE_CONSTANTS"
  /\ silent \/ files[KappaFiles[setup.mesh]] = run =>
       silent' \/ files'[KappaFiles[setup.mesh]] = run

LEMMA SettledStays ==
  ASSUME Frame, NEW x, Settled(x)
  PROVE  x.part \in said' \/ Settled(x)'
<1>1. x.name \notin Calls => x \in done' \/ x.part \in said'
  BY DEF Frame, Settled
<1>2. x.name = "copy" => Step(x.part, "FORCE_CONSTANTS_2ND") \in done' \/ x.part \in said'
  BY DEF Frame, Settled, Step
<1>3. x.name = "unlink" /\ setup.text = "default" =>
        files'["FORCE_CONSTANTS"] = 0 /\ \A y \in Entries(todo') : y.name # "FORCE_CONSTANTS"
  BY DEF Frame, Settled
<1>4. x.name = "phono3py" => silent' \/ files'[KappaFiles[setup.mesh]] = run
  BY DEF Frame, Settled
<1>5. x.name = "select" => (\E k \in Kappas : Step(x.part, k) \in done') \/ x.part \in said'
  BY DEF Frame, Settled, Step
<1>6. x.name = "lifetime" =>
        "lifetime" \in said' \/ Step(x.part, "phonon_lifetime.csv") \in done' \/ x.part \in said'
  BY DEF Frame, Settled, Step
<1> QED BY <1>1, <1>2, <1>3, <1>4, <1>5, <1>6 DEF Frame, Settled

LEMMA AccountedOn ==
  ASSUME Accounted, Frame,
         \A y \in Entries(todo) : y \in Entries(todo') \/ y.part \in said' \/ Settled(y)'
  PROVE  Accounted'
<1>1. ASSUME NEW x \in Entries(Plan(setup))
      PROVE  x \in Entries(todo') \/ x.part \in said' \/ Settled(x)'
  BY <1>1, SettledStays DEF Accounted, Frame
<1>2. Plan(setup)' = Plan(setup)
  BY DEF Frame
<1> QED BY <1>1, <1>2 DEF Accounted, Frame

LEMMA OwnOn ==
  ASSUME Own, Entries(todo') \subseteq Entries(todo),
         \A d \in done : OwnFile(d) => OwnFile(d)',
         \A d \in done' \ done : OwnFile(d)'
              /\ (d.name \in Kappas => \A y \in Entries(todo') : y.name # "phono3py")
  PROVE  Own'
BY DEF Own

LEMMA Overwritten ==
  ASSUME CalcTyped, NEW f \in FileNames, run' = run, silent' = silent,
         files' = [files EXCEPT ![f] = run] \/ files' = files,
         NEW d \in done, OwnFile(d)
  PROVE  OwnFile(d)'
BY DEF CalcTyped, OwnFile

LEMMA WrittenFrame ==
  ASSUME Setups \subseteq Configurations, CalcTyped, NEW f \in FileNames,
         files' = [files EXCEPT ![f] = run] \/ files' = files
  PROVE  /\ files'["FORCE_CONSTANTS"] # 0 => files["FORCE_CONSTANTS"] # 0 \/ f = "FORCE_CONSTANTS"
         /\ files[KappaFiles[setup.mesh]] = run => files'[KappaFiles[setup.mesh]] = run
<1>1. "FORCE_CONSTANTS" \in FileNames
  BY DEF FileNames
<1>2. KappaFiles[setup.mesh] \in FileNames
  BY Chosen, CalcNames
<1> QED BY <1>1, <1>2 DEF CalcTyped

LEMMA ToldOn ==
  ASSUME Told, run' = run, setup' = setup, outcome' = outcome,
         \A d \in done' \ done : d.name # "result.json",
         outcome.by # run \/ setup.backend # "real"
  PROVE  Told'
BY DEF Told

LEMMA NothingReported ==
  ASSUME CalcTyped, Planned, Told, todo # <<>>,
         Head(todo).part # "core" \/ Head(todo).name \in Calls
  PROVE  outcome.by # run \/ setup.backend # "real"
<1>1. Head(todo) \in Entries(todo)
  BY DEF CalcTyped, Entries
<1>2. \A x \in Reports : x.part = "core" /\ x.name \notin Calls
  BY ReportSteps DEF Step, Calls
<1> QED BY <1>1, <1>2 DEF Told

(* One lemma for each action.                                              *)
Good == CalcTyped /\ Planned /\ Accounted /\ Own /\ Told

LEMMA StartGood ==
  ASSUME LastCalculation \in Nat, Setups \subseteq Configurations, CalcTyped,
         NEW c \in Setups, Start(c)
  PROVE  Good'
<1>1. /\ run \in Nat /\ run' = run + 1 /\ run < LastCalculation /\ state' = "running" /\ setup' = c
      /\ todo' = Plan(c) /\ done' = {} /\ said' = {} /\ silent' = FALSE
      /\ files' = files /\ outcome' = outcome
  BY DEF Start, CalcTyped
<1>2. c \in Configurations /\ Ruled(c, Plan(c))
  BY RealPlan, OtherPlans
<1>3. Arranged(todo')
  BY <1>1, <1>2 DEF Ruled
<1>4. CalcTyped'
  <2>1. run' \in 0 .. LastCalculation /\ run' # 0 /\ outcome'.by \in 0 .. run'
    BY <1>1 DEF CalcTyped
  <2> QED BY <1>1, <1>3, <2>1 DEF CalcTyped, Arranged
<1>5. Planned'
  <2>1. Plan(setup)' = todo'
    BY <1>1
  <2>2. c.backend = "real" => After(Plan(c), Named({"result.json"}), Steps \ Reports)
    BY <1>2, RealPlan
  <2>3. (setup.backend = "real" => After(todo, Named({"result.json"}), Steps \ Reports))'
    BY <1>1, <2>2
  <2> QED BY <1>1, <1>3, <2>1, <2>3 DEF Planned
<1>6. Accounted'
  BY <1>1 DEF Accounted
<1>7. Own'
  BY <1>1 DEF Own
<1>8. Told'
  <2>1. outcome'.by # run'
    BY <1>1 DEF CalcTyped
  <2> QED BY <1>1, <2>1 DEF Told
<1> QED BY <1>4, <1>5, <1>6, <1>7, <1>8 DEF Good

(* The step that is next.                                                  *)
LEMMA NextStep ==
  ASSUME Setups \subseteq Configurations, CalcTyped, Planned, todo # <<>>
  PROVE  LET h == Head(todo)
         IN /\ h \in Steps /\ h \in Entries(todo) /\ h \in Entries(Plan(setup))
            /\ h = Step(h.part, h.name) /\ h.part \in PartNames /\ h.part \notin said
            /\ h.name \notin Calls => h.name \in FileNames \ Kappas
<1>1. Head(todo) \in Steps /\ Head(todo) \in Entries(todo)
  BY DEF CalcTyped, Entries
<1> QED BY <1>1, CalcNames DEF Planned, Steps

LEMMA WriteGood ==
  ASSUME LastCalculation \in Nat, Setups \subseteq Configurations, Good, run # 0, WriteFile
  PROVE  Good'
<1>0. PICK h : h = Head(todo)
  OBVIOUS
<1>1. /\ state = "running" /\ todo # <<>> /\ h.name \notin Calls \cup {"result.json"}
      /\ files' = [files EXCEPT ![h.name] = run]
      /\ done' = done \cup {[part |-> h.part, name |-> h.name]}
      /\ todo' = Tail(todo) /\ run' = run /\ state' = state /\ setup' = setup
      /\ said' = said /\ silent' = silent /\ outcome' = outcome
  BY <1>0 DEF WriteFile, Wrote
<1>2. /\ h \in Steps /\ h \in Entries(todo) /\ h = Step(h.part, h.name)
      /\ h.part \in PartNames /\ h.name \in FileNames \ Kappas
  BY <1>0, <1>1, NextStep DEF Good
<1>3. done' = done \cup {h}
  BY <1>1, <1>2 DEF Step
<1>4. /\ Planned' /\ todo' \in Seq(Steps) /\ Entries(todo') \subseteq Entries(todo)
      /\ \A x \in Entries(todo) : x \in Entries(todo') \/ x = h
  BY <1>0, <1>1, StepPassed DEF Good
<1>5. CalcTyped'
  BY <1>1, <1>2, <1>4 DEF Good, CalcTyped
<1>6. Accounted'
  <2>1. Frame
    BY <1>1, <1>2, <1>3, <1>4 DEF Frame, Good, CalcTyped
  <2>2. Settled(h)'
    BY <1>1, <1>3 DEF Settled, Calls
  <2> QED BY <1>4, <2>1, <2>2, AccountedOn DEF Good
<1>7. Own'
  <2>1. \A d \in done : OwnFile(d) => OwnFile(d)'
    BY <1>1, <1>2, Overwritten DEF Good
  <2>2. OwnFile(h)' /\ h.name \notin Kappas
    BY <1>1, <1>2 DEF Good, CalcTyped, OwnFile
  <2> QED BY <1>3, <1>4, <2>1, <2>2, OwnOn DEF Good
<1>8. Told'
  <2>1. ThermalStatus' = ThermalStatus
    BY <1>1 DEF ThermalStatus
  <2>2. outcome.by = run /\ setup.backend = "real" => h \in Reports
    BY <1>2 DEF Good, Told
  <2> QED BY <1>1, <1>3, <1>4, <2>1, <2>2 DEF Good, Told
<1> QED BY <1>4, <1>5, <1>6, <1>7, <1>8 DEF Good

LEMMA WriteResultGood ==
  ASSUME LastCalculation \in Nat, Setups \subseteq Configurations, Good, run # 0, WriteResult
  PROVE  Good'
<1>0. PICK h : h = Head(todo)
  OBVIOUS
<1>1. /\ state = "running" /\ todo # <<>> /\ h.name = "result.json"
      /\ files' = [files EXCEPT !["result.json"] = run]
      /\ done' = done \cup {[part |-> h.part, name |-> "result.json"]}
      /\ todo' = Tail(todo) /\ run' = run /\ state' = state /\ setup' = setup
      /\ said' = said /\ silent' = silent
      /\ outcome' = [by |-> run, listed |-> Listed, said |-> said,
                     thermal |-> ThermalStatus]
  BY <1>0 DEF WriteResult, Wrote, NextIs
<1>2. /\ h \in Steps /\ h \in Entries(todo) /\ h = Step(h.part, h.name)
      /\ h.part \in PartNames /\ "result.json" \in FileNames \ Kappas
  BY <1>0, <1>1, NextStep DEF Good, Calls
<1>3. done' = done \cup {h}
  BY <1>1, <1>2 DEF Step
<1>4. /\ Planned' /\ todo' \in Seq(Steps) /\ Entries(todo') \subseteq Entries(todo)
      /\ \A x \in Entries(todo) : x \in Entries(todo') \/ x = h
  BY <1>0, <1>1, StepPassed DEF Good
<1>5. CalcTyped'
  BY <1>1, <1>2, <1>3, <1>4 DEF Good, CalcTyped
<1>6. Accounted'
  <2>1. Frame
    BY <1>1, <1>2, <1>3, <1>4 DEF Frame, Good, CalcTyped
  <2>2. Settled(h)'
    BY <1>1, <1>3 DEF Settled, Calls
  <2> QED BY <1>4, <2>1, <2>2, AccountedOn DEF Good
<1>7. Own'
  <2>1. \A d \in done : OwnFile(d) => OwnFile(d)'
    BY <1>1, <1>2, Overwritten DEF Good
  <2>2. OwnFile(h)' /\ h.name \notin Kappas
    BY <1>1, <1>2 DEF Good, CalcTyped, OwnFile
  <2> QED BY <1>3, <1>4, <2>1, <2>2, OwnOn DEF Good
<1>8. Told'
  <2>1. ThermalStatus' = ThermalStatus
    BY <1>1 DEF ThermalStatus
  <2>2. /\ outcome'.by = run /\ outcome'.listed = Listed /\ outcome'.said = said
        /\ outcome'.thermal = ThermalStatus
    BY <1>1
  <2>3. ASSUME setup.backend = "real"
        PROVE  Entries(todo') \subseteq Reports
    <3>1. todo \in Seq(Steps) /\ After(todo, Named({"result.json"}), Steps \ Reports)
      BY <2>3 DEF Good, CalcTyped, Planned
    <3>2. h \in Named({"result.json"})
      BY <1>1, <1>2 DEF Named
    <3>3. Entries(Tail(todo)) \cap (Steps \ Reports) = {}
      BY <1>0, <1>1, <3>1, <3>2, TailOfList
    <3>4. Entries(todo') \subseteq Steps
      BY <1>4 DEF Entries
    <3> QED BY <1>1, <3>3, <3>4
  <2>4. ASSUME setup.backend = "real"
        PROVE  /\ outcome'.listed \subseteq {d.name : d \in done'} \ Unlisted
               /\ \A d \in done' : d.name \in outcome'.listed \cup Unlisted \/ d \in Reports
    <3>1. outcome'.listed = {d.name : d \in done} \ Unlisted
      BY <2>2, <2>4 DEF Listed
    <3>2. h.name \in Unlisted
      BY <1>1 DEF Unlisted
    <3> QED BY <1>3, <3>1, <3>2
  <2>5. setup.backend = "dry" => outcome'.listed = DryListed
    BY <2>2 DEF Listed
  <2>6. setup.backend = "dummy" => outcome'.listed = DummyListed
    BY <2>2 DEF Listed
  <2> QED BY <1>1, <2>1, <2>2, <2>3, <2>4, <2>5, <2>6 DEF Told
<1> QED BY <1>4, <1>5, <1>6, <1>7, <1>8 DEF Good

LEMMA CopyGood ==
  ASSUME LastCalculation \in Nat, Setups \subseteq Configurations, Good, run # 0, Copy
  PROVE  Good'
<1> DEFINE f == "FORCE_CONSTANTS_2ND"
<1>0. PICK h : h = Head(todo)
  OBVIOUS
<1>1. /\ state = "running" /\ todo # <<>> /\ h.name = "copy"
      /\ files' = [files EXCEPT ![f] = run]
      /\ done' = done \cup {[part |-> h.part, name |-> f]}
      /\ todo' = Tail(todo) /\ run' = run /\ state' = state /\ setup' = setup
      /\ said' = said /\ silent' = silent /\ outcome' = outcome
  BY <1>0 DEF Copy, Wrote, NextIs, shengbte_fc2_name
<1>2. h \in Steps /\ h.part \in PartNames /\ f \in FileNames \ Kappas
  <2>1. f \in FileNames \ Kappas
    BY DEF FileNames, Kappas
  <2> QED BY <1>0, <1>1, <2>1, NextStep DEF Good
<1>3. done' = done \cup {Step(h.part, f)}
  BY <1>1 DEF Step
<1>4. /\ Planned' /\ todo' \in Seq(Steps) /\ Entries(todo') \subseteq Entries(todo)
      /\ \A x \in Entries(todo) : x \in Entries(todo') \/ x = h
  BY <1>0, <1>1, StepPassed DEF Good
<1>5. CalcTyped'
  BY <1>1, <1>2, <1>4 DEF Good, CalcTyped
<1>6. Accounted'
  <2>1. Frame
    BY <1>1, <1>2, <1>3, <1>4 DEF Frame, Good, CalcTyped
  <2>2. Settled(h)'
    BY <1>1, <1>3 DEF Settled, Calls
  <2> QED BY <1>4, <2>1, <2>2, AccountedOn DEF Good
<1>7. Own'
  <2>1. \A d \in done : OwnFile(d) => OwnFile(d)'
    BY <1>1, <1>2, Overwritten DEF Good
  <2>2. OwnFile(Step(h.part, f))' /\ Step(h.part, f).name \notin Kappas
    BY <1>1, <1>2 DEF Good, CalcTyped, OwnFile, Step
  <2> QED BY <1>3, <1>4, <2>1, <2>2, OwnOn DEF Good
<1>8. Told'
  <2>1. outcome.by # run \/ setup.backend # "real"
    BY <1>0, <1>1, NothingReported DEF Good, Calls
  <2>2. Step(h.part, f).name # "result.json"
    BY DEF Step
  <2> QED BY <1>1, <1>3, <2>1, <2>2, ToldOn DEF Good
<1> QED BY <1>4, <1>5, <1>6, <1>7, <1>8 DEF Good

(* The first text file is removed when the second is there, which the copy *)
(* wrote; nothing that is left writes the first again.                     *)
LEMMA UnlinkGood ==
  ASSUME LastCalculation \in Nat, Setups \subseteq Configurations, Good, run # 0, Unlink
  PROVE  Good'
<1> DEFINE f == fc2_text_name(setup)
           second2 == "FORCE_CONSTANTS_2ND"
<1>0. PICK h : h = Head(todo)
  OBVIOUS
<1>1. /\ state = "running" /\ todo # <<>> /\ h.name = "unlink"
      /\ files' = IF files[f] # 0 /\ files[second2] # 0 /\ f # second2
                  THEN [files EXCEPT ![f] = 0] ELSE files
      /\ done' = done /\ todo' = Tail(todo) /\ run' = run /\ state' = state /\ setup' = setup
      /\ said' = said /\ silent' = silent /\ outcome' = outcome
  BY <1>0 DEF Unlink, NextIs, shengbte_fc2_name, Exists, NoCalculation
<1>2. /\ h \in Steps /\ h \in Entries(todo) /\ h \in Entries(Plan(setup))
      /\ h.part \in PartNames /\ h.part \notin said
  BY <1>0, <1>1, NextStep DEF Good
<1>3. /\ f \in FileNames
      /\ f # second2 => f \in {"FORCE_CONSTANTS", "fc2.txt"}
      /\ setup.text = "default" => f = "FORCE_CONSTANTS"
  BY DEF fc2_text_name, FileNames
<1> HIDE DEF f
<1>4. /\ Planned' /\ todo' \in Seq(Steps) /\ Entries(todo') \subseteq Entries(todo)
      /\ \A x \in Entries(todo) : x \in Entries(todo') \/ x = h
  BY <1>0, <1>1, StepPassed DEF Good
<1>5. CalcTyped'
  BY <1>1, <1>3, <1>4 DEF Good, CalcTyped
<1>6. Entries(todo') \cap TextFirst = {}
  <2>1. todo \in Seq(Steps) /\ After(todo, Unlinks, TextFirst) /\ h \in Unlinks
    BY <1>1, <1>2 DEF Good, CalcTyped, Planned, Arranged, Unlinks, Named
  <2> QED BY <1>0, <1>1, <2>1, TailOfList
<1>7. files[second2] # 0
  <2>1. h = Step("text", "unlink") /\ Step("text", "copy") \in Entries(Plan(setup))
    BY <1>1, <1>2, Chosen DEF Good, Ruled
  <2>2. Step("text", "copy") \notin Entries(todo)
    <3>1. Step("text", "copy") # h
      BY <2>1 DEF Step
    <3>2. Step("text", "copy") \in TextFirst
      BY DEF TextFirst, Named, Step, Steps, StepNames, PartNames, Calls
    <3> QED BY <1>4, <1>6, <3>1, <3>2
  <2>3. Step("text", "copy").part = "text" /\ Step("text", "copy").name = "copy" /\ h.part = "text"
    BY <2>1 DEF Step
  <2>4. Settled(Step("text", "copy"))
    BY <1>2, <2>1, <2>2, <2>3 DEF Good, Accounted
  <2>5. Step("text", second2) \in done
    BY <2>3, <2>4 DEF Settled
  <2>6. OwnFile(Step("text", second2))
    BY <2>5 DEF Good, Own
  <2> QED BY <2>6 DEF OwnFile, Step, Kappas
<1>8. Accounted'
  <2>1. Frame
    BY <1>1, <1>2, <1>3, <1>4, Chosen DEF Frame, Good, CalcTyped, Kappas
  <2>2. setup.text = "default" => files'["FORCE_CONSTANTS"] = 0
    BY <1>1, <1>3, <1>7 DEF Good, CalcTyped
  <2>3. \A y \in Entries(todo') : y.name # "FORCE_CONSTANTS"
    <3>1. Entries(todo') \subseteq Steps
      BY <1>4 DEF Entries
    <3> QED BY <1>6, <3>1 DEF TextFirst, Named
  <2>4. Settled(h)'
    BY <1>1, <2>2, <2>3 DEF Settled, Calls
  <2> QED BY <1>4, <2>1, <2>4, AccountedOn DEF Good
<1>9. Own'
  <2>1. \A d \in done : OwnFile(d) => OwnFile(d)'
    BY <1>1, <1>3 DEF Good, CalcTyped, OwnFile
  <2> QED BY <1>1, <1>4, <2>1, OwnOn DEF Good
<1>10. Told'
  <2>1. outcome.by # run \/ setup.backend # "real"
    BY <1>0, <1>1, NothingReported DEF Good, Calls
  <2> QED BY <1>1, <2>1, ToldOn DEF Good
<1> QED BY <1>4, <1>5, <1>8, <1>9, <1>10 DEF Good

LEMMA AvailableGood ==
  ASSUME LastCalculation \in Nat, Setups \subseteq Configurations, Good, run # 0, Available
  PROVE  Good'
<1>0. PICK h : h = Head(todo)
  OBVIOUS
<1>1. /\ state = "running" /\ todo # <<>> /\ h.name = "available" /\ todo' = Tail(todo)
      /\ files' = files /\ done' = done /\ run' = run /\ state' = state /\ setup' = setup
      /\ said' = said /\ silent' = silent /\ outcome' = outcome
  BY <1>0 DEF Available, NextIs
<1>2. /\ Planned' /\ todo' \in Seq(Steps) /\ Entries(todo') \subseteq Entries(todo)
      /\ \A x \in Entries(todo) : x \in Entries(todo') \/ x = h
  BY <1>0, <1>1, StepPassed DEF Good
<1>3. CalcTyped'
  BY <1>1, <1>2 DEF Good, CalcTyped
<1>4. Accounted'
  <2>1. Frame /\ Settled(h)'
    BY <1>1, <1>2 DEF Frame, Settled, Calls
  <2> QED BY <1>2, <2>1, AccountedOn DEF Good
<1>5. Own'
  <2>1. \A d \in done : OwnFile(d) => OwnFile(d)'
    BY <1>1 DEF OwnFile
  <2> QED BY <1>1, <1>2, <2>1, OwnOn DEF Good
<1>6. Told'
  <2>1. outcome.by # run \/ setup.backend # "real"
    BY <1>0, <1>1, NothingReported DEF Good, Calls
  <2> QED BY <1>1, <2>1, ToldOn DEF Good
<1> QED BY <1>2, <1>3, <1>4, <1>5, <1>6 DEF Good

(* phono3py runs before its file is looked for: what it writes, or leaves, *)
(* is not listed yet.                                                      *)
LEMMA RunPhono3pyGood ==
  ASSUME LastCalculation \in Nat, Setups \subseteq Configurations, Good, run # 0, RunPhono3py
  PROVE  Good'
<1> DEFINE k == KappaFiles[setup.mesh]
<1>0. PICK h : h = Head(todo)
  OBVIOUS
<1>1. /\ state = "running" /\ todo # <<>> /\ h.name = "phono3py" /\ todo' = Tail(todo)
      /\ \/ files' = [files EXCEPT ![k] = run] /\ silent' = FALSE
         \/ files' = files /\ silent' = TRUE
      /\ done' = done /\ run' = run /\ state' = state /\ setup' = setup
      /\ said' = said /\ outcome' = outcome
  BY <1>0 DEF RunPhono3py, NextIs
<1>2. k \in Kappas /\ k \in FileNames /\ h \in Entries(todo)
  BY <1>0, <1>1, Chosen, CalcNames, NextStep DEF Good
<1>3. KappaFiles[setup'.mesh] = k
  BY <1>1
<1> HIDE DEF k
<1>4. /\ Planned' /\ todo' \in Seq(Steps) /\ Entries(todo') \subseteq Entries(todo)
      /\ \A x \in Entries(todo) : x \in Entries(todo') \/ x = h
  BY <1>0, <1>1, StepPassed DEF Good
<1>5. CalcTyped'
  BY <1>1, <1>2, <1>4 DEF Good, CalcTyped
<1>6. silent' \/ files'[k] = run
  BY <1>1, <1>2 DEF Good, CalcTyped
<1>7. Accounted'
  <2>1. Frame
    <3>1. files'["FORCE_CONSTANTS"] # 0 => files["FORCE_CONSTANTS"] # 0 \/ k = "FORCE_CONSTANTS"
      BY <1>1, <1>2, WrittenFrame DEF Good
    <3>2. k # "FORCE_CONSTANTS"
      BY <1>2 DEF Kappas
    <3> QED BY <1>1, <1>4, <1>6, <3>1, <3>2 DEF Frame, k
  <2>2. Settled(h)'
    BY <1>1, <1>3, <1>6 DEF Settled, Calls
  <2> QED BY <1>4, <2>1, <2>2, AccountedOn DEF Good
<1>8. Own'
  <2>1. \A d \in done : d.name \notin Kappas
    BY <1>1, <1>2 DEF Good, Own
  <2>2. \A d \in done : OwnFile(d) => OwnFile(d)'
    BY <1>1, <1>2, <2>1 DEF Good, CalcTyped, OwnFile
  <2> QED BY <1>1, <1>4, <2>2, OwnOn DEF Good
<1>9. Told'
  <2>1. outcome.by # run \/ setup.backend # "real"
    BY <1>0, <1>1, NothingReported DEF Good, Calls
  <2> QED BY <1>1, <2>1, ToldOn DEF Good
<1> QED BY <1>4, <1>5, <1>7, <1>8, <1>9 DEF Good

(* The kappa file that is taken is the calculation's own, or phono3py wrote*)
(* none and it is one that an earlier calculation left.                    *)
LEMMA SelectKappaGood ==
  ASSUME LastCalculation \in Nat, Setups \subseteq Configurations, Good, run # 0, SelectKappa
  PROVE  Good'
<1>0. PICK h, k : h = Head(todo) /\ k = SelectedKappa
  OBVIOUS
<1>1. /\ state = "running" /\ todo # <<>> /\ h.name = "select" /\ todo' = Tail(todo)
      /\ SomeKappa # {}
      /\ done' = done \cup {Step("thermal", k)}
      /\ files' = files /\ run' = run /\ state' = state /\ setup' = setup
      /\ said' = said /\ silent' = silent /\ outcome' = outcome
  BY <1>0 DEF SelectKappa, NextIs, Step
<1>2. /\ h \in Steps /\ h \in Entries(todo) /\ h \in Entries(Plan(setup))
      /\ h.part \notin said
  BY <1>0, <1>1, NextStep DEF Good
<1>3. k \in Kappas /\ files[k] # 0 /\ (k = KappaFiles[setup.mesh] \/ files[KappaFiles[setup.mesh]] = 0)
  <2>1. CASE files[KappaFiles[setup.mesh]] # 0
    <3>1. k = KappaFiles[setup.mesh]
      BY <1>0, <2>1 DEF SelectedKappa, Exists, NoCalculation
    <3> QED BY <2>1, <3>1, Chosen DEF Good
  <2>2. CASE files[KappaFiles[setup.mesh]] = 0
    <3> DEFINE E == SomeKappa
               top == CHOOSE m \in E : \A n \in E : n <= m
    <3>1. k = KappaFiles[top]
      BY <1>0, <2>2 DEF SelectedKappa, Exists, NoCalculation
    <3>2. E \subseteq {1, 2} /\ \A m \in E : m \in Meshes /\ files[KappaFiles[m]] # 0
      BY DEF SomeKappa, Exists, NoCalculation, Meshes
    <3>3. E # {}
      BY <1>1
    <3> HIDE DEF E
    <3>4. \E m \in E : \A n \in E : n <= m
      <4>1. CASE 2 \in E
        BY <3>2, <4>1
      <4>2. CASE 2 \notin E
        <5>1. E = {1}
          BY <3>2, <3>3, <4>2
        <5> QED BY <5>1
      <4> QED BY <4>1, <4>2
    <3>5. top \in E
      BY <3>4
    <3> QED BY <2>2, <3>1, <3>2, <3>5, CalcNames
  <2> QED BY <2>1, <2>2
<1>4. /\ Planned' /\ todo' \in Seq(Steps) /\ Entries(todo') \subseteq Entries(todo)
      /\ \A x \in Entries(todo) : x \in Entries(todo') \/ x = h
  BY <1>0, <1>1, StepPassed DEF Good
<1>5. Step("thermal", k) \in [part: PartNames, name: FileNames] /\ Step("thermal", k).name = k
  BY <1>3, CalcNames DEF Step, PartNames
<1>6. CalcTyped'
  BY <1>1, <1>4, <1>5 DEF Good, CalcTyped
<1>7. h.part = "thermal" /\ Step("thermal", "phono3py") \in Entries(Plan(setup))
  BY <1>1, <1>2, Chosen DEF Good, Ruled
<1>8. Entries(todo') \cap Phono3py = {}
  <2>1. todo \in Seq(Steps) /\ After(todo, Selects, Phono3py) /\ h \in Selects
    BY <1>1, <1>2 DEF Good, CalcTyped, Planned, Arranged, Selects, Named
  <2> QED BY <1>0, <1>1, <2>1, TailOfList
<1>9. silent \/ files[KappaFiles[setup.mesh]] = run
  <2> DEFINE x == Step("thermal", "phono3py")
  <2>1. x.part = "thermal" /\ x.name = "phono3py" /\ x \in Steps
    BY DEF Step, Steps, StepNames, PartNames, Calls
  <2> HIDE DEF x
  <2>2. x \notin Entries(todo)
    BY <1>1, <1>4, <1>8, <2>1 DEF Phono3py, Named
  <2>3. Settled(x)
    BY <1>2, <1>7, <2>1, <2>2 DEF Good, Accounted, x
  <2> QED BY <2>1, <2>3 DEF Settled
<1>10. Accounted'
  <2>1. Frame
    BY <1>1, <1>4 DEF Frame
  <2>2. Settled(h)'
    BY <1>1, <1>3, <1>7 DEF Settled, Calls
  <2> QED BY <1>4, <2>1, <2>2, AccountedOn DEF Good
<1>11. Own'
  <2>1. \A d \in done : OwnFile(d) => OwnFile(d)'
    BY <1>1 DEF OwnFile
  <2>2. OwnFile(Step("thermal", k))'
    BY <1>1, <1>3, <1>5, <1>9 DEF OwnFile
  <2>3. \A y \in Entries(todo') : y.name # "phono3py"
    <3>1. Entries(todo') \subseteq Steps
      BY <1>4 DEF Entries
    <3> QED BY <1>8, <3>1 DEF Phono3py, Named
  <2> QED BY <1>1, <1>4, <2>1, <2>2, <2>3, OwnOn DEF Good
<1>12. Told'
  <2>1. outcome.by # run \/ setup.backend # "real"
    BY <1>0, <1>1, NothingReported DEF Good, Calls
  <2>2. k # "result.json"
    BY <1>3 DEF Kappas
  <2> QED BY <1>1, <1>5, <2>1, <2>2, ToldOn DEF Good
<1> QED BY <1>4, <1>6, <1>10, <1>11, <1>12 DEF Good

LEMMA LifetimeGood ==
  ASSUME LastCalculation \in Nat, Setups \subseteq Configurations, Good, run # 0, Lifetime
  PROVE  Good'
<1> DEFINE f == "phonon_lifetime.csv"
<1>0. PICK h : h = Head(todo)
  OBVIOUS
<1>1. /\ state = "running" /\ todo # <<>> /\ h.name = "lifetime" /\ todo' = Tail(todo)
      /\ \/ /\ files' = [files EXCEPT ![f] = run] /\ said' = said
            /\ done' = done \cup {Step(h.part, f)}
         \/ files' = files /\ said' = said \cup {"lifetime"} /\ done' = done
      /\ run' = run /\ state' = state /\ setup' = setup /\ silent' = silent
      /\ outcome' = outcome
  BY <1>0 DEF Lifetime, NextIs, Wrote, Step
<1>2. h \in Steps /\ h.part \in PartNames
  BY <1>0, <1>1, NextStep DEF Good
<1>3. /\ f \in FileNames \ Kappas /\ Step(h.part, f).name = f
      /\ Step(h.part, f) \in [part: PartNames, name: FileNames]
  BY <1>2 DEF FileNames, Kappas, Step
<1>4. /\ Planned' /\ todo' \in Seq(Steps) /\ Entries(todo') \subseteq Entries(todo)
      /\ \A x \in Entries(todo) : x \in Entries(todo') \/ x = h
  BY <1>0, <1>1, StepPassed DEF Good
<1>5. CalcTyped'
  <2>1. files' \in [FileNames -> 0 .. LastCalculation]
    BY <1>1, <1>3 DEF Good, CalcTyped
  <2>2. done' \subseteq [part: PartNames, name: FileNames]
    BY <1>1, <1>3 DEF Good, CalcTyped
  <2>3. said' \subseteq {"text", "velocity", "thermal", "lifetime"}
    BY <1>1 DEF Good, CalcTyped
  <2> QED BY <1>1, <1>4, <2>1, <2>2, <2>3 DEF Good, CalcTyped
<1>6. Accounted'
  <2>1. Frame
    <3>1. /\ files'["FORCE_CONSTANTS"] # 0 => files["FORCE_CONSTANTS"] # 0 \/ f = "FORCE_CONSTANTS"
          /\ files[KappaFiles[setup.mesh]] = run =>
               files'[KappaFiles[setup.mesh]] = run
      BY <1>1, <1>3, WrittenFrame DEF Good
    <3> QED BY <1>1, <1>4, <3>1 DEF Frame
  <2>2. Settled(h)'
    BY <1>1 DEF Settled, Calls
  <2> QED BY <1>4, <2>1, <2>2, AccountedOn DEF Good
<1>7. Own'
  <2>1. \A d \in done : OwnFile(d) => OwnFile(d)'
    BY <1>1, <1>3, Overwritten DEF Good
  <2>2. Step(h.part, f) \in done' \ done => OwnFile(Step(h.part, f))'
    BY <1>1, <1>3 DEF Good, CalcTyped, OwnFile
  <2> QED BY <1>1, <1>3, <1>4, <2>1, <2>2, OwnOn DEF Good
<1>8. Told'
  <2>1. outcome.by # run \/ setup.backend # "real"
    BY <1>0, <1>1, NothingReported DEF Good, Calls
  <2> QED BY <1>1, <1>3, <2>1, ToldOn DEF Good
<1> QED BY <1>4, <1>5, <1>6, <1>7, <1>8 DEF Good

(* A part that is given up is in one piece: no step of it is left, and     *)
(* nothing that it wrote is listed.                                        *)
LEMMA GivenUpGood ==
  ASSUME LastCalculation \in Nat, Setups \subseteq Configurations, Good, run # 0,
         state = "running", todo # <<>>,
         NEW p \in {"text", "velocity", "thermal"}, Head(todo).part = p,
         MaybeWritten, GiveUpPart(p), said' = said \cup {p},
         run' = run, state' = state, setup' = setup, silent' = silent, outcome' = outcome
  PROVE  Good'
<1>0. PICK h : h = Head(todo)
  OBVIOUS
<1>1. PICK n \in DOMAIN todo :
        /\ \A i \in 1 .. n : todo[i].part = p
        /\ n < Len(todo) => todo[n + 1].part # p
        /\ todo' = SubSeq(todo, n + 1, Len(todo))
  BY DEF GiveUpPart
<1>2. done' = {d \in done : d.part # p}
  BY DEF GiveUpPart
<1>3. /\ todo \in Seq(Steps) /\ Len(todo) \in Nat /\ n \in 1 .. Len(todo)
      /\ DOMAIN todo = 1 .. Len(todo) /\ h = todo[1]
  BY <1>0 DEF Good, CalcTyped
<1>4. \A x \in Entries(todo') : x.part # p
  <2> DEFINE t == SubSeq(todo, n + 1, Len(todo))
  <2>1. \A i \in DOMAIN t : n + i \in DOMAIN todo /\ t[i] = todo[n + i]
    <3>1. n \in 0 .. Len(todo)
      BY <1>3
    <3> QED BY <1>3, <3>1, RestOfList
  <2>2. DOMAIN t \subseteq Nat \ {0}
    BY <1>3
  <2> HIDE DEF t
  <2> SUFFICES ASSUME NEW i \in DOMAIN t, t[i].part = p
               PROVE  FALSE
    BY <1>1 DEF Entries, t
  <2>3. i \in Nat /\ i # 0 /\ n + i \in DOMAIN todo /\ todo[n + i].part = p
    BY <2>1, <2>2
  <2>4. n < Len(todo) /\ todo[n + 1].part # p /\ n + 1 \in DOMAIN todo
    BY <1>1, <1>3, <2>3
  <2>5. i # 1
    BY <2>3, <2>4
  <2>6. 1 < n + 1 /\ n + 1 < n + i /\ 1 \in DOMAIN todo /\ todo[1].part = p
    BY <1>1, <1>3, <2>3, <2>5
  <2>7. todo[n + 1].part = p
    BY <2>3, <2>4, <2>6 DEF Good, Planned, Arranged, InOnePiece
  <2> QED BY <2>4, <2>7
<1>5. Entries(SubSeq(todo, n + 1, Len(todo))) \subseteq Entries(todo)
  <2>1. \A i \in n + 1 .. Len(todo) : i \in DOMAIN todo
    BY <1>3
  <2>2. n \in 0 .. Len(todo)
    BY <1>3
  <2>3. Entries(SubSeq(todo, n + 1, Len(todo))) = {todo[i] : i \in n + 1 .. Len(todo)}
    BY <1>3, <2>2, RestOfList
  <2> QED BY <2>1, <2>3 DEF Entries
<1>6. /\ Planned' /\ todo' \in Seq(Steps) /\ Entries(todo') \subseteq Entries(todo)
      /\ \A x \in Entries(todo) : x \in Entries(todo') \/ \E i \in 1 .. n : x = todo[i]
  <2>1. \A x \in Entries(todo') : x.part \notin said'
    BY <1>1, <1>4, <1>5 DEF Good, Planned
  <2>2. n \in 0 .. Len(todo)
    BY <1>3
  <2> QED BY <1>1, <2>1, <2>2, StepsPassed DEF Good
<1>7. /\ files' = files \/ (h.name \in FileNames \ Kappas /\ files' = [files EXCEPT ![h.name] = run])
      /\ h \in Entries(todo)
  BY <1>0, NextStep DEF Good, MaybeWritten
<1>8. CalcTyped'
  BY <1>2, <1>6, <1>7 DEF Good, CalcTyped
<1>9. Accounted'
  <2>1. Frame
    <3>1. files' = files => Frame
      BY <1>2, <1>6 DEF Frame
    <3>2. ASSUME h.name \in FileNames, files' = [files EXCEPT ![h.name] = run]
          PROVE  /\ files'["FORCE_CONSTANTS"] # 0 =>
                      files["FORCE_CONSTANTS"] # 0 \/ h.name = "FORCE_CONSTANTS"
                 /\ files[KappaFiles[setup.mesh]] = run =>
                      files'[KappaFiles[setup.mesh]] = run
      BY <3>2, WrittenFrame DEF Good
    <3> QED BY <1>2, <1>6, <1>7, <3>1, <3>2 DEF Frame
  <2>2. \A y \in Entries(todo) : y \in Entries(todo') \/ y.part \in said'
    BY <1>1, <1>6
  <2> QED BY <2>1, <2>2, AccountedOn DEF Good
<1>10. Own'
  <2>1. \A d \in done : OwnFile(d) => OwnFile(d)'
    <3>1. CASE files' = files
      BY <3>1 DEF OwnFile
    <3>2. CASE h.name \in FileNames /\ files' = [files EXCEPT ![h.name] = run]
      BY <3>2, Overwritten DEF Good
    <3> QED BY <1>7, <3>1, <3>2
  <2> QED BY <1>2, <1>6, <2>1, OwnOn DEF Good
<1>11. Told'
  <2>1. outcome.by # run \/ setup.backend # "real"
    BY NothingReported DEF Good
  <2> QED BY <1>2, <2>1, ToldOn DEF Good
<1> QED BY <1>6, <1>8, <1>9, <1>10, <1>11 DEF Good

LEMMA OverGood ==
  ASSUME Good, state = "running", state' \in {"stopped", "finished"},
         state' = "finished" => todo = <<>>,
         UNCHANGED <<files, run, setup, todo, done, said, silent, outcome>>
  PROVE  Good'
<1>1. CalcTyped'
  BY DEF Good, CalcTyped
<1>2. Planned'
  BY DEF Good, Planned
<1>3. Accounted'
  BY DEF Good, Accounted, Settled
<1>4. Own'
  BY DEF Good, Own, OwnFile
<1>5. Told'
  BY DEF Good, Told, ThermalStatus
<1> QED BY <1>1, <1>2, <1>3, <1>4, <1>5 DEF Good

LEMMA CalcInitial ==
  ASSUME LastCalculation \in Nat, Setups # {}, CalculationInit
  PROVE  CalcInv
<1>1. setup \in Setups /\ todo = <<>> /\ <<>> \in Seq(Steps)
  BY DEF CalculationInit
<1>2. files \in [FileNames -> 0 .. LastCalculation]
  BY DEF CalculationInit, NoCalculation
<1>3. outcome.by = 0 /\ run = 0 /\ state = "none" /\ done = {} /\ said = {} /\ silent = FALSE
  BY DEF CalculationInit, NoCalculation, NoReport
<1>4. run \in 0 .. LastCalculation /\ outcome.by \in 0 .. run
  BY <1>3
<1>5. todo \in Seq(Steps)
  BY <1>1
<1>6. done \subseteq [part: PartNames, name: FileNames] /\ silent \in BOOLEAN
      /\ said \subseteq {"text", "velocity", "thermal", "lifetime"}
  BY <1>3
<1>7. CalcTyped
  BY <1>1, <1>2, <1>3, <1>4, <1>5, <1>6 DEF CalcTyped
<1> QED BY <1>3, <1>7 DEF CalcInv

LEMMA CalcNext ==
  ASSUME LastCalculation \in Nat, Setups \subseteq Configurations, CalcInv, [CalculationNext]_calculationVars
  PROVE  CalcInv'
<1>1. CASE \E c \in Setups : Start(c)
  BY <1>1, StartGood DEF CalcInv, Good
<1>2. ASSUME state = "running" PROVE Good /\ run # 0
  BY <1>2 DEF CalcInv, CalcTyped, Good
<1>3. CASE WriteFile
  BY <1>2, <1>3, WriteGood DEF CalcInv, Good, WriteFile
<1>4. CASE WriteResult
  BY <1>2, <1>4, WriteResultGood DEF CalcInv, Good, WriteResult, NextIs
<1>5. CASE Copy
  BY <1>2, <1>5, CopyGood DEF CalcInv, Good, Copy, NextIs
<1>6. CASE Unlink
  BY <1>2, <1>6, UnlinkGood DEF CalcInv, Good, Unlink, NextIs
<1>7. CASE Available
  BY <1>2, <1>7, AvailableGood DEF CalcInv, Good, Available, NextIs
<1>8. CASE RunPhono3py
  BY <1>2, <1>8, RunPhono3pyGood DEF CalcInv, Good, RunPhono3py, NextIs
<1>9. CASE SelectKappa
  BY <1>2, <1>9, SelectKappaGood DEF CalcInv, Good, SelectKappa, NextIs
<1>10. CASE Lifetime
  BY <1>2, <1>10, LifetimeGood DEF CalcInv, Good, Lifetime, NextIs
<1>11. CASE FailText
  <2>1. Good'
    BY <1>2, <1>11, GivenUpGood DEF FailText
  <2> QED BY <2>1 DEF CalcInv, Good
<1>12. CASE FailPart
  <2>1. Good'
    BY <1>2, <1>12, GivenUpGood DEF FailPart
  <2> QED BY <2>1 DEF CalcInv, Good
<1>13. CASE StopCalculation
  <2>1. Good'
    BY <1>2, <1>13, OverGood DEF StopCalculation
  <2> QED BY <2>1 DEF CalcInv, Good
<1>14. CASE Finish
  <2>1. Good'
    BY <1>2, <1>14, OverGood DEF Finish
  <2> QED BY <2>1 DEF CalcInv, Good
<1>15. CASE UNCHANGED calculationVars
  <2>1. UNCHANGED <<files, run, state, setup, todo, done, said, silent, outcome>>
    BY <1>15 DEF calculationVars
  <2> QED BY <2>1 DEF CalcInv, CalcTyped, Planned, Accounted, Settled, Own, OwnFile, Told,
                      ThermalStatus
<1>16. CASE Rest
  BY <1>15, <1>16 DEF Rest
<1> QED BY <1>1, <1>3, <1>4, <1>5, <1>6, <1>7, <1>8, <1>9, <1>10, <1>11, <1>12, <1>13, <1>14,
           <1>15, <1>16 DEF CalculationNext

(* The invariant holds in every state of the specification.                *)
LEMMA CalcInvariance == CalculationSpec => []CalcInv
<1>1. LastCalculation \in Nat /\ Setups \subseteq Configurations /\ Setups # {}
  BY CalculationAssumption
<1>2. CalculationInit => CalcInv
  BY <1>1, CalcInitial
<1>3. CalcInv /\ [CalculationNext]_calculationVars => CalcInv'
  BY <1>1, CalcNext
<1> QED BY <1>2, <1>3, PTL DEF CalculationSpec

(* What a finished calculation has behind it.                              *)
LEMMA Behind ==
  ASSUME CalcInv, state = "finished",
         NEW x \in Entries(Plan(setup))
  PROVE  x.part \in said \/ Settled(x)
<1>1. Planned /\ Accounted /\ todo = <<>>
  BY DEF CalcInv, Planned
<1>2. Entries(todo) = {}
  BY <1>1 DEF Entries
<1> QED BY <1>1, <1>2 DEF Accounted

LEMMA Left ==
  ASSUME CalcInv, state = "finished",
         NEW part \in PartNames, NEW f, f \notin Calls,
         Step(part, f) \in Entries(Plan(setup)), part \notin said
  PROVE  Step(part, f) \in done
<1>1. Step(part, f).part = part /\ Step(part, f).name = f
  BY DEF Step
<1> QED BY <1>1, Behind DEF Settled

(* What the result of a real workflow says of what was done.               *)
LEMMA InResult ==
  ASSUME CalcInv, state = "finished", outcome.by = run, setup.backend = "real",
         NEW d \in done
  PROVE  d.name \in outcome.listed \cup Unlisted
         \/ d.name \in {"timing_breakdown.json", "summary.txt"}
<1>1. d.name \in outcome.listed \cup Unlisted \/ d \in Reports
  BY DEF CalcInv, Told
<1> QED BY <1>1, ReportSteps DEF Step, Unlisted

LEMMA Reported ==
  ASSUME Setups \subseteq Configurations, CalcInv, state = "finished"
  PROVE  outcome.by = run
<1>1. Step("core", "result.json") \in Entries(Plan(setup))
  BY Chosen DEF CalcInv, Ruled
<1>2. "core" \in PartNames /\ "core" \notin said /\ "result.json" \notin Calls
  BY DEF CalcInv, CalcTyped, PartNames, Calls
<1>3. Step("core", "result.json") \in done
  BY <1>1, <1>2, Left
<1> QED BY <1>3 DEF CalcInv, Told, Step

LEMMA OwnListed ==
  ASSUME Setups \subseteq Configurations, CalcInv, state = "finished",
         NEW f \in outcome.listed
  PROVE  files[f] = run \/ (silent /\ f \in Kappas /\ files[f] # 0)
<1>1. outcome.by = run /\ setup \in Configurations
  BY Reported, Chosen DEF CalcInv
<1>2. "core" \in PartNames /\ "core" \notin said
  BY DEF CalcInv, CalcTyped, PartNames
<1>3. ASSUME setup.backend # "real"
      PROVE  \E d \in done : d.name = f /\ f \notin {"FORCE_CONSTANTS", "fc2.txt"}
  <2>1. f \in DryListed \/ (setup.backend = "dummy" /\ f \in DummyListed)
    BY <1>1, <1>3 DEF CalcInv, Told, Configurations
  <2>2. Step("core", f) \in Entries(Plan(setup))
    BY <1>1, <1>3, <2>1, OtherPlans
  <2>3. f \notin Calls \cup {"FORCE_CONSTANTS", "fc2.txt"}
    BY <2>1 DEF DryListed, DummyListed, Calls
  <2>4. Step("core", f) \in done
    BY <1>2, <2>2, <2>3, Left
  <2> QED BY <2>3, <2>4 DEF Step
<1>4. ASSUME setup.backend = "real"
      PROVE  \E d \in done : d.name = f /\ f \notin {"FORCE_CONSTANTS", "fc2.txt"}
  <2>1. outcome.listed \subseteq {d.name : d \in done} \ Unlisted
    BY <1>1, <1>4 DEF CalcInv, Told
  <2> QED BY <2>1 DEF Unlisted
<1>5. PICK d \in done : d.name = f /\ f \notin {"FORCE_CONSTANTS", "fc2.txt"}
  BY <1>3, <1>4
<1>6. OwnFile(d)
  BY <1>5 DEF CalcInv, Own
<1> QED BY <1>5, <1>6 DEF OwnFile

(* A finished calculation lists no file that an earlier one left, but for  *)
(* the kappa file that a phono3py without output leads it to.              *)
THEOREM ListedFilesAreOwn == CalculationSpec => []ListsItsOwnFiles
<1> USE CalculationAssumption
<1>1. CalcInv => ListsItsOwnFiles
  BY OwnListed, Reported, CalcNames DEF ListsItsOwnFiles
<1> QED BY <1>1, CalcInvariance, PTL

(* What a finished real workflow has: the files of its core, and of every  *)
(* part it does not give a reason for.                                     *)
LEMMA CoreFiles ==
  ASSUME Setups \subseteq Configurations, CalcInv, state = "finished",
         setup.backend = "real"
  PROVE  /\ \A f \in Required : Step("core", f) \in done
         /\ setup.dos => Step("core", "phonon_dos.dat") \in done
<1>1. setup \in Configurations
  BY Chosen DEF CalcInv
<1>2. "core" \in PartNames /\ "core" \notin said
  BY DEF CalcInv, CalcTyped, PartNames
<1>3. /\ \A f \in Required : Step("core", f) \in Entries(Plan(setup))
      /\ setup.dos => Step("core", "phonon_dos.dat") \in Entries(Plan(setup))
  BY <1>1, RealPlan
<1>4. \A f \in Required \cup {"phonon_dos.dat"} : f \notin Calls
  BY DEF Required, Calls
<1> QED BY <1>2, <1>3, <1>4, Left

LEMMA PartFiles ==
  ASSUME Setups \subseteq Configurations, CalcInv, state = "finished",
         setup.backend = "real"
  PROVE  /\ setup.text # "no" /\ "text" \notin said =>
              /\ Step("text", "FORCE_CONSTANTS_2ND") \in done
              /\ setup.text = "default" => files["FORCE_CONSTANTS"] = 0
         /\ "velocity" \notin said => Step("velocity", "phonon_group_velocity.csv") \in done
         /\ setup.kappa # "no" /\ "thermal" \notin said =>
              /\ {Step("thermal", f) : f \in {"fc3.hdf5", "thermal_conductivity.csv"}} \subseteq done
              /\ \E k \in Kappas : Step("thermal", k) \in done
              /\ "lifetime" \in said \/ Step("thermal", "phonon_lifetime.csv") \in done
<1> DEFINE P == Entries(Plan(setup))
<1>1. setup \in Configurations
  BY Chosen DEF CalcInv
<1>2. /\ setup.text # "no" => {Step("text", "copy"), Step("text", "unlink")} \subseteq P
      /\ Step("velocity", "phonon_group_velocity.csv") \in P
      /\ setup.kappa # "no" => {Step("thermal", n) : n \in Reads} \subseteq P
  BY <1>1, RealPlan
<1>3. /\ {"text", "velocity", "thermal"} \subseteq PartNames
      /\ "phonon_group_velocity.csv" \notin Calls /\ "fc3.hdf5" \notin Calls
      /\ "thermal_conductivity.csv" \notin Calls
  BY DEF PartNames, Calls
<1>4. \A part, n : Step(part, n).part = part /\ Step(part, n).name = n
  BY DEF Step
<1>5. ASSUME setup.text # "no", "text" \notin said
      PROVE  /\ Step("text", "FORCE_CONSTANTS_2ND") \in done
             /\ setup.text = "default" => files["FORCE_CONSTANTS"] = 0
  <2>1. Settled(Step("text", "copy")) /\ Settled(Step("text", "unlink"))
    BY <1>2, <1>4, <1>5, Behind
  <2> QED BY <1>4, <2>1 DEF Settled
<1>6. "velocity" \notin said => Step("velocity", "phonon_group_velocity.csv") \in done
  BY <1>2, <1>3, Left
<1>7. ASSUME setup.kappa # "no", "thermal" \notin said
      PROVE  /\ {Step("thermal", f) : f \in {"fc3.hdf5", "thermal_conductivity.csv"}} \subseteq done
             /\ \E k \in Kappas : Step("thermal", k) \in done
             /\ "lifetime" \in said \/ Step("thermal", "phonon_lifetime.csv") \in done
  <2>1. /\ Step("thermal", "fc3.hdf5") \in P /\ Step("thermal", "thermal_conductivity.csv") \in P
        /\ Step("thermal", "select") \in P /\ Step("thermal", "lifetime") \in P
    BY <1>2, <1>7 DEF Reads
  <2>2. Step("thermal", "fc3.hdf5") \in done /\ Step("thermal", "thermal_conductivity.csv") \in done
    BY <1>3, <1>7, <2>1, Left
  <2>3. Settled(Step("thermal", "select")) /\ Settled(Step("thermal", "lifetime"))
    BY <1>4, <1>7, <2>1, Behind
  <2> QED BY <1>4, <2>2, <2>3 DEF Settled
<1> QED BY <1>5, <1>6, <1>7

(* Whatever was asked for is in the result, or the result says that it is  *)
(* not there.                                                              *)
THEOREM WhatIsMissingIsSaid == CalculationSpec => []NothingMissingUnsaid
<1> USE CalculationAssumption
<1>1. CalcInv => NothingMissingUnsaid
  <2> SUFFICES ASSUME CalcInv, state = "finished", setup.backend = "real"
               PROVE  NothingMissingUnsaid
    BY DEF NothingMissingUnsaid
  <2>1. outcome.by = run /\ outcome.said = said /\ outcome.thermal = ThermalStatus
    BY Reported DEF CalcInv, Told
  <2>2. \A d \in done : d.name \in outcome.listed \cup Unlisted
                        \/ d.name \in {"timing_breakdown.json", "summary.txt"}
    BY <2>1, InResult
  <2>3. \A part, n : Step(part, n) \in done => n \in outcome.listed \cup Unlisted
                        \/ n \in {"timing_breakdown.json", "summary.txt"}
    BY <2>2 DEF Step
  <2>4. /\ setup.dos => "phonon_dos.dat" \in outcome.listed
        /\ setup.text # "no" => "FORCE_CONSTANTS_2ND" \in outcome.listed \/ "text" \in said
        /\ "phonon_group_velocity.csv" \in outcome.listed \/ "velocity" \in said
    BY <2>3, CoreFiles, PartFiles DEF Unlisted
  <2>5. ASSUME setup.kappa # "no"
        PROVE  \/ "thermal" \in said /\ outcome.thermal = "failed"
               \/ /\ outcome.thermal = "completed"
                  /\ {"fc3.hdf5", "thermal_conductivity.csv"} \subseteq outcome.listed
                  /\ "phonon_lifetime.csv" \in outcome.listed \/ "lifetime" \in said
    <3>1. outcome.thermal = IF "thermal" \in said THEN "failed" ELSE "completed"
      BY <2>1, <2>5 DEF ThermalStatus
    <3>2. ASSUME "thermal" \notin said
          PROVE  /\ {"fc3.hdf5", "thermal_conductivity.csv"} \subseteq outcome.listed
                 /\ "phonon_lifetime.csv" \in outcome.listed \/ "lifetime" \in said
      BY <2>3, <2>5, <3>2, PartFiles DEF Unlisted
    <3> QED BY <3>1, <3>2
  <2> QED BY <2>1, <2>4, <2>5 DEF NothingMissingUnsaid, shengbte_fc2_name
<1> QED BY <1>1, CalcInvariance, PTL

(* The validator finds what it looks for after every finished real         *)
(* workflow, whatever was in the directory before.                         *)
THEOREM FinishedDirectoriesValidate == CalculationSpec => []FinishedRunsValidate
<1> USE CalculationAssumption
<1>1. CalcInv => FinishedRunsValidate
  <2> SUFFICES ASSUME CalcInv, state = "finished", setup.backend = "real",
                      setup.text \in {"no", "default"}, "text" \notin outcome.said
               PROVE  Validates
    BY DEF FinishedRunsValidate
  <2>1. outcome.by = run /\ outcome.said = said /\ outcome.thermal = ThermalStatus /\ run # 0
    BY Reported DEF CalcInv, Told, CalcTyped
  <2>2. ASSUME NEW part, NEW n, Step(part, n) \in done, n \notin {"FORCE_CONSTANTS", "fc2.txt"}
        PROVE  files[n] # 0
    <3>1. OwnFile(Step(part, n)) /\ Step(part, n).name = n
      BY <2>2 DEF CalcInv, Own, Step
    <3> QED BY <2>1, <2>2, <3>1 DEF OwnFile
  <2>3. \A f \in Required : files[f] # 0
    BY <2>2, CoreFiles DEF Required
  <2>4. \A f \in outcome.listed : files[f] # 0
    BY <2>1, OwnListed
  <2>5. setup.dos => files["phonon_dos.dat"] # 0
    BY <2>2, CoreFiles
  <2>6. ValidText
    <3>1. setup.text # "no" => files["FORCE_CONSTANTS"] = 0 /\ files["FORCE_CONSTANTS_2ND"] # 0
      BY <2>1, <2>2, PartFiles
    <3> QED BY <3>1 DEF ValidText, Exists, NoCalculation, shengbte_fc2_name
  <2>7. ValidThermal
    <3> SUFFICES ASSUME outcome.thermal = "completed"
                 PROVE  /\ files["fc3.hdf5"] # 0 /\ files["thermal_conductivity.csv"] # 0
                        /\ \E f \in outcome.listed \cap Kappas : files[f] # 0
      BY CalcNames DEF ValidThermal, Exists, NoCalculation
    <3>1. setup.kappa # "no" /\ "thermal" \notin said
      BY <2>1 DEF ThermalStatus
    <3>2. PICK k \in Kappas : Step("thermal", k) \in done
      BY <3>1, PartFiles
    <3>3. files["fc3.hdf5"] # 0 /\ files["thermal_conductivity.csv"] # 0
      BY <2>2, <3>1, PartFiles
    <3>4. files[k] # 0
      BY <2>2, <3>2 DEF Kappas
    <3>5. k \in outcome.listed
      <4>1. Step("thermal", k).name = k
        BY DEF Step
      <4>2. k \in outcome.listed \cup Unlisted
            \/ k \in {"timing_breakdown.json", "summary.txt"}
        BY <2>1, <3>2, <4>1, InResult
      <4> QED BY <4>2 DEF Kappas, Unlisted
    <3> QED BY <3>3, <3>4, <3>5
  <2>8. ValidVelocity
    BY <2>1, <2>2, PartFiles DEF ValidVelocity, Exists, NoCalculation
  <2> QED BY <2>3, <2>4, <2>5, <2>6, <2>7, <2>8 DEF Validates, Exists, NoCalculation
<1> QED BY <1>1, CalcInvariance, PTL
===============================================================================
