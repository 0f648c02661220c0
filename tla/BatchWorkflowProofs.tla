--------------------------- MODULE BatchWorkflowProofs ---------------------------
(***************************************************************************)
(* Theorems about batches, for any structures, names, options and number of*)
(* batches.  The inductive invariant says of the whole history of the      *)
(* output directory what the properties say of a batch that ended.         *)
(***************************************************************************)
EXTENDS BatchWorkflow, FiniteSetTheorems, TLAPS

N    == Cardinality(Structures)
Flow == Flows \cup {None}

InPhono3py   == {"phono3py", "leaving", "giving up"}
InThermal    == {"entering", "selecting"} \cup InPhono3py
AfterPhonons == InThermal \cup {"result", "stability", "result again"}
Places       == {"waiting", "phonons", "done"} \cup AfterPhonons

Contents == [phonons: Flow, kappa: Flow, result: Flow, torn: BOOLEAN, stability: Flow]
Row      == [status: {"none", "skipped", "failed", "success"}, outdir: Dirs, kappa: Flow]

(* The variables have their types.                                         *)
TypedDisk == disk \in [Dirs -> Contents]
TypedCall ==
  /\ input \in Inputs
  /\ cwd \in Dirs
  /\ batch \in 0 .. LastBatch
  /\ state \in {"none", "running", "ended", "killed"}
  /\ opts \in Options
TypedFlow ==
  /\ pc \in [Structures -> Places]
  /\ outdir \in [Structures -> Dirs]
  /\ old \in [Structures -> Dirs]
  /\ kappa \in [Structures -> Flow]
  /\ row \in [Structures -> Row]

(* There is a second for every structure that is still to begin.           *)
Timed ==
  /\ second \in Nat
  /\ state = "running" => batch > 0
  /\ state # "running" => Active = {}
  /\ second <= batch * N
  /\ state = "running" => \A s \in Structures :
       pc[s] = "waiting" => second + N < batch * N + s
  /\ \A s \in Structures : outdir[s][2] <= second

Typed == TypedDisk /\ TypedCall /\ TypedFlow /\ Timed

-------------------------------------------------------------------------------
LEMMA StructuresAreNumbered ==
  /\ N \in Nat /\ Structures = 1 .. N
  /\ \A s \in Structures : s \in Nat /\ 1 <= s /\ s <= N
  /\ LastBatch \in Nat
<1>1. N \in Nat
  BY BatchAssumption, FS_CardinalityType DEF N
<1>2. Structures = 1 .. N
  BY BatchAssumption DEF N
<1> QED BY <1>1, <1>2, BatchAssumption

LEMMA MoreBatchesMoreSeconds ==
  ASSUME NEW n \in Nat, NEW b \in Nat
  PROVE  b * n \in Nat /\ (b + 1) * n = b * n + n /\ 0 * n = 0
OBVIOUS

LEMMA FewerBatchesFewerSeconds ==
  ASSUME NEW n \in Nat, NEW b \in Nat, NEW c \in Nat, b <= c
  PROVE  b * n <= c * n
<1>1. PICK d \in Nat : c = b + d
  OBVIOUS
<1>2. c * n = b * n + d * n /\ d * n \in Nat /\ b * n \in Nat
  BY <1>1
<1> QED BY <1>2

LEMMA SecondsNameDirectories ==
  ASSUME TypedCall, NEW s \in Structures, NEW n \in Nat, n <= batch * N
  PROVE  <<input[s], n>> \in Dirs
<1>1. input[s] \in Stems
  BY DEF TypedCall, Stems
<1>2. batch \in Nat /\ LastBatch \in Nat /\ batch <= LastBatch /\ N \in Nat
  BY StructuresAreNumbered DEF TypedCall
<1>3. batch * N <= LastBatch * N /\ batch * N \in Nat /\ LastBatch * N \in Nat
  BY <1>2, FewerBatchesFewerSeconds, MoreBatchesMoreSeconds
<1>4. n \in Seconds
  BY <1>3 DEF Seconds, N
<1> QED BY <1>1, <1>4 DEF Dirs

LEMMA ChosenDirectories ==
  ASSUME TypedCall, NEW s \in Structures
  PROVE  OutdirFor(s) \in Dirs
<1>1. batch * N \in Nat
  BY StructuresAreNumbered, MoreBatchesMoreSeconds DEF TypedCall
<1> QED BY <1>1, SecondsNameDirectories DEF OutdirFor

LEMMA InitTyped == Init => Typed
<1> SUFFICES ASSUME Init PROVE Typed
  OBVIOUS
<1>1. Home \in Dirs /\ None \in Flow /\ Home[2] = 0
  BY DEF Dirs, Flow, Home
<1>2. TypedDisk
  BY <1>1 DEF Init, TypedDisk, EmptyDir, Contents
<1>3. TypedCall
  BY <1>1, StructuresAreNumbered, BatchAssumption DEF Init, TypedCall
<1>4. TypedFlow
  BY <1>1 DEF Init, TypedFlow, Places, NoRow, Row
<1>5. Timed
  BY <1>1, StructuresAreNumbered, MoreBatchesMoreSeconds DEF Init, Timed, Active
<1> QED BY <1>2, <1>3, <1>4, <1>5 DEF Typed

-------------------------------------------------------------------------------
(* What an action that lets one workflow take a step leaves alone.         *)
LEMMA WritingKeepsTyped ==
  ASSUME Typed, TypedDisk', NEW s \in Structures, NEW from \in Places, NEW to \in Places,
         from \notin {"waiting", "done"}, to # "waiting",
         pc[s] = from, pc' = [pc EXCEPT ![s] = to], state = "running",
         cwd' \in Dirs, old' \in [Structures -> Dirs], kappa' \in [Structures -> Flow],
         row' \in [Structures -> Row],
         UNCHANGED <<second, outdir, call>>
  PROVE  Typed'
<1>1. TypedCall' /\ TypedFlow'
  BY DEF Typed, TypedCall, TypedFlow, call
<1>2. Timed'
  BY DEF Typed, Timed, TypedFlow, call, Active
<1> QED BY <1>1, <1>2 DEF Typed

LEMMA CurrentFlow ==
  ASSUME Typed, state = "running", NEW s \in Structures
  PROVE  <<batch, s>> \in Flow /\ None \in Flow /\ batch \in Nat
BY StructuresAreNumbered DEF Typed, Timed, TypedCall, Flow, Flows

(* Only a running batch has workflows under way.                           *)
LEMMA ActiveRuns ==
  ASSUME Typed, NEW s \in Structures, pc[s] \notin {"waiting", "done"}
  PROVE  state = "running"
BY DEF Typed, Timed, Active

LEMMA WritingIsTyped ==
  ASSUME Typed, state = "running", NEW s \in Structures, NEW d \in Dirs
  PROVE  /\ [disk EXCEPT ![d].phonons = <<batch, s>>] \in [Dirs -> Contents]
         /\ [disk EXCEPT ![d].kappa = <<batch, s>>] \in [Dirs -> Contents]
         /\ [disk EXCEPT ![d].stability = <<batch, s>>] \in [Dirs -> Contents]
         /\ [disk EXCEPT ![d].result = <<batch, s>>, ![d].torn = FALSE] \in [Dirs -> Contents]
<1>1. <<batch, s>> \in Flow
  BY CurrentFlow
<1>2. disk \in [Dirs -> Contents]
  BY DEF Typed, TypedDisk
<1> QED BY <1>1, <1>2 DEF Contents

LEMMA ReportIsTyped ==
  ASSUME Typed, NEW s \in Structures, NEW dir \in Dirs, NEW k \in Flow,
         NEW status \in {"skipped", "failed", "success"}, Report(s, status, dir, k)
  PROVE  row' \in [Structures -> Row] /\ pc' = [pc EXCEPT ![s] = "done"]
BY DEF Typed, TypedFlow, Report, Row

LEMMA SkipKeepsTyped ==
  ASSUME Typed, NEW s \in Structures, SkipStructure(s) \/ ResumeStructure(s)
  PROVE  Typed'
<1>1. None \in Flow /\ OutdirFor(s) \in Dirs
  BY ChosenDirectories DEF Typed, Flow
<1>2. row' \in [Structures -> Row] /\ pc' = [pc EXCEPT ![s] = "done"]
  BY <1>1, ReportIsTyped DEF SkipStructure, ResumeStructure
<1>3. UNCHANGED <<disk, second, cwd, outdir, old, kappa, call>> /\ state = "running"
  BY DEF SkipStructure, ResumeStructure, MyTurn
<1>4. TypedDisk' /\ TypedCall' /\ TypedFlow'
  BY <1>2, <1>3 DEF Typed, TypedDisk, TypedCall, TypedFlow, call, Places
<1>5. Timed'
  BY <1>2, <1>3 DEF Typed, Timed, TypedFlow, call
<1> QED BY <1>4, <1>5 DEF Typed

LEMMA BeginKeepsTyped ==
  ASSUME Typed, NEW s \in Structures, Begin(s)
  PROVE  Typed'
<1>1. PICK n \in Nat : /\ outdir' = [outdir EXCEPT ![s] = <<input[s], n>>]
                       /\ n <= second + 1
                       /\ second' = IF n > second THEN n ELSE second
  <2>1. CASE outdir' = [outdir EXCEPT ![s] = OutdirFor(s)] /\ UNCHANGED second
    <3>1. second \in Nat /\ 0 \in Nat /\ ~(0 > second) /\ 0 <= second + 1
      BY DEF Typed, Timed
    <3>2. outdir' = [outdir EXCEPT ![s] = <<input[s], 0>>] /\ second' = second
      BY <2>1 DEF OutdirFor
    <3> QED BY <3>1, <3>2
  <2>2. CASE \E n \in NewSeconds : /\ outdir' = [outdir EXCEPT ![s] = <<input[s], n>>]
                                   /\ second' = IF n > second THEN n ELSE second
    <3>1. \A t \in Structures : outdir[t][2] \in Nat /\ outdir[t][2] <= second
      BY StructuresAreNumbered, MoreBatchesMoreSeconds
         DEF Typed, Timed, TypedFlow, Dirs, Home, Seconds, N
    <3>2. \A n \in NewSeconds : n \in Nat /\ n <= second + 1
      BY <3>1 DEF NewSeconds, Typed, Timed, Active
    <3> QED BY <2>2, <3>2
  <2> QED BY <2>1, <2>2 DEF Begin
<1>2. /\ state = "running" /\ pc[s] = "waiting"
      /\ \A t \in Structures : t < s => pc[t] # "waiting"
      /\ pc' = [pc EXCEPT ![s] = "phonons"]
      /\ UNCHANGED <<disk, cwd, old, kappa, row, call>>
  BY DEF Begin, MyTurn
<1>3. /\ second \in Nat /\ batch * N \in Nat /\ N \in Nat
      /\ second + N < batch * N + s /\ 1 <= s /\ s <= N /\ s \in Nat
  BY <1>2, StructuresAreNumbered, MoreBatchesMoreSeconds DEF Typed, Timed, TypedCall
<1>4. second' \in Nat /\ second' <= second + 1 /\ n <= second' /\ second <= second'
  BY <1>1, <1>3
<1>5. second + 1 <= batch * N
  BY <1>3
<1>6. <<input[s], n>> \in Dirs
  BY <1>1, <1>3, <1>5, SecondsNameDirectories DEF Typed
<1>7. TypedDisk' /\ TypedCall' /\ TypedFlow'
  BY <1>1, <1>2, <1>6 DEF Typed, TypedDisk, TypedCall, TypedFlow, call, Places
<1>8. Timed'
  <2>1. second' <= batch' * N
    BY <1>2, <1>3, <1>4, <1>5 DEF call
  <2>2. \A t \in Structures : pc'[t] = "waiting" => second' + N < batch' * N + t
    <3> SUFFICES ASSUME NEW t \in Structures, pc'[t] = "waiting"
                 PROVE  second' + N < batch * N + t
      BY <1>2 DEF call
    <3>1. t # s /\ pc[t] = "waiting" /\ ~(t < s)
      BY <1>2 DEF Typed, TypedFlow
    <3>2. s + 1 <= t /\ t \in Nat
      BY <3>1, <1>3, StructuresAreNumbered
    <3> QED BY <3>2, <1>3, <1>4
  <2>3. \A t \in Structures : outdir'[t][2] <= second'
    <3> SUFFICES ASSUME NEW t \in Structures PROVE outdir'[t][2] <= second'
      OBVIOUS
    <3>1. CASE t = s
      BY <3>1, <1>1, <1>4 DEF Typed, TypedFlow
    <3>2. CASE t # s
      <4>1. outdir'[t] = outdir[t] /\ outdir[t][2] <= second /\ outdir[t][2] \in Nat
        BY <3>2, <1>1, StructuresAreNumbered, MoreBatchesMoreSeconds
           DEF Typed, Timed, TypedFlow, Dirs, Home, Seconds, N
      <4> QED BY <4>1, <1>3, <1>4
    <3> QED BY <3>1, <3>2
  <2> QED BY <1>2, <1>4, <2>1, <2>2, <2>3 DEF Typed, Timed, call
<1> QED BY <1>7, <1>8 DEF Typed

LEMMA WorkflowKeepsTyped ==
  ASSUME Typed, NEW s \in Structures,
         \/ Phonons(s) \/ Enter(s) \/ Phono3py(s) \/ Leave(s) \/ Select(s)
         \/ WriteResult(s) \/ WriteStability(s) \/ Succeed(s) \/ Fail(s)
  PROVE  Typed'
<1> pc[s] \notin {"waiting", "done"}
  BY DEF Phonons, Enter, Phono3py, Leave, Select, WriteResult, WriteStability, Succeed, Fail, Goto
<1>1. /\ state = "running" /\ pc[s] \in Places
      /\ outdir[s] \in Dirs /\ old[s] \in Dirs /\ cwd \in Dirs /\ kappa[s] \in Flow
      /\ disk \in [Dirs -> Contents] /\ None \in Flow
  BY ActiveRuns, CurrentFlow DEF Typed, TypedFlow, TypedCall, TypedDisk
<1>2. cwd' \in Dirs /\ UNCHANGED <<second, outdir, call>>
  BY <1>1 DEF Phonons, Enter, Phono3py, Leave, Select, WriteResult, WriteStability, Succeed, Fail, Goto
<1>3. TypedDisk'
  <2>1. [disk EXCEPT ![outdir[s]].phonons = <<batch, s>>] \in [Dirs -> Contents]
    BY <1>1, WritingIsTyped
  <2>2. [disk EXCEPT ![cwd].kappa = <<batch, s>>] \in [Dirs -> Contents]
    BY <1>1, WritingIsTyped
  <2>3. [disk EXCEPT ![outdir[s]].stability = <<batch, s>>] \in [Dirs -> Contents]
    BY <1>1, WritingIsTyped
  <2>4. [disk EXCEPT ![outdir[s]].result = <<batch, s>>, ![outdir[s]].torn = FALSE] \in [Dirs -> Contents]
    BY <1>1, WritingIsTyped
  <2>5. \/ disk' = disk
        \/ disk' = [disk EXCEPT ![outdir[s]].phonons = <<batch, s>>]
        \/ disk' = [disk EXCEPT ![cwd].kappa = <<batch, s>>]
        \/ disk' = [disk EXCEPT ![outdir[s]].stability = <<batch, s>>]
        \/ disk' = [disk EXCEPT ![outdir[s]].result = <<batch, s>>, ![outdir[s]].torn = FALSE]
    BY Zenon DEF Phonons, Enter, Phono3py, Leave, Select, WriteResult, WriteStability, Succeed, Fail
  <2> QED BY <1>1, <2>1, <2>2, <2>3, <2>4, <2>5 DEF TypedDisk
<1>4. old' \in [Structures -> Dirs]
  <2>1. \/ old' = old \/ old' = [old EXCEPT ![s] = cwd] \/ old' = [old EXCEPT ![s] = Home]
    BY Zenon DEF Phonons, Enter, Phono3py, Leave, Select, WriteResult, WriteStability, Succeed, Fail
  <2> QED BY <1>1, <2>1 DEF Typed, TypedFlow, Dirs
<1>5. kappa' \in [Structures -> Flow]
  BY <1>1 DEF Typed, TypedFlow, TypedDisk, Contents, Phonons, Enter, Phono3py, Leave, Select,
              WriteResult, WriteStability, Succeed, Fail
<1>6. row' \in [Structures -> Row] /\ \E to \in Places \ {"waiting"} : pc' = [pc EXCEPT ![s] = to]
  <2>1. CASE Succeed(s) \/ Fail(s)
    <3>1. OutdirFor(s) \in Dirs
      BY ChosenDirectories DEF Typed
    <3>2. row' \in [Structures -> Row] /\ pc' = [pc EXCEPT ![s] = "done"]
      BY <2>1, <3>1, <1>1, ReportIsTyped DEF Succeed, Fail
    <3> QED BY <3>2 DEF Places
  <2>2. CASE ~(Succeed(s) \/ Fail(s))
    <3>1. row' = row
      BY <2>2 DEF Phonons, Enter, Phono3py, Leave, Select, WriteResult, WriteStability
    <3>2. \E to \in Places \ {"waiting"} : pc' = [pc EXCEPT ![s] = to]
      BY <2>2 DEF Phonons, Enter, Phono3py, Leave, Select, WriteResult, WriteStability, Goto,
                  Places, AfterPhonons, InThermal, InPhono3py
    <3> QED BY <3>1, <3>2 DEF Typed, TypedFlow
  <2> QED BY <2>1, <2>2
<1> QED BY <1>1, <1>2, <1>3, <1>4, <1>5, <1>6, WritingKeepsTyped

LEMMA StartKeepsTyped ==
  ASSUME Typed, NEW o \in Options, StartBatch(o)
  PROVE  Typed'
<1>1. Home \in Dirs /\ None \in Flow /\ Home[2] = 0
  BY DEF Dirs, Flow, Home
<1>2. /\ batch \in Nat /\ batch' = batch + 1 /\ batch' \in 0 .. LastBatch
      /\ state' = "running" /\ opts' = o /\ UNCHANGED <<input, disk, second>>
      /\ pc' = [t \in Structures |-> "waiting"] /\ outdir' = [t \in Structures |-> Home]
  BY StructuresAreNumbered DEF StartBatch, NewProcess, Typed, TypedCall
<1>3. TypedDisk' /\ TypedCall'
  BY <1>1, <1>2 DEF StartBatch, NewProcess, Typed, TypedDisk, TypedCall
<1>4. TypedFlow'
  BY <1>1, <1>2 DEF StartBatch, NewProcess, TypedFlow, Places, NoRow, Row
<1>5. /\ batch' * N = batch * N + N /\ batch * N \in Nat /\ N \in Nat
      /\ second \in Nat /\ second <= batch * N
  BY <1>2, StructuresAreNumbered, MoreBatchesMoreSeconds DEF Typed, Timed
<1>6. \A s \in Structures : second' + N < batch' * N + s
  BY <1>2, <1>5, StructuresAreNumbered
<1>7. \A s \in Structures : outdir'[s][2] <= second'
  BY <1>1, <1>2, <1>5
<1>8. Timed'
  BY <1>2, <1>5, <1>6, <1>7 DEF Timed
<1> QED BY <1>3, <1>4, <1>8 DEF Typed

LEMMA EndKeepsTyped ==
  ASSUME Typed, EndBatch
  PROVE  Typed'
<1>1. TypedDisk' /\ TypedCall' /\ TypedFlow'
  BY DEF EndBatch, Typed, TypedDisk, TypedCall, TypedFlow, flow
<1>2. Timed'
  BY DEF EndBatch, Typed, Timed, flow, Active
<1> QED BY <1>1, <1>2 DEF Typed

LEMMA KillKeepsTyped ==
  ASSUME Typed, KillBatch
  PROVE  Typed'
<1>1. /\ state = "running" /\ state' = "killed" /\ NewProcess
      /\ UNCHANGED <<input, second, batch, opts>>
  BY DEF KillBatch
<1>2. PICK cut \in SUBSET Structures :
        disk' = [d \in Dirs |->
          IF \E s \in cut : outdir[s] = d
          THEN [disk[d] EXCEPT !.result = <<batch, CHOOSE s \in cut : outdir[s] = d>>, !.torn = TRUE]
          ELSE disk[d]]
  BY DEF KillBatch
<1>3. TypedDisk'
  <2>1. \A d \in Dirs : disk'[d] \in Contents
    <3> SUFFICES ASSUME NEW d \in Dirs PROVE disk'[d] \in Contents
      OBVIOUS
    <3>1. disk[d] \in Contents
      BY DEF Typed, TypedDisk
    <3>2. CASE \E s \in cut : outdir[s] = d
      <4> DEFINE w == CHOOSE s \in cut : outdir[s] = d
      <4>1. w \in Structures
        BY <3>2
      <4>2. <<batch, w>> \in Flow
        BY <1>1, <4>1, CurrentFlow
      <4>3. disk'[d] = [disk[d] EXCEPT !.result = <<batch, w>>, !.torn = TRUE]
        BY <1>2, <3>2
      <4> HIDE DEF w
      <4> QED BY <3>1, <4>2, <4>3 DEF Contents
    <3> QED BY <1>2, <3>1, <3>2
  <2> QED BY <1>2, <2>1 DEF TypedDisk
<1>4. Home \in Dirs /\ None \in Flow /\ Home[2] = 0
  BY DEF Dirs, Flow, Home
<1>5. TypedCall' /\ TypedFlow'
  BY <1>1, <1>4 DEF Typed, TypedCall, TypedFlow, NewProcess, Places, NoRow, Row
<1>6. Timed'
  BY <1>1, <1>4 DEF Typed, Timed, NewProcess, Active
<1> QED BY <1>3, <1>5, <1>6 DEF Typed

LEMMA NextKeepsTyped ==
  ASSUME Typed, [Next]_vars
  PROVE  Typed'
<1>1. CASE UNCHANGED vars
  BY <1>1 DEF Typed, TypedDisk, TypedCall, TypedFlow, Timed, Active, vars
<1>2. CASE \E s \in Structures : SkipStructure(s) \/ ResumeStructure(s) \/ Begin(s)
  BY <1>2, SkipKeepsTyped, BeginKeepsTyped
<1>3. CASE \E s \in Structures :
             \/ Phonons(s) \/ Enter(s) \/ Phono3py(s) \/ Leave(s) \/ Select(s)
             \/ WriteResult(s) \/ WriteStability(s) \/ Succeed(s) \/ Fail(s)
  BY <1>3, WorkflowKeepsTyped
<1>4. CASE \E o \in Options : StartBatch(o)
  BY <1>4, StartKeepsTyped
<1> QED BY <1>1, <1>2, <1>3, <1>4, EndKeepsTyped, KillKeepsTyped DEF Next, Rest

-------------------------------------------------------------------------------
(* The conductivity.  Without threads, or without conductivities, at most  *)
(* one workflow is in its thermal stage; the working directory is then its *)
(* own while phono3py runs, and otherwise the one the process started in.  *)
Alone     == ~MayMeet(opts)
Single    == \A s, t \in Active : s = t
Own(s, k) ==
  \/ k \in {None, <<batch, s>>}
  \/ s \in silent /\ (met \/ input[k[2]] = input[s])

InOwnDirectory(s) ==
  /\ pc[s] \in InPhono3py => cwd = outdir[s] /\ old[s] = Home
  /\ pc[s] \in {"leaving", "selecting"} => disk[outdir[s]].kappa = <<batch, s>> \/ s \in silent
  /\ Own(s, kappa[s]) /\ Own(s, row[s].kappa)

Conducting ==
  state \in {"running", "ended"} /\ Alone =>
    /\ IF opts.kappa THEN Single ELSE \A s \in Structures : pc[s] \notin InThermal
    /\ (\A s \in Structures : pc[s] \notin InPhono3py) => cwd = Home
    /\ \A s \in Structures : InOwnDirectory(s)

(* As long as no threads could meet, a kappa file lies in a directory that *)
(* has the name of the structure it was computed from.                     *)
Labelled ==
  /\ state = "running" /\ MayMeet(opts) => met
  /\ \A s \in Active : outdir[s][1] = input[s]
  /\ ~met => \A d \in Dirs : disk[d].kappa # None => input[disk[d].kappa[2]] = d[1]

LEMMA OneAtATime ==
  ASSUME Typed, NEW s \in Structures, MyTurn(s), opts.max_workers = 1
  PROVE  Active = {}
<1>1. IsFiniteSet(Active)
  BY BatchAssumption, FS_Subset DEF Active
<1>2. Cardinality(Active) \in Nat /\ Cardinality(Active) < 1
  BY <1>1, FS_CardinalityType DEF MyTurn
<1>3. Cardinality(Active) = 0
  BY <1>2
<1> QED BY <1>1, <1>3, FS_EmptySet

LEMMA KappaIsAFlag ==
  Typed => opts.kappa \in BOOLEAN /\ (Alone => opts.max_workers = 1 \/ ~opts.kappa)
BY BatchAssumption DEF Typed, TypedCall, Alone, MayMeet

LEMMA BeginKeepsConducting ==
  ASSUME Typed, Conducting, NEW s \in Structures, SkipStructure(s) \/ ResumeStructure(s) \/ Begin(s)
  PROVE  Conducting'
<1> SUFFICES ASSUME Alone
             PROVE  Conducting'
  BY DEF Conducting, Alone, MayMeet, SkipStructure, ResumeStructure, Begin, call
<1>1. /\ state = "running" /\ pc[s] = "waiting" /\ MyTurn(s)
      /\ UNCHANGED <<disk, cwd, old, kappa, silent, call>>
  BY DEF SkipStructure, ResumeStructure, Begin, MyTurn
<1>2. \E to \in {"phonons", "done"} : pc' = [pc EXCEPT ![s] = to]
  BY DEF SkipStructure, ResumeStructure, Begin, Report
<1>3. /\ \A t \in Structures : t # s => pc'[t] = pc[t] /\ outdir'[t] = outdir[t] /\ row'[t] = row[t]
      /\ pc'[s] \in {"phonons", "done"}
      /\ Own(s, row[s].kappa) => Own(s, row'[s].kappa)
  BY <1>2 DEF Typed, TypedFlow, SkipStructure, ResumeStructure, Begin, Report, Own
<1>4. IF opts.kappa THEN Single' ELSE \A t \in Structures : pc'[t] \notin InThermal
  <2>1. CASE opts.kappa
    <3>1. Active = {}
      BY <2>1, <1>1, OneAtATime, KappaIsAFlag
    <3> QED BY <2>1, <3>1, <1>3 DEF Single, Active
  <2>2. CASE ~opts.kappa
    BY <2>2, <1>1, <1>3 DEF Conducting, InThermal, InPhono3py
  <2> QED BY <2>1, <2>2
<1>5. (\A t \in Structures : pc'[t] \notin InPhono3py) => cwd' = Home
  BY <1>1, <1>3 DEF Conducting, InPhono3py
<1>6. \A t \in Structures : InOwnDirectory(t)'
  <2> SUFFICES ASSUME NEW t \in Structures PROVE InOwnDirectory(t)'
    OBVIOUS
  <2>1. InOwnDirectory(t)
    BY <1>1 DEF Conducting
  <2>2. CASE t = s
    BY <2>1, <2>2, <1>1, <1>3 DEF InOwnDirectory, InPhono3py, Own, call
  <2>3. CASE t # s
    BY <2>1, <2>3, <1>1, <1>3 DEF InOwnDirectory, Own, call
  <2> QED BY <2>2, <2>3
<1> QED BY <1>1, <1>4, <1>5, <1>6 DEF Conducting, call

(* With conductivities a step belongs to the only workflow under way.      *)
LEMMA OnlyOne ==
  ASSUME Typed, Conducting, Alone, NEW s \in Structures, pc[s] \notin {"waiting", "done"}, opts.kappa
  PROVE  \A t \in Structures : t # s => pc[t] \in {"waiting", "done"}
<1>1. state = "running"
  BY ActiveRuns
<1> QED BY <1>1 DEF Conducting, Single, Active

LEMMA KappaFilesStay ==
  ASSUME Typed, NEW e \in Dirs, NEW w, NEW d \in Dirs
  PROVE  /\ [disk EXCEPT ![e].phonons = w][d].kappa = disk[d].kappa
         /\ [disk EXCEPT ![e].result = w, ![e].torn = FALSE][d].kappa = disk[d].kappa
         /\ [disk EXCEPT ![e].stability = w][d].kappa = disk[d].kappa
<1>1. disk \in [Dirs -> Contents]
  BY DEF Typed, TypedDisk
<1>2. CASE d # e
  BY <1>1, <1>2
<1>3. CASE d = e
  BY <1>1, <1>3 DEF Contents
<1> QED BY <1>2, <1>3

LEMMA OutsideNoKappaFile ==
  ASSUME Typed, NEW s \in Structures,
         \/ Phonons(s) \/ WriteResult(s) \/ WriteStability(s) \/ Succeed(s) \/ Fail(s)
  PROVE  \A d \in Dirs : disk'[d].kappa = disk[d].kappa
<1>1. outdir[s] \in Dirs
  BY DEF Typed, TypedFlow
<1>2. \/ disk' = disk
      \/ disk' = [disk EXCEPT ![outdir[s]].phonons = <<batch, s>>]
      \/ disk' = [disk EXCEPT ![outdir[s]].result = <<batch, s>>, ![outdir[s]].torn = FALSE]
      \/ disk' = [disk EXCEPT ![outdir[s]].stability = <<batch, s>>]
  BY DEF Phonons, WriteResult, WriteStability, Succeed, Fail
<1>3. \A d \in Dirs :
        /\ [disk EXCEPT ![outdir[s]].phonons = <<batch, s>>][d].kappa = disk[d].kappa
        /\ [disk EXCEPT ![outdir[s]].result = <<batch, s>>, ![outdir[s]].torn = FALSE][d].kappa
             = disk[d].kappa
        /\ [disk EXCEPT ![outdir[s]].stability = <<batch, s>>][d].kappa = disk[d].kappa
  BY <1>1, KappaFilesStay
<1> QED BY <1>2, <1>3, Zenon

(* A step outside of the thermal stage, or one that ends in a row.         *)
LEMMA OutsideKeepsConducting ==
  ASSUME Typed, Conducting, NEW s \in Structures,
         \/ Phonons(s) \/ WriteResult(s) \/ WriteStability(s) \/ Succeed(s) \/ Fail(s)
  PROVE  Conducting'
<1> SUFFICES ASSUME Alone
             PROVE  Conducting'
  BY DEF Conducting, Alone, MayMeet, Phonons, WriteResult, WriteStability, Succeed, Fail, call
<1>1. /\ pc[s] \in {"phonons", "result", "stability", "result again"}
      /\ UNCHANGED <<cwd, old, kappa, outdir, silent, call>>
  BY DEF Phonons, WriteResult, WriteStability, Succeed, Fail, Goto
<1>2. state = "running" /\ Own(s, kappa[s]) /\ Own(s, row[s].kappa)
  BY <1>1, ActiveRuns DEF Conducting, InOwnDirectory
<1>3. /\ \A t \in Structures : t # s => pc'[t] = pc[t] /\ row'[t] = row[t]
      /\ pc'[s] \in {"result", "stability", "result again", "done"} \cup
                    (IF opts.kappa THEN {"entering"} ELSE {})
      /\ Own(s, row'[s].kappa)
  <2>1. CASE Succeed(s) \/ Fail(s)
    <3>1. \E status, dir : \E k \in {kappa[s], None} : Report(s, status, dir, k)
      BY <2>1 DEF Succeed, Fail
    <3> QED BY <3>1, <1>2 DEF Typed, TypedFlow, Report, Own
  <2>2. CASE Phonons(s) \/ WriteResult(s) \/ WriteStability(s)
    BY <2>2, <1>2 DEF Typed, TypedFlow, Phonons, WriteResult, WriteStability, Goto
  <2> QED BY <2>1, <2>2
<1>4. \A d \in Dirs : disk'[d].kappa = disk[d].kappa
  BY OutsideNoKappaFile
<1>5. \A t \in Structures : outdir[t] \in Dirs
  BY DEF Typed, TypedFlow
<1>6. IF opts.kappa THEN Single' ELSE \A t \in Structures : pc'[t] \notin InThermal
  <2>1. CASE opts.kappa
    BY <2>1, <1>1, <1>3, OnlyOne DEF Single, Active
  <2>2. CASE ~opts.kappa
    BY <2>2, <1>2, <1>3 DEF Conducting, InThermal, InPhono3py
  <2> QED BY <2>1, <2>2
<1>7. (\A t \in Structures : pc'[t] \notin InPhono3py) => cwd' = Home
  BY <1>1, <1>2, <1>3 DEF Conducting, InPhono3py
<1>8. \A t \in Structures : InOwnDirectory(t)'
  <2> SUFFICES ASSUME NEW t \in Structures PROVE InOwnDirectory(t)'
    OBVIOUS
  <2>1. InOwnDirectory(t)
    BY <1>2 DEF Conducting
  <2>2. CASE t = s
    BY <2>1, <2>2, <1>1, <1>2, <1>3 DEF InOwnDirectory, InPhono3py, Own, call
  <2>3. CASE t # s
    BY <2>1, <2>3, <1>1, <1>3, <1>4, <1>5 DEF InOwnDirectory, Own, call
  <2> QED BY <2>2, <2>3
<1> QED BY <1>1, <1>6, <1>7, <1>8 DEF Conducting, call

LEMMA ThermalKeepsConducting ==
  ASSUME Typed, Conducting, Labelled, NEW s \in Structures,
         \/ Enter(s) \/ Phono3py(s) \/ Leave(s) \/ Select(s)
  PROVE  Conducting'
<1> SUFFICES ASSUME Alone
             PROVE  Conducting'
  BY DEF Conducting, Alone, MayMeet, Enter, Phono3py, Leave, Select, call
<1>1. /\ pc[s] \in InThermal /\ pc[s] \notin {"waiting", "done"}
      /\ UNCHANGED <<outdir, row, call>>
  BY DEF Enter, Phono3py, Leave, Select, Goto, InThermal, InPhono3py
<1>2. state = "running" /\ InOwnDirectory(s) /\ opts.kappa
  BY <1>1, ActiveRuns, KappaIsAFlag DEF Conducting
<1>3. \A t \in Structures : t # s => pc[t] \in {"waiting", "done"}
  BY <1>1, <1>2, OnlyOne
<1>4. /\ pc[s] \notin InPhono3py => cwd = Home
      /\ outdir[s] \in Dirs /\ cwd \in Dirs /\ disk \in [Dirs -> Contents]
  BY <1>2, <1>3 DEF Conducting, InPhono3py, Typed, TypedFlow, TypedCall, TypedDisk
<1>5. /\ pc'[s] \in InThermal \cup {"result"}
      /\ pc'[s] \notin InPhono3py => cwd' = Home
      /\ pc'[s] \in InPhono3py => cwd' = outdir[s] /\ old'[s] = Home
      /\ pc'[s] \in {"leaving", "selecting"} => disk'[outdir[s]].kappa = <<batch, s>> \/ s \in silent'
      /\ Own(s, kappa'[s])
      /\ silent' \in {silent, silent \cup {s}}
  <2>1. CASE Enter(s)
    BY <2>1, <1>2, <1>4 DEF Enter, Goto, Typed, TypedFlow, InOwnDirectory, InThermal, InPhono3py
  <2>2. CASE Phono3py(s)
    <3>1. cwd = outdir[s] /\ old[s] = Home
      BY <2>2, <1>2 DEF Phono3py, Goto, InOwnDirectory, InPhono3py
    <3>2. [disk EXCEPT ![cwd].kappa = <<batch, s>>][cwd].kappa = <<batch, s>>
      BY <1>4 DEF Contents
    <3>3. /\ UNCHANGED <<cwd, old, kappa>> /\ pc'[s] \in {"leaving", "giving up"}
          /\ pc'[s] = "leaving" => \/ disk' = [disk EXCEPT ![cwd].kappa = <<batch, s>>]
                                   \/ s \in silent'
          /\ silent' \in {silent, silent \cup {s}}
      BY <2>2 DEF Phono3py, Goto, Typed, TypedFlow
    <3> QED BY <3>1, <3>2, <3>3, <1>2 DEF InThermal, InPhono3py, InOwnDirectory
  <2>3. CASE Leave(s)
    BY <2>3, <1>2 DEF Leave, Goto, Typed, TypedFlow, InOwnDirectory, InThermal, InPhono3py
  <2>4. CASE Select(s)
    <3>1. disk[outdir[s]].kappa = <<batch, s>> \/ s \in silent
      BY <2>4, <1>2 DEF Select, Goto, InOwnDirectory
    <3>2. pc[s] = "selecting" /\ pc'[s] = "result" /\ UNCHANGED <<disk, cwd, old, silent>>
          /\ kappa'[s] = disk[outdir[s]].kappa
      BY <2>4 DEF Select, Goto, Typed, TypedFlow
    <3>3. outdir[s][1] = input[s]
      BY <1>1 DEF Labelled, Active
    <3>4. Own(s, disk[outdir[s]].kappa)
      BY <3>1, <3>3, <1>4 DEF Labelled, Own
    <3> QED BY <3>2, <3>4, <1>4 DEF InThermal, InPhono3py
  <2> QED BY <2>1, <2>2, <2>3, <2>4
<1>6. \A t \in Structures : t # s => pc'[t] = pc[t] /\ kappa'[t] = kappa[t]
  BY DEF Typed, TypedFlow, Enter, Phono3py, Leave, Select, Goto
<1>7. Single'
  BY <1>3, <1>6 DEF Single, Active
<1>8. (\A t \in Structures : pc'[t] \notin InPhono3py) => cwd' = Home
  BY <1>5
<1>9. \A t \in Structures : InOwnDirectory(t)'
  <2> SUFFICES ASSUME NEW t \in Structures PROVE InOwnDirectory(t)'
    OBVIOUS
  <2>1. CASE t = s
    <3>1. /\ row'[s].kappa = row[s].kappa /\ batch' = batch /\ met' = met /\ input' = input
          /\ outdir'[s] = outdir[s] /\ (s \in silent => s \in silent')
      BY <1>1, <1>5 DEF call
    <3>2. Own(s, row[s].kappa)'
      BY <3>1, <1>2 DEF InOwnDirectory, Own
    <3>3. Own(s, kappa[s])'
      BY <3>1, <1>5 DEF Own
    <3> QED BY <2>1, <3>1, <3>2, <3>3, <1>5 DEF InOwnDirectory
  <2>2. CASE t # s
    <3>1. InOwnDirectory(t)
      BY <1>2 DEF Conducting
    <3>2. pc'[t] \notin InPhono3py /\ pc'[t] \notin {"leaving", "selecting"}
      BY <2>2, <1>3, <1>6 DEF InPhono3py
    <3> QED BY <2>2, <3>1, <3>2, <1>1, <1>5, <1>6 DEF InOwnDirectory, Own, call
  <2> QED BY <2>1, <2>2
<1> QED BY <1>1, <1>2, <1>7, <1>8, <1>9 DEF Conducting, call

LEMMA StartKeepsConducting ==
  ASSUME Typed, NEW o \in Options, StartBatch(o)
  PROVE  Conducting'
<1>1. /\ cwd' = Home
      /\ \A s \in Structures : pc'[s] = "waiting" /\ kappa'[s] = None /\ row'[s].kappa = None
  BY DEF StartBatch, NewProcess, NoRow
<1> QED BY <1>1 DEF Conducting, Single, Active, InOwnDirectory, Own, InThermal, InPhono3py

LEMMA NextKeepsConducting ==
  ASSUME Typed, Conducting, Labelled, [Next]_vars
  PROVE  Conducting'
<1>1. CASE UNCHANGED vars
  BY <1>1 DEF Conducting, Alone, MayMeet, Single, Active, InOwnDirectory, Own, vars
<1>2. CASE EndBatch
  BY <1>2 DEF EndBatch, Conducting, Alone, MayMeet, Single, Active, InOwnDirectory, Own, flow
<1>3. CASE KillBatch
  BY <1>3 DEF KillBatch, Conducting
<1>4. CASE \E o \in Options : StartBatch(o)
  BY <1>4, StartKeepsConducting
<1>5. CASE \E s \in Structures : SkipStructure(s) \/ ResumeStructure(s) \/ Begin(s)
  BY <1>5, BeginKeepsConducting
<1>6. CASE \E s \in Structures :
             \/ Phonons(s) \/ WriteResult(s) \/ WriteStability(s) \/ Succeed(s) \/ Fail(s)
  BY <1>6, OutsideKeepsConducting
<1>7. CASE \E s \in Structures : Enter(s) \/ Phono3py(s) \/ Leave(s) \/ Select(s)
  BY <1>7, ThermalKeepsConducting
<1> QED BY <1>1, <1>2, <1>3, <1>4, <1>5, <1>6, <1>7 DEF Next, Rest

(* A step that writes no kappa file and stays in its directory.            *)
LEMMA StayingKeepsLabelled ==
  ASSUME Typed, Labelled, NEW s \in Structures, pc[s] \notin {"waiting", "done"},
         \A t \in Structures : t # s => pc'[t] = pc[t],
         \A d \in Dirs : disk'[d].kappa = disk[d].kappa, UNCHANGED <<outdir, call>>
  PROVE  Labelled'
BY DEF Labelled, Active, MayMeet, call

LEMMA BeginKeepsLabelled ==
  ASSUME Typed, Labelled, NEW s \in Structures, SkipStructure(s) \/ ResumeStructure(s) \/ Begin(s)
  PROVE  Labelled'
<1>1. UNCHANGED <<disk, call>> /\ \A t \in Structures : t # s => pc'[t] = pc[t] /\ outdir'[t] = outdir[t]
  BY DEF Typed, TypedFlow, SkipStructure, ResumeStructure, Begin, Report
<1>2. s \in Active' => outdir'[s][1] = input[s]
  <2>1. CASE Begin(s)
    <3>1. \E n : outdir' = [outdir EXCEPT ![s] = <<input[s], n>>]
      BY <2>1 DEF Begin, OutdirFor
    <3> QED BY <3>1 DEF Typed, TypedFlow
  <2>2. CASE SkipStructure(s) \/ ResumeStructure(s)
    BY <2>2 DEF Typed, TypedFlow, SkipStructure, ResumeStructure, Report, Active
  <2> QED BY <2>1, <2>2
<1> QED BY <1>1, <1>2 DEF Labelled, Active, MayMeet, call

LEMMA WorkflowKeepsLabelled ==
  ASSUME Typed, Conducting, Labelled, NEW s \in Structures,
         \/ Phonons(s) \/ Enter(s) \/ Phono3py(s) \/ Leave(s) \/ Select(s)
         \/ WriteResult(s) \/ WriteStability(s) \/ Succeed(s) \/ Fail(s)
  PROVE  Labelled'
<1>1. /\ pc[s] \notin {"waiting", "done"} /\ UNCHANGED <<outdir, call>>
      /\ \A t \in Structures : t # s => pc'[t] = pc[t]
  BY DEF Typed, TypedFlow, Phonons, Enter, Phono3py, Leave, Select, WriteResult, WriteStability,
         Succeed, Fail, Goto, Report
<1>2. CASE Phonons(s) \/ WriteResult(s) \/ WriteStability(s) \/ Succeed(s) \/ Fail(s)
  BY <1>1, <1>2, OutsideNoKappaFile, StayingKeepsLabelled
<1>3. CASE UNCHANGED disk
  BY <1>1, <1>3, StayingKeepsLabelled
<1>4. CASE Phono3py(s) /\ disk' = [disk EXCEPT ![cwd].kappa = <<batch, s>>]
  <2>1. /\ pc[s] = "phono3py" /\ state = "running" /\ outdir[s][1] = input[s]
        /\ cwd \in Dirs /\ disk \in [Dirs -> Contents]
    BY <1>1, <1>4, ActiveRuns DEF Phono3py, Goto, Labelled, Active, Typed, TypedCall, TypedDisk
  <2>2. ~met => cwd = outdir[s]
    BY <2>1 DEF Labelled, Conducting, Alone, InOwnDirectory, InPhono3py
  <2>3. \A d \in Dirs : IF d = cwd THEN disk'[d].kappa = <<batch, s>> ELSE disk'[d].kappa = disk[d].kappa
    BY <1>4, <2>1 DEF Contents
  <2>4. ~met => \A d \in Dirs : disk'[d].kappa # None => input[disk'[d].kappa[2]] = d[1]
    BY <2>1, <2>2, <2>3 DEF Labelled
  <2> QED BY <1>1, <2>4 DEF Labelled, Active, MayMeet, call
<1> QED BY <1>2, <1>3, <1>4 DEF Enter, Phono3py, Leave, Select

LEMMA KillKeepsLabelled ==
  ASSUME Typed, Labelled, KillBatch
  PROVE  Labelled'
<1>1. \A d \in Dirs : disk'[d].kappa = disk[d].kappa
  <2> SUFFICES ASSUME NEW d \in Dirs PROVE disk'[d].kappa = disk[d].kappa
    OBVIOUS
  <2>1. disk[d] \in Contents
    BY DEF Typed, TypedDisk
  <2>2. disk'[d] = disk[d] \/ \E w : disk'[d] = [disk[d] EXCEPT !.result = w, !.torn = TRUE]
    BY DEF KillBatch
  <2> QED BY <2>1, <2>2 DEF Contents
<1> QED BY <1>1 DEF KillBatch, NewProcess, Labelled, Active

LEMMA NextKeepsLabelled ==
  ASSUME Typed, Conducting, Labelled, [Next]_vars
  PROVE  Labelled'
<1>1. CASE UNCHANGED vars
  BY <1>1 DEF Labelled, Active, MayMeet, vars
<1>2. CASE EndBatch
  BY <1>2 DEF EndBatch, Labelled, Active, flow
<1>3. CASE \E o \in Options : StartBatch(o)
  BY <1>3 DEF StartBatch, NewProcess, Labelled, Active, MayMeet
<1>4. CASE \E s \in Structures : SkipStructure(s) \/ ResumeStructure(s) \/ Begin(s)
  BY <1>4, BeginKeepsLabelled
<1>5. CASE \E s \in Structures :
             \/ Phonons(s) \/ Enter(s) \/ Phono3py(s) \/ Leave(s) \/ Select(s)
             \/ WriteResult(s) \/ WriteStability(s) \/ Succeed(s) \/ Fail(s)
  BY <1>5, WorkflowKeepsLabelled
<1> QED BY <1>1, <1>2, <1>3, <1>4, <1>5, KillKeepsLabelled DEF Next, Rest

(* A batch in which no workflows can meet in their thermal stages ends in  *)
(* the working directory it started in, and reports of every structure the *)
(* conductivity that phono3py computed for it in this batch, or none, even *)
(* when calls raise and batches are killed.  When phono3py returned for a  *)
(* structure without having written, it may report that of an older kappa  *)
(* file, which is one of a structure of the same name as long as no threads*)
(* met in an earlier batch.                                                *)
THEOREM ConductivitiesAreOwn == Spec => []ConductivityIsOwn
<1>1. Init => Typed /\ Conducting /\ Labelled
  BY InitTyped DEF Init, Conducting, Labelled, Active, EmptyDir
<1>2. Typed /\ Conducting /\ Labelled /\ [Next]_vars => (Typed /\ Conducting /\ Labelled)'
  BY NextKeepsTyped, NextKeepsConducting, NextKeepsLabelled
<1>3. Typed /\ Conducting => ConductivityIsOwn
  <2> SUFFICES ASSUME Typed, Conducting, state = "ended", Alone
               PROVE  cwd = Home /\ \A s \in Structures : Own(s, row[s].kappa)
    BY DEF ConductivityIsOwn, Alone, Own
  <2>1. \A s \in Structures : pc[s] \in {"waiting", "done"}
    BY DEF Typed, Timed, Active
  <2> QED BY <2>1 DEF Conducting, InOwnDirectory, InPhono3py
<1> QED BY <1>1, <1>2, <1>3, PTL DEF Spec

-------------------------------------------------------------------------------
(* What a step does to the files of a directory, the kappa file aside.     *)
SameFiles(d) ==
  /\ disk'[d].phonons = disk[d].phonons /\ disk'[d].stability = disk[d].stability
  /\ disk'[d].result = disk[d].result /\ disk'[d].torn = disk[d].torn

PutPhonons(s) ==
  LET d == outdir[s] IN
  /\ disk'[d].phonons = <<batch, s>> /\ disk'[d].stability = disk[d].stability
  /\ disk'[d].result = disk[d].result /\ disk'[d].torn = disk[d].torn

PutResult(s) ==
  LET d == outdir[s] IN
  /\ disk'[d].phonons = disk[d].phonons /\ disk'[d].stability = disk[d].stability
  /\ disk'[d].result = <<batch, s>> /\ disk'[d].torn = FALSE

PutStability(s) ==
  LET d == outdir[s] IN
  /\ disk'[d].phonons = disk[d].phonons /\ disk'[d].stability = <<batch, s>>
  /\ disk'[d].result = disk[d].result /\ disk'[d].torn = disk[d].torn

OnlyOwnFiles(s) == \A d \in Dirs : d # outdir[s] => SameFiles(d)

(* The actions of a structure that change none of these files.             *)
Looks(s) == SkipStructure(s) \/ ResumeStructure(s) \/ Begin(s) \/ Fail(s)
            \/ Enter(s) \/ Phono3py(s) \/ Leave(s) \/ Select(s)

LEMMA WhatStepsWrite ==
  ASSUME Typed, NEW s \in Structures
  PROVE  /\ Looks(s) => \A d \in Dirs : SameFiles(d)
         /\ Phonons(s) => PutPhonons(s) /\ OnlyOwnFiles(s)
         /\ WriteResult(s) \/ Succeed(s) => PutResult(s) /\ OnlyOwnFiles(s)
         /\ WriteStability(s) => PutStability(s) /\ OnlyOwnFiles(s)
<1>1. disk \in [Dirs -> Contents] /\ outdir[s] \in Dirs /\ cwd \in Dirs
  BY DEF Typed, TypedDisk, TypedFlow, TypedCall
<1>2. ASSUME NEW d \in Dirs, disk' = [disk EXCEPT ![cwd].kappa = <<batch, s>>]
      PROVE  SameFiles(d)
  <2>1. CASE d = cwd
    BY <2>1, <1>1, <1>2 DEF SameFiles, Contents
  <2>2. CASE d # cwd
    BY <2>2, <1>1, <1>2 DEF SameFiles
  <2> QED BY <2>1, <2>2
<1>3. Looks(s) => disk' = disk \/ disk' = [disk EXCEPT ![cwd].kappa = <<batch, s>>]
  BY DEF Looks, SkipStructure, ResumeStructure, Begin, Fail, Enter, Phono3py, Leave, Select
<1>4. Looks(s) => \A d \in Dirs : SameFiles(d)
  BY <1>2, <1>3 DEF SameFiles
<1>5. Phonons(s) => PutPhonons(s) /\ OnlyOwnFiles(s)
  BY <1>1 DEF Phonons, PutPhonons, OnlyOwnFiles, SameFiles, Contents
<1>6. WriteResult(s) \/ Succeed(s) => PutResult(s) /\ OnlyOwnFiles(s)
  BY <1>1 DEF WriteResult, Succeed, PutResult, OnlyOwnFiles, SameFiles, Contents
<1>7. WriteStability(s) => PutStability(s) /\ OnlyOwnFiles(s)
  BY <1>1 DEF WriteStability, PutStability, OnlyOwnFiles, SameFiles, Contents
<1> QED BY <1>4, <1>5, <1>6, <1>7

(* A kill only cuts results off that were being written.                   *)
LEMMA WhatAKillWrites ==
  ASSUME Typed, KillBatch, NEW d \in Dirs
  PROVE  /\ disk'[d].phonons = disk[d].phonons /\ disk'[d].stability = disk[d].stability
         /\ \/ disk'[d].result = disk[d].result
            \/ \E w \in Active : outdir[w] = d /\ disk'[d].result = <<batch, w>>
<1>1. PICK cut \in SUBSET {s \in Structures : pc[s] \in {"result", "result again"}} :
        disk' = [e \in Dirs |->
          IF \E s \in cut : outdir[s] = e
          THEN [disk[e] EXCEPT !.result = <<batch, CHOOSE s \in cut : outdir[s] = e>>, !.torn = TRUE]
          ELSE disk[e]]
  BY DEF KillBatch
<1>2. disk[d] \in Contents
  BY DEF Typed, TypedDisk
<1>3. CASE \E s \in cut : outdir[s] = d
  <2> DEFINE w == CHOOSE s \in cut : outdir[s] = d
  <2>1. w \in cut /\ outdir[w] = d
    BY <1>3
  <2>2. w \in Active
    BY <2>1 DEF Active
  <2>3. disk'[d] = [disk[d] EXCEPT !.result = <<batch, w>>, !.torn = TRUE]
    BY <1>1, <1>3
  <2> HIDE DEF w
  <2> QED BY <1>2, <2>1, <2>2, <2>3 DEF Contents
<1> QED BY <1>1, <1>3

-------------------------------------------------------------------------------
(* Over the whole history: a stability report is accompanied by a result,  *)
(* workflows write to directories with the name of their structure, and    *)
(* with names that differ a result is of the structure it is filed under.  *)
Named(s)    == outdir[s][1] = input[s]
Accompanied == \A d \in Dirs : disk[d].stability # None => disk[d].result # None
OwnResults  ==
  DistinctNames => \A d \in Dirs, s \in Structures :
    d[1] = input[s] /\ disk[d].result # None => disk[d].result[2] = s

Filed ==
  /\ Accompanied
  /\ OwnResults
  /\ \A s \in Structures : pc[s] \in {"stability", "result again"} => disk[outdir[s]].result # None
  /\ \A s \in Active : Named(s)

ResultsGrow ==
  \A d \in Dirs :
    /\ \/ disk'[d].result = disk[d].result
       \/ \E w \in Active : outdir[w] = d /\ disk'[d].result = <<batch, w>>
    /\ disk'[d].stability = disk[d].stability \/ disk[d].result # None

LEMMA GrowingKeepsFiled ==
  ASSUME Typed, Filed, ResultsGrow, input' = input
  PROVE  /\ Accompanied' /\ OwnResults'
         /\ \A d \in Dirs : disk[d].result # None => disk'[d].result # None
<1>1. \A w \in Active : <<batch, w>> # None /\ w \in Structures /\ Named(w)
  <2> SUFFICES ASSUME NEW w \in Active
               PROVE  <<batch, w>> # None /\ w \in Structures /\ Named(w)
    OBVIOUS
  <2>1. w \in Structures /\ state = "running"
    BY ActiveRuns DEF Active
  <2>2. batch # 0
    BY <2>1, StructuresAreNumbered DEF Typed, Timed, TypedCall
  <2> QED BY <2>1, <2>2 DEF Filed, None
<1>2. \A d \in Dirs : disk[d].result # None => disk'[d].result # None
  <2> SUFFICES ASSUME NEW d \in Dirs, disk[d].result # None PROVE disk'[d].result # None
    OBVIOUS
  <2>1. disk'[d].result = disk[d].result \/ \E w \in Active : disk'[d].result = <<batch, w>>
    BY DEF ResultsGrow
  <2> QED BY <2>1, <1>1
<1>3. Accompanied'
  BY <1>2 DEF Filed, Accompanied, ResultsGrow
<1>4. OwnResults'
  <2> SUFFICES ASSUME DistinctNames, NEW d \in Dirs, NEW s \in Structures,
                      d[1] = input[s], disk'[d].result # None
               PROVE  disk'[d].result[2] = s
    BY DEF OwnResults, DistinctNames
  <2>1. CASE disk'[d].result = disk[d].result
    BY <2>1 DEF Filed, OwnResults
  <2>2. CASE \E w \in Active : outdir[w] = d /\ disk'[d].result = <<batch, w>>
    <3>1. PICK w \in Active : outdir[w] = d /\ disk'[d].result = <<batch, w>>
      BY <2>2
    <3>2. w = s
      BY <1>1, <3>1 DEF DistinctNames, Named
    <3> QED BY <3>1, <3>2
  <2> QED BY <2>1, <2>2 DEF ResultsGrow
<1> QED BY <1>2, <1>3, <1>4

LEMMA StepsGrow ==
  ASSUME Typed, Filed, NEW s \in Structures,
         \/ Looks(s) \/ Phonons(s) \/ WriteResult(s) \/ WriteStability(s) \/ Succeed(s)
  PROVE  ResultsGrow /\ input' = input
<1>1. input' = input
  BY DEF Looks, SkipStructure, ResumeStructure, Begin, Fail, Enter, Phono3py, Leave, Select,
         Phonons, WriteResult, WriteStability, Succeed, call
<1>2. CASE Looks(s) \/ Phonons(s)
  <2>1. (\A d \in Dirs : SameFiles(d)) \/ (PutPhonons(s) /\ OnlyOwnFiles(s))
    BY <1>2, WhatStepsWrite
  <2>2. \A d \in Dirs : disk'[d].result = disk[d].result /\ disk'[d].stability = disk[d].stability
    BY <2>1 DEF SameFiles, PutPhonons, OnlyOwnFiles
  <2> QED BY <1>1, <2>2 DEF ResultsGrow
<1>3. CASE WriteResult(s) \/ Succeed(s)
  <2>1. s \in Active
    BY <1>3 DEF WriteResult, Succeed, Goto, Active
  <2>2. PutResult(s) /\ OnlyOwnFiles(s)
    BY <1>3, WhatStepsWrite
  <2> QED BY <1>1, <2>1, <2>2 DEF ResultsGrow, SameFiles, PutResult, OnlyOwnFiles
<1>4. CASE WriteStability(s)
  <2>1. disk[outdir[s]].result # None
    BY <1>4 DEF WriteStability, Goto, Filed
  <2>2. PutStability(s) /\ OnlyOwnFiles(s)
    BY <1>4, WhatStepsWrite
  <2> QED BY <1>1, <2>1, <2>2 DEF ResultsGrow, SameFiles, PutStability, OnlyOwnFiles
<1> QED BY <1>1, <1>2, <1>3, <1>4

(* The steps of one structure concern no other.                            *)
Steps(s) == Looks(s) \/ Phonons(s) \/ WriteResult(s) \/ WriteStability(s) \/ Succeed(s)

LEMMA OthersStay ==
  ASSUME Typed, NEW s \in Structures, Steps(s)
  PROVE  /\ UNCHANGED call /\ state = "running" /\ batch > 0
         /\ \A t \in Structures :
              t # s => pc'[t] = pc[t] /\ outdir'[t] = outdir[t] /\ row'[t] = row[t]
         /\ Begin(s) \/ outdir' = outdir
<1>1. CASE SkipStructure(s) \/ ResumeStructure(s) \/ Begin(s)
  BY <1>1 DEF Typed, TypedFlow, Timed, SkipStructure, ResumeStructure, Begin, MyTurn, Report
<1>2. CASE \/ Phonons(s) \/ Enter(s) \/ Phono3py(s) \/ Leave(s) \/ Select(s)
           \/ WriteResult(s) \/ WriteStability(s) \/ Succeed(s) \/ Fail(s)
  <2>1. pc[s] \notin {"waiting", "done"}
    BY <1>2 DEF Phonons, Enter, Phono3py, Leave, Select, WriteResult, WriteStability, Succeed,
                Fail, Goto
  <2>2. state = "running" /\ batch > 0
    BY <2>1, ActiveRuns DEF Typed, Timed
  <2> QED
    BY <1>2, <2>2 DEF Typed, TypedFlow, Phonons, Enter, Phono3py, Leave, Select, WriteResult,
                      WriteStability, Succeed, Fail, Goto, Report
<1> QED BY <1>1, <1>2 DEF Steps, Looks

LEMMA NextSteps ==
  ASSUME Next
  PROVE  \/ \E o \in Options : StartBatch(o)
         \/ \E s \in Structures : Steps(s)
         \/ EndBatch \/ KillBatch \/ UNCHANGED vars
BY DEF Next, Rest, Steps, Looks

(* A workflow that has written its result comes from one that had, or has  *)
(* just written it.                                                        *)
LEMMA WhereItGoes ==
  ASSUME Typed, NEW s \in Structures, Steps(s)
  PROVE  /\ pc'[s] = "stability" => WriteResult(s)
         /\ pc'[s] = "result again" => WriteStability(s) /\ pc[s] = "stability"
         /\ pc'[s] \notin {"waiting", "done"} /\ ~Begin(s) => s \in Active
         /\ pc'[s] \in AfterPhonons => Phonons(s) \/ (pc[s] \in AfterPhonons /\ ~Phonons(s) /\ ~Begin(s))
         /\ Begin(s) => pc'[s] = "phonons" /\ \E n \in Nat : outdir' = [outdir EXCEPT ![s] = <<input[s], n>>]
<1>1. CASE SkipStructure(s) \/ ResumeStructure(s)
  BY <1>1 DEF Typed, TypedFlow, SkipStructure, ResumeStructure, Report, AfterPhonons, InThermal, InPhono3py,
              Begin, Phonons, Goto, MyTurn
<1>2. CASE Begin(s)
  <2>1. pc'[s] = "phonons"
    BY <1>2 DEF Typed, TypedFlow, Begin
  <2>2. \A n \in NewSeconds : n \in Nat
    BY StructuresAreNumbered, MoreBatchesMoreSeconds
       DEF NewSeconds, Active, Typed, Timed, TypedFlow, Dirs, Home, Seconds, N
  <2>3. \E n \in Nat : outdir' = [outdir EXCEPT ![s] = <<input[s], n>>]
    BY <1>2, <2>2 DEF Begin, OutdirFor
  <2> QED BY <1>2, <2>1, <2>3 DEF AfterPhonons, InThermal, InPhono3py
<1>3. CASE Succeed(s) \/ Fail(s)
  BY <1>3 DEF Typed, TypedFlow, Succeed, Fail, Report, AfterPhonons, InThermal, InPhono3py, Begin, MyTurn
<1>4. CASE Enter(s) \/ Phono3py(s) \/ Leave(s) \/ Select(s) \/ Phonons(s) \/ WriteResult(s) \/ WriteStability(s)
  BY <1>4 DEF Typed, TypedFlow, Enter, Phono3py, Leave, Select, Phonons, WriteResult, WriteStability, Goto,
              Active, AfterPhonons, InThermal, InPhono3py, Begin, MyTurn
<1> QED BY <1>1, <1>2, <1>3, <1>4 DEF Steps, Looks

LEMMA StepKeepsFiled ==
  ASSUME Typed, Filed, NEW s \in Structures, Steps(s)
  PROVE  Filed'
<1>1. ResultsGrow /\ input' = input
  BY StepsGrow DEF Steps
<1>2. /\ Accompanied' /\ OwnResults'
      /\ \A d \in Dirs : disk[d].result # None => disk'[d].result # None
  BY <1>1, GrowingKeepsFiled
<1>3. \A t \in Structures : outdir[t] \in Dirs
  BY DEF Typed, TypedFlow
<1>4. ASSUME NEW t \in Structures, pc'[t] \in {"stability", "result again"}
      PROVE  disk'[outdir'[t]].result # None
  <2>1. CASE t # s
    BY <2>1, <1>2, <1>3, <1>4, OthersStay DEF Filed
  <2>2. CASE t = s
    <3>1. ~Begin(s) /\ outdir' = outdir
      BY <2>2, <1>4, WhereItGoes, OthersStay
    <3>2. CASE pc'[s] = "stability"
      <4>1. disk'[outdir[s]].result = <<batch, s>> /\ batch # 0
        <5>1. WriteResult(s)
          BY <3>2, WhereItGoes
        <5>2. PutResult(s)
          BY <5>1, WhatStepsWrite
        <5>3. batch > 0 /\ batch \in Nat
          BY OthersStay, StructuresAreNumbered DEF Typed, TypedCall
        <5> QED BY <5>2, <5>3 DEF PutResult
      <4> QED BY <4>1, <3>1, <2>2 DEF None
    <3>3. CASE pc'[s] = "result again"
      BY <3>3, <3>1, <2>2, <1>2, <1>3, WhereItGoes DEF Filed
    <3> QED BY <2>2, <1>4, <3>2, <3>3
  <2> QED BY <2>1, <2>2
<1>5. ASSUME NEW t \in Structures, pc'[t] \notin {"waiting", "done"}
      PROVE  outdir'[t][1] = input'[t]
  <2>1. CASE t # s
    BY <2>1, <1>1, <1>5, OthersStay DEF Filed, Named, Active
  <2>2. CASE t = s /\ Begin(s)
    <3>1. PICK n \in Nat : outdir' = [outdir EXCEPT ![s] = <<input[s], n>>]
      BY <2>2, WhereItGoes
    <3>2. outdir'[s] = <<input[s], n>>
      BY <3>1 DEF Typed, TypedFlow
    <3> QED BY <2>2, <1>1, <3>2
  <2>3. CASE t = s /\ ~Begin(s)
    BY <2>3, <1>1, <1>5, WhereItGoes, OthersStay DEF Filed, Named
  <2> QED BY <2>1, <2>2, <2>3
<1> QED BY <1>2, <1>4, <1>5 DEF Filed, Named, Active

LEMMA NextKeepsFiled ==
  ASSUME Typed, Filed, [Next]_vars
  PROVE  Filed'
<1>1. CASE UNCHANGED vars
  BY <1>1 DEF Filed, Accompanied, OwnResults, DistinctNames, Named, Active, vars
<1>2. CASE EndBatch
  BY <1>2 DEF EndBatch, Filed, Accompanied, OwnResults, DistinctNames, Named, Active, flow
<1>3. CASE \E o \in Options : StartBatch(o)
  <2>1. UNCHANGED <<input, disk>> /\ \A s \in Structures : pc'[s] = "waiting"
    BY <1>3 DEF StartBatch, NewProcess
  <2> QED BY <2>1 DEF Filed, Accompanied, OwnResults, DistinctNames, Active
<1>4. CASE KillBatch
  <2>1. ResultsGrow /\ input' = input
    BY <1>4, WhatAKillWrites DEF ResultsGrow, KillBatch
  <2>2. \A s \in Structures : pc'[s] = "waiting"
    BY <1>4 DEF KillBatch, NewProcess
  <2> QED BY <2>1, <2>2, GrowingKeepsFiled DEF Filed, Active
<1>5. CASE \E s \in Structures : Steps(s)
  BY <1>5, StepKeepsFiled
<1> QED BY <1>1, <1>2, <1>3, <1>4, <1>5, NextSteps

-------------------------------------------------------------------------------
(* What a batch reports.  It takes names that differ, or a batch that does *)
(* one structure after the other and touches no results: then workflows    *)
(* under way and those that succeeded have directories of their own, and   *)
(* the files there are theirs as far as they have come.                    *)
Serial   == opts.max_workers = 1 /\ ~opts.overwrite /\ ~opts.resume
Separate == DistinctNames \/ Serial
Busy(s)  == s \in Active \/ row[s].status = "success"
Apart    == \A s, t \in Structures : s # t /\ Busy(s) /\ Busy(t) => outdir[s] # outdir[t]

Whole(s) ==
  LET dir == disk[outdir[s]] IN
  /\ dir.phonons = <<batch, s>> /\ dir.stability = <<batch, s>>
  /\ dir.result = <<batch, s>> /\ ~dir.torn

Recorded(s) ==
  /\ pc[s] = "done" <=> row[s].status # "none"
  /\ pc[s] \in AfterPhonons => disk[outdir[s]].phonons = <<batch, s>>
  /\ pc[s] = "result again" => disk[outdir[s]].stability = <<batch, s>>
  /\ row[s].status = "success" => Named(s) /\ row[s].outdir = outdir[s] /\ Whole(s)
  /\ row[s].status = "skipped" =>
       DistinctNames /\ row[s].outdir = OutdirFor(s) /\ disk[OutdirFor(s)].result # None

Reported ==
  /\ state \in {"running", "ended"} /\ Separate =>
       (DistinctNames \/ Single) /\ Apart /\ \A s \in Structures : Recorded(s)
  /\ state = "ended" => \A s \in Structures : pc[s] = "done"

LEMMA NamesOrAlone ==
  ASSUME Typed, Reported, Separate, ~DistinctNames, NEW s \in Structures, Steps(s)
  PROVE  \A t \in Structures : t # s => t \notin Active
<1>1. state = "running"
  BY OthersStay
<1>2. CASE MyTurn(s)
  BY <1>2, OneAtATime DEF Separate, Serial
<1>3. CASE pc[s] \notin {"waiting", "done"}
  BY <1>1, <1>3 DEF Reported, Single, Active
<1> QED
  BY <1>2, <1>3 DEF Steps, Looks, SkipStructure, ResumeStructure, Begin, Fail, Enter, Phono3py,
                    Leave, Select, Phonons, WriteResult, WriteStability, Succeed, Goto

(* The directory a workflow chooses is that of no other one.               *)
LEMMA NewDirectoryIsNew ==
  ASSUME Typed, Filed, Reported, Separate, NEW s \in Structures, Begin(s),
         NEW t \in Structures, t # s, Busy(t)
  PROVE  outdir'[s] # outdir[t]
<1>1. Steps(s) /\ state = "running"
  BY DEF Steps, Looks, Begin, MyTurn
<1>2. Recorded(t)
  BY <1>1 DEF Reported
<1>3. CASE DistinctNames
  <2>1. outdir[t][1] = input[t]
    BY <1>2 DEF Busy, Recorded, Filed, Named
  <2>2. PICK n \in Nat : outdir' = [outdir EXCEPT ![s] = <<input[s], n>>]
    BY <1>1, WhereItGoes
  <2>3. outdir'[s] = <<input[s], n>>
    BY <2>2 DEF Typed, TypedFlow
  <2> QED BY <2>1, <2>3, <1>3 DEF DistinctNames
<1>4. CASE ~DistinctNames
  <2>1. t \notin Active /\ Active = {}
    BY <1>1, <1>4, NamesOrAlone, OneAtATime DEF Begin, Separate, Serial
  <2>2. disk[outdir[t]].result = <<batch, t>> /\ batch \in Nat /\ batch > 0
    BY <1>1, <1>2, <2>1, CurrentFlow, OthersStay DEF Busy, Recorded, Whole
  <2>3. CASE outdir' = [outdir EXCEPT ![s] = OutdirFor(s)] /\ disk[OutdirFor(s)].result = None
    <3>1. outdir'[s] = OutdirFor(s)
      BY <2>3 DEF Typed, TypedFlow
    <3> QED BY <2>2, <2>3, <3>1 DEF None
  <2>4. CASE \E n \in NewSeconds : outdir' = [outdir EXCEPT ![s] = <<input[s], n>>]
    <3>1. outdir' = [outdir EXCEPT ![s] = <<input[s], second + 1>>]
      BY <2>1, <2>4 DEF NewSeconds
    <3>2. outdir'[s] = <<input[s], second + 1>>
      BY <3>1 DEF Typed, TypedFlow
    <3>3. outdir[t][2] <= second /\ second \in Nat
      BY DEF Typed, Timed
    <3> QED BY <3>2, <3>3
  <2> QED BY <1>4, <2>3, <2>4 DEF Begin, Separate, Serial
<1> QED BY <1>3, <1>4

LEMMA WorkflowsStayApart ==
  ASSUME Typed, Filed, Reported, Separate, NEW s \in Structures, Steps(s)
  PROVE  Apart' /\ (DistinctNames \/ Single')
<1>1. state = "running" /\ Apart
  BY OthersStay DEF Reported
<1>2. \A t \in Structures : t # s => (Busy(t)' <=> Busy(t)) /\ outdir'[t] = outdir[t]
  BY OthersStay DEF Busy, Active
<1>3. ~Begin(s) => outdir' = outdir /\ (Busy(s)' => Busy(s))
  <2>1. CASE SkipStructure(s) \/ ResumeStructure(s) \/ Fail(s)
    <3>1. \E dir : \E status \in {"skipped", "failed"} : Report(s, status, dir, None)
      BY <2>1 DEF SkipStructure, ResumeStructure, Fail
    <3>2. pc'[s] = "done" /\ row'[s].status \in {"skipped", "failed"}
      BY <3>1 DEF Report, Typed, TypedFlow
    <3>3. outdir' = outdir
      BY <2>1 DEF SkipStructure, ResumeStructure, Fail
    <3> QED BY <3>2, <3>3 DEF Busy, Active
  <2>2. CASE Succeed(s)
    BY <2>2, OthersStay DEF Succeed, Busy, Active
  <2>3. CASE Enter(s) \/ Phono3py(s) \/ Leave(s) \/ Select(s) \/ Phonons(s) \/ WriteResult(s) \/ WriteStability(s)
    BY <2>3, OthersStay DEF Enter, Phono3py, Leave, Select, Phonons, WriteResult, WriteStability,
                            Goto, Busy, Active
  <2> QED BY <2>1, <2>2, <2>3 DEF Steps, Looks
<1>4. Apart'
  <2> SUFFICES ASSUME NEW t \in Structures, t # s, Busy(t), Busy(s)'
               PROVE  outdir'[s] # outdir[t]
    BY <1>1, <1>2 DEF Apart
  <2>1. CASE Begin(s)
    BY <2>1, NewDirectoryIsNew
  <2>2. CASE ~Begin(s)
    BY <2>2, <1>1, <1>3 DEF Apart
  <2> QED BY <2>1, <2>2
<1>5. DistinctNames \/ Single'
  BY OthersStay, NamesOrAlone DEF Single, Active
<1> QED BY <1>4, <1>5

LEMMA OthersStayRecorded ==
  ASSUME Typed, Filed, Reported, Separate, NEW s \in Structures, Steps(s),
         NEW t \in Structures, t # s
  PROVE  Recorded(t)'
<1>1. state = "running" /\ UNCHANGED call /\ Recorded(t)
  BY OthersStay DEF Reported
<1>2. pc'[t] = pc[t] /\ row'[t] = row[t] /\ outdir'[t] = outdir[t]
  BY OthersStay
<1>3. outdir[t] \in Dirs /\ OutdirFor(t) \in Dirs
  BY ChosenDirectories DEF Typed, TypedFlow
<1>4. \A d \in Dirs : disk[d].result # None => disk'[d].result # None
  BY StepsGrow, GrowingKeepsFiled DEF Steps
<1>5. Busy(t) => SameFiles(outdir[t])
  <2>1. CASE Looks(s)
    BY <2>1, <1>3, WhatStepsWrite
  <2>2. CASE ~Looks(s)
    <3>1. OnlyOwnFiles(s)
      BY <2>2, WhatStepsWrite DEF Steps
    <3>2. s \in Active
      BY <2>2 DEF Steps, Phonons, WriteResult, WriteStability, Succeed, Goto, Active
    <3>3. Busy(t) => outdir[t] # outdir[s]
      BY <3>2, <1>1 DEF Reported, Apart, Busy
    <3> QED BY <3>1, <3>3, <1>3 DEF OnlyOwnFiles
  <2> QED BY <2>1, <2>2
<1>6. pc[t] \in AfterPhonons \/ pc[t] = "result again" => Busy(t)
  BY DEF Busy, Active, AfterPhonons, InThermal, InPhono3py
<1>7. /\ UNCHANGED <<input, batch>>
      /\ OutdirFor(t)' = OutdirFor(t)
      /\ DistinctNames' <=> DistinctNames
  BY <1>1 DEF call, OutdirFor, DistinctNames
<1>8. row[t].status = "success" => Whole(t)'
  BY <1>1, <1>2, <1>5, <1>7 DEF Recorded, Whole, SameFiles, Busy
<1> QED
  BY <1>1, <1>2, <1>3, <1>4, <1>5, <1>6, <1>7, <1>8 DEF Recorded, Named, SameFiles

(* The records of the structure that takes the step.                       *)
LEMMA OwnStaysRecorded ==
  ASSUME Typed, Filed, Reported, Separate, NEW s \in Structures, Steps(s)
  PROVE  Recorded(s)'
<1>1. /\ state = "running" /\ UNCHANGED call /\ Recorded(s)
      /\ outdir[s] \in Dirs /\ OutdirFor(s) \in Dirs
  BY OthersStay, ChosenDirectories DEF Reported, Typed, TypedFlow
<1>2. \A d \in Dirs : disk[d].result # None => disk'[d].result # None
  BY StepsGrow, GrowingKeepsFiled DEF Steps
<1>3. CASE SkipStructure(s) \/ ResumeStructure(s)
  <2>1. DistinctNames /\ disk[OutdirFor(s)].result # None
    BY <1>1, <1>3 DEF SkipStructure, ResumeStructure, HasStabilityReport, Separate, Serial, Filed, Accompanied
  <2>2. \E status \in {"skipped", "failed"} : Report(s, status, OutdirFor(s), None)
    BY <1>3 DEF SkipStructure, ResumeStructure
  <2>3. pc'[s] = "done" /\ row'[s].status \in {"skipped", "failed"} /\ row'[s].outdir = OutdirFor(s)
    BY <2>2 DEF Report, Typed, TypedFlow
  <2>4. DistinctNames' /\ OutdirFor(s)' = OutdirFor(s)
    BY <1>1, <2>1 DEF call, DistinctNames, OutdirFor
  <2> QED
    BY <1>1, <1>2, <2>1, <2>3, <2>4 DEF Recorded, AfterPhonons, InThermal, InPhono3py
<1>4. CASE Fail(s)
  <2>1. pc'[s] = "done" /\ row'[s].status = "failed"
    BY <1>4 DEF Fail, Report, Typed, TypedFlow
  <2> QED BY <2>1 DEF Recorded, AfterPhonons, InThermal, InPhono3py
<1>5. CASE Succeed(s)
  <2>1. /\ pc[s] = "result again" /\ pc'[s] = "done" /\ UNCHANGED <<input, batch, outdir>>
        /\ row'[s].status = "success" /\ row'[s].outdir = outdir[s]
    BY <1>1, <1>5 DEF Succeed, Report, Typed, TypedFlow, call
  <2>2. disk[outdir[s]].phonons = <<batch, s>> /\ disk[outdir[s]].stability = <<batch, s>>
    BY <2>1, <1>1 DEF Recorded, AfterPhonons
  <2>3. PutResult(s)
    BY <1>5, WhatStepsWrite
  <2>4. Named(s)
    BY <2>1 DEF Filed, Active
  <2>5. Whole(s)' /\ Named(s)'
    BY <2>1, <2>2, <2>3, <2>4 DEF Whole, PutResult, Named
  <2> QED BY <2>1, <2>5 DEF Recorded, AfterPhonons, InThermal, InPhono3py
<1>6. CASE Begin(s)
  <2>1. pc[s] = "waiting" /\ pc'[s] = "phonons" /\ row'[s] = row[s]
    BY <1>6, WhereItGoes DEF Begin, MyTurn
  <2>2. row[s].status = "none"
    BY <2>1, <1>1 DEF Recorded
  <2> QED BY <2>1, <2>2 DEF Recorded, AfterPhonons, InThermal, InPhono3py
<1>7. CASE Enter(s) \/ Phono3py(s) \/ Leave(s) \/ Select(s) \/ Phonons(s) \/ WriteResult(s) \/ WriteStability(s)
  <2>1. row'[s] = row[s] /\ pc[s] # "done" /\ pc'[s] # "done" /\ UNCHANGED <<input, batch, outdir>>
    BY <1>1, <1>7 DEF Enter, Phono3py, Leave, Select, Phonons, WriteResult, WriteStability, Goto,
                      Typed, TypedFlow, call
  <2>2. row[s].status = "none"
    BY <2>1, <1>1, OthersStay DEF Recorded, Reported, Typed, TypedFlow, Row
  <2>3. pc'[s] \in AfterPhonons => disk'[outdir[s]].phonons = <<batch, s>>
    <3>1. CASE Phonons(s)
      BY <3>1, WhatStepsWrite DEF PutPhonons
    <3>2. CASE ~Phonons(s)
      <4>1. pc'[s] \in AfterPhonons => disk[outdir[s]].phonons = <<batch, s>>
        BY <3>2, <1>1, WhereItGoes DEF Recorded
      <4>2. SameFiles(outdir[s]) \/ PutResult(s) \/ PutStability(s)
        BY <3>2, <1>1, <1>7, WhatStepsWrite DEF Looks
      <4> QED BY <4>1, <4>2 DEF SameFiles, PutResult, PutStability
    <3> QED BY <3>1, <3>2
  <2>4. pc'[s] = "result again" => disk'[outdir[s]].stability = <<batch, s>>
    BY WhereItGoes, WhatStepsWrite DEF PutStability
  <2> QED BY <2>1, <2>2, <2>3, <2>4 DEF Recorded
<1> QED BY <1>3, <1>4, <1>5, <1>6, <1>7 DEF Steps, Looks

LEMMA NextKeepsReported ==
  ASSUME Typed, Filed, Reported, [Next]_vars
  PROVE  Reported'
<1>1. CASE UNCHANGED vars
  BY <1>1 DEF Reported, Separate, Serial, DistinctNames, Single, Active, Apart, Busy, Recorded, Whole,
              Named, OutdirFor, vars
<1>2. CASE EndBatch
  BY <1>2 DEF EndBatch, Reported, Separate, Serial, DistinctNames, Single, Active, Apart, Busy, Recorded,
              Whole, Named, OutdirFor, flow
<1>3. CASE KillBatch
  BY <1>3 DEF KillBatch, Reported
<1>4. CASE \E o \in Options : StartBatch(o)
  <2>1. state' = "running" /\ \A s \in Structures : pc'[s] = "waiting" /\ row'[s].status = "none"
    BY <1>4 DEF StartBatch, NewProcess, NoRow
  <2>2. Active' = {}
    BY <2>1 DEF Active
  <2>3. Single' /\ Apart'
    BY <2>1, <2>2 DEF Single, Apart, Busy
  <2>4. \A s \in Structures : Recorded(s)'
    BY <2>1 DEF Recorded, AfterPhonons, InThermal, InPhono3py
  <2> QED BY <2>1, <2>3, <2>4 DEF Reported
<1>5. CASE \E s \in Structures : Steps(s)
  <2>1. PICK s \in Structures : Steps(s)
    BY <1>5
  <2>2. state' = "running" /\ (Separate' <=> Separate) /\ (DistinctNames' <=> DistinctNames)
    BY <2>1, OthersStay DEF call, Separate, Serial, DistinctNames
  <2>3. ASSUME Separate
        PROVE  (DistinctNames' \/ Single') /\ Apart' /\ \A t \in Structures : Recorded(t)'
    BY <2>1, <2>2, <2>3, WorkflowsStayApart, OthersStayRecorded, OwnStaysRecorded
  <2> QED BY <2>2, <2>3 DEF Reported
<1> QED BY <1>1, <1>2, <1>3, <1>4, <1>5, NextSteps

LEMMA StartsReported == Init => Typed /\ Filed /\ Reported
<1> SUFFICES ASSUME Init PROVE Filed /\ Reported
  BY InitTyped
<1>1. \A d \in Dirs : disk[d].stability = None /\ disk[d].result = None
  BY DEF Init, EmptyDir
<1>2. \A s \in Structures : pc[s] = "waiting"
  BY DEF Init
<1> QED BY <1>1, <1>2 DEF Init, Filed, Accompanied, OwnResults, Active, Reported

(* A structure that a batch calls a success has its phonons, its stability *)
(* report and its complete result, all of this batch, in the directory its *)
(* row names, and one it skips has a result of that structure there: with  *)
(* names that differ whatever the threads, the options, the failures and   *)
(* the kills before, and with names that do not in a batch without threads,*)
(* --overwrite and --resume.                                               *)
THEOREM SummariesAreHonest == Spec => []SummaryIsHonest
<1>1. Init => Typed /\ Filed /\ Reported
  BY StartsReported
<1>2. Typed /\ Filed /\ Reported /\ [Next]_vars => (Typed /\ Filed /\ Reported)'
  BY NextKeepsTyped, NextKeepsFiled, NextKeepsReported
<1>3. Typed /\ Filed /\ Reported => SummaryIsHonest
  <2> SUFFICES ASSUME Typed, Filed, Reported, state = "ended", Separate, NEW s \in Structures
               PROVE  LET dir == disk[row[s].outdir] IN
                      /\ row[s].status = "success" =>
                           /\ dir.phonons = <<batch, s>> /\ dir.stability = <<batch, s>>
                           /\ dir.result = <<batch, s>> /\ ~dir.torn
                      /\ row[s].status = "skipped" => dir.result[2] = s
                      /\ row[s].status # "none"
    BY DEF SummaryIsHonest, Separate, Serial
  <2>1. pc[s] = "done" /\ Recorded(s)
    BY DEF Reported
  <2>2. ASSUME row[s].status = "skipped"
        PROVE  disk[row[s].outdir].result[2] = s
    <3>1. /\ DistinctNames /\ row[s].outdir = OutdirFor(s) /\ disk[OutdirFor(s)].result # None
          /\ OutdirFor(s) \in Dirs
      BY <2>1, <2>2, ChosenDirectories DEF Recorded, Typed
    <3> QED BY <3>1 DEF Filed, OwnResults, OutdirFor
  <2> QED BY <2>1, <2>2 DEF Recorded, Whole
<1> QED BY <1>1, <1>2, <1>3, PTL DEF Spec

-------------------------------------------------------------------------------
(* What --resume finds.  As long as no batch was killed or overwrote files,*)
(* and with names that differ, a workflow begins where there is no result, *)
(* and a result is written after the phonons it was made from.  The seconds*)
(* that directories are named after do not come back.                      *)
BeforeResult == {"phonons", "result"} \cup InThermal
Complete(d)  == ~disk[d].torn /\ (disk[d].result # None => disk[d].phonons = disk[d].result)

Undisturbed ==
  /\ state # "none" => ~opts.overwrite
  /\ \A d \in Dirs : Complete(d)
  /\ \A s \in Structures : pc[s] \in BeforeResult => disk[outdir[s]].result = None
  /\ \A s, t \in Structures :
       pc[s] = "waiting" /\ t \in Active /\ outdir[t][2] # 0
       => disk[<<input[s], outdir[t][2]>>].result = None

Fresh ==
  /\ \A d \in Dirs : d[2] > second => disk[d].result = None
  /\ ~disturbed /\ DistinctNames => Undisturbed

LEMMA DirectoryOfTheSecond ==
  ASSUME Typed, NEW s \in Structures, NEW t \in Structures
  PROVE  /\ outdir[t][2] \in Nat /\ second \in Nat
         /\ <<input[s], outdir[t][2]>> \in Dirs
         /\ state = "running" /\ pc[s] = "waiting" =>
              \A u \in Structures : <<input[u], second + 1>> \in Dirs
<1>1. /\ N \in Nat /\ s \in Nat /\ s <= N /\ batch \in Nat /\ second \in Nat /\ TypedCall
      /\ second <= batch * N /\ outdir[t][2] <= second /\ batch * N \in Nat
  BY StructuresAreNumbered, MoreBatchesMoreSeconds DEF Typed, TypedCall, Timed
<1>2. outdir[t][2] \in Nat
  BY StructuresAreNumbered, MoreBatchesMoreSeconds DEF Typed, TypedFlow, Dirs, Home, Seconds, N
<1>3. <<input[s], outdir[t][2]>> \in Dirs
  BY <1>1, <1>2, SecondsNameDirectories
<1>4. ASSUME state = "running", pc[s] = "waiting", NEW u \in Structures
      PROVE  <<input[u], second + 1>> \in Dirs
  <2>1. second + N < batch * N + s
    BY <1>4 DEF Typed, Timed
  <2>2. second + 1 \in Nat /\ second + 1 <= batch * N
    BY <2>1, <1>1
  <2> QED BY <2>2, <1>1, SecondsNameDirectories
<1> QED BY <1>1, <1>2, <1>3, <1>4

(* A step of a structure changes the files of its own directory only.      *)
LEMMA StepsWriteAtHome ==
  ASSUME Typed, NEW s \in Structures, Steps(s), NEW d \in Dirs
  PROVE  /\ SameFiles(d) \/ (s \in Active /\ d = outdir[s])
         /\ second \in Nat /\ second' \in Nat /\ second <= second'
<1>1. SameFiles(d) \/ (s \in Active /\ d = outdir[s])
  <2>1. CASE Looks(s)
    BY <2>1, WhatStepsWrite
  <2>2. CASE ~Looks(s)
    BY <2>2, WhatStepsWrite
       DEF Steps, OnlyOwnFiles, Phonons, WriteResult, WriteStability, Succeed, Goto, Active
  <2> QED BY <2>1, <2>2
<1>2. second \in Nat /\ \A n \in NewSeconds : n \in Nat
  <2>1. second \in Nat /\ \A t \in Structures : outdir[t][2] \in Nat
    BY DirectoryOfTheSecond
  <2> QED BY <2>1 DEF NewSeconds, Active
<1>3. CASE Begin(s)
  <2>1. second' = second \/ \E n \in NewSeconds : second' = IF n > second THEN n ELSE second
    BY <1>3 DEF Begin
  <2> QED BY <1>1, <1>2, <2>1
<1>4. CASE ~Begin(s)
  <2>1. second' = second
    BY <1>4 DEF Steps, Looks, SkipStructure, ResumeStructure, Fail, Enter, Phono3py, Leave, Select,
                 Phonons, WriteResult, WriteStability, Succeed
  <2> QED BY <1>1, <1>2, <2>1
<1> QED BY <1>3, <1>4

LEMMA BeginsWithoutResult ==
  ASSUME Typed, Fresh, ~disturbed, DistinctNames, NEW s \in Structures, Begin(s)
  PROVE  /\ disk[outdir'[s]].result = None
         /\ \A t \in Structures :
              pc[t] = "waiting" /\ outdir'[s][2] # 0
              => disk[<<input[t], outdir'[s][2]>>].result = None
<1>1. pc[s] = "waiting" /\ state = "running" /\ Undisturbed /\ ~opts.overwrite
  BY DEF Fresh, Undisturbed, Begin, MyTurn
<1>2. CASE outdir' = [outdir EXCEPT ![s] = OutdirFor(s)] /\ disk[OutdirFor(s)].result = None
  <2>1. outdir'[s] = OutdirFor(s) /\ OutdirFor(s)[2] = 0
    BY <1>2 DEF Typed, TypedFlow, OutdirFor
  <2> QED BY <2>1, <1>2
<1>3. CASE \E n \in NewSeconds : outdir' = [outdir EXCEPT ![s] = <<input[s], n>>]
  <2>1. PICK n \in NewSeconds : outdir' = [outdir EXCEPT ![s] = <<input[s], n>>]
    BY <1>3
  <2>2. outdir'[s] = <<input[s], n>>
    BY <2>1 DEF Typed, TypedFlow
  <2>3. ASSUME NEW t \in Structures, pc[t] = "waiting"
        PROVE  disk[<<input[t], n>>].result = None
    <3>1. CASE n = second + 1
      <4>1. <<input[t], second + 1>> \in Dirs /\ second \in Nat
        BY <1>1, DirectoryOfTheSecond
      <4>2. <<input[t], second + 1>>[2] > second
        BY <4>1
      <4> QED BY <3>1, <4>1, <4>2 DEF Fresh
    <3>2. CASE n # second + 1
      <4>1. PICK w \in Active : n = outdir[w][2] /\ n # 0
        BY <3>2 DEF NewSeconds
      <4> QED BY <4>1, <2>3, <1>1 DEF Undisturbed, Active
    <3> QED BY <3>1, <3>2
  <2> QED BY <2>2, <2>3, <1>1
<1> QED BY <1>1, <1>2, <1>3 DEF Begin

LEMMA StepKeepsUndisturbed ==
  ASSUME Typed, Filed, Reported, Fresh, ~disturbed, DistinctNames, NEW s \in Structures, Steps(s)
  PROVE  Undisturbed'
<1>1. /\ state = "running" /\ UNCHANGED call /\ Recorded(s) /\ Undisturbed /\ ~opts.overwrite
      /\ outdir[s] \in Dirs /\ batch \in Nat /\ batch > 0
  BY OthersStay, StructuresAreNumbered DEF Reported, Separate, Fresh, Undisturbed, Typed, TypedFlow, TypedCall
<1>2. \A t \in Structures : t # s => pc'[t] = pc[t] /\ outdir'[t] = outdir[t]
  BY OthersStay
<1>3. \A d \in Dirs : SameFiles(d) \/ (s \in Active /\ d = outdir[s])
  BY StepsWriteAtHome
<1>4. s \in Active => outdir[s][1] = input[s] /\ ~Begin(s)
  BY DEF Filed, Named, Active, Begin, MyTurn
<1>5. pc'[s] # "waiting"
  BY DEF Typed, TypedFlow, Steps, Looks, SkipStructure, ResumeStructure, Begin, Fail, Enter, Phono3py,
         Leave, Select, Phonons, WriteResult, WriteStability, Succeed, Goto, Report
<1>6. ASSUME NEW d \in Dirs PROVE Complete(d)'
  <2>1. Complete(d)
    BY <1>1 DEF Undisturbed
  <2>2. CASE SameFiles(d)
    BY <2>1, <2>2 DEF SameFiles, Complete
  <2>3. CASE ~SameFiles(d) /\ Phonons(s)
    <3>1. pc[s] = "phonons" /\ d = outdir[s]
      BY <2>3, <1>3 DEF Phonons, Goto
    <3>2. disk[d].result = None
      BY <3>1, <1>1 DEF Undisturbed, BeforeResult
    <3> QED BY <2>1, <2>3, <3>1, <3>2, WhatStepsWrite DEF PutPhonons, Complete
  <2>4. CASE ~SameFiles(d) /\ (WriteResult(s) \/ Succeed(s))
    <3>1. pc[s] \in AfterPhonons /\ d = outdir[s]
      BY <2>4, <1>3 DEF WriteResult, Succeed, Goto, AfterPhonons
    <3>2. disk[d].phonons = <<batch, s>>
      BY <3>1, <1>1 DEF Recorded
    <3> QED BY <2>4, <3>1, <3>2, WhatStepsWrite DEF PutResult, Complete
  <2>5. CASE ~SameFiles(d) /\ WriteStability(s)
    BY <2>1, <2>5, <1>3, WhatStepsWrite DEF PutStability, Complete
  <2> QED BY <2>2, <2>3, <2>4, <2>5, WhatStepsWrite DEF Steps
<1>7. ASSUME NEW t \in Structures, pc'[t] \in BeforeResult
      PROVE  disk'[outdir'[t]].result = None
  <2>1. CASE t # s
    <3>1. pc[t] \in BeforeResult /\ outdir'[t] = outdir[t] /\ outdir[t] \in Dirs /\ t \in Active
      BY <2>1, <1>2, <1>7 DEF Typed, TypedFlow, Active, BeforeResult, InThermal, InPhono3py
    <3>2. outdir[t][1] = input[t] /\ input[t] # input[s]
      BY <2>1, <3>1 DEF Filed, Named, DistinctNames
    <3>3. SameFiles(outdir[t])
      BY <3>1, <3>2, <1>3, <1>4
    <3> QED BY <3>1, <3>3, <1>1 DEF Undisturbed, SameFiles
  <2>2. CASE t = s /\ Begin(s)
    <3>1. disk[outdir'[s]].result = None /\ disk' = disk
      BY <2>2, BeginsWithoutResult DEF Begin
    <3> QED BY <2>2, <3>1
  <2>3. CASE t = s /\ ~Begin(s)
    <3>1. outdir' = outdir /\ (Looks(s) \/ Phonons(s)) /\ pc[s] \in BeforeResult
      BY <2>3, <1>7, OthersStay
         DEF Typed, TypedFlow, Steps, Looks, SkipStructure, ResumeStructure, Fail, Enter, Phono3py,
             Leave, Select, Phonons, WriteResult, WriteStability, Succeed, Goto, Report,
             BeforeResult, InThermal, InPhono3py
    <3>2. disk'[outdir[s]].result = disk[outdir[s]].result
      BY <3>1, <1>1, WhatStepsWrite DEF SameFiles, PutPhonons
    <3> QED BY <2>3, <3>1, <3>2, <1>1 DEF Undisturbed
  <2> QED BY <2>1, <2>2, <2>3
<1>8. ASSUME NEW u \in Structures, NEW t \in Structures, pc'[u] = "waiting",
             pc'[t] \notin {"waiting", "done"}, outdir'[t][2] # 0
      PROVE  disk'[<<input'[u], outdir'[t][2]>>].result = None
  <2>1. u # s /\ pc[u] = "waiting" /\ input' = input
    BY <1>1, <1>2, <1>5, <1>8 DEF call
  <2>2. CASE t = s /\ Begin(s)
    BY <2>1, <2>2, <1>8, BeginsWithoutResult DEF Begin
  <2>3. CASE t # s \/ ~Begin(s)
    <3>1. outdir'[t] = outdir[t] /\ t \in Active
      BY <2>3, <1>2, <1>8, OthersStay, WhereItGoes DEF Active
    <3>2. disk[<<input[u], outdir[t][2]>>].result = None
      BY <2>1, <3>1, <1>1, <1>8 DEF Undisturbed
    <3>3. <<input[u], outdir[t][2]>> \in Dirs /\ input[u] # input[s]
      BY <2>1, DirectoryOfTheSecond DEF DistinctNames
    <3>4. SameFiles(<<input[u], outdir[t][2]>>)
      BY <3>3, <1>3, <1>4
    <3> QED BY <2>1, <3>1, <3>2, <3>4 DEF SameFiles
  <2> QED BY <2>2, <2>3
<1>9. state' # "none" => ~opts'.overwrite
  BY <1>1 DEF call
<1> QED BY <1>6, <1>7, <1>8, <1>9 DEF Undisturbed, Active

LEMMA NextKeepsFresh ==
  ASSUME Typed, Filed, Reported, Fresh, [Next]_vars
  PROVE  Fresh'
<1>1. CASE UNCHANGED vars
  BY <1>1 DEF Fresh, Undisturbed, DistinctNames, Complete, Active, vars
<1>2. CASE EndBatch
  BY <1>2 DEF EndBatch, Fresh, Undisturbed, DistinctNames, Complete, Active, flow
<1>3. CASE KillBatch
  <2>1. disturbed' /\ UNCHANGED second
    BY <1>3 DEF KillBatch
  <2>2. ASSUME NEW d \in Dirs, d[2] > second PROVE disk'[d].result = None
    <3>1. \A w \in Structures : outdir[w][2] <= second /\ outdir[w][2] \in Nat /\ second \in Nat
      BY DirectoryOfTheSecond DEF Typed, Timed
    <3>2. disk'[d].result = disk[d].result
      BY <2>2, <3>1, <1>3, WhatAKillWrites DEF Active
    <3> QED BY <2>2, <3>2 DEF Fresh
  <2> QED BY <2>1, <2>2 DEF Fresh
<1>4. CASE \E o \in Options : StartBatch(o)
  <2>1. PICK o \in Options : StartBatch(o)
    BY <1>4
  <2>2. /\ UNCHANGED <<input, disk, second>> /\ (disturbed' <=> disturbed \/ o.overwrite) /\ opts' = o
        /\ \A s \in Structures : pc'[s] = "waiting"
    BY <2>1 DEF StartBatch, NewProcess
  <2> QED BY <2>2 DEF Fresh, Undisturbed, DistinctNames, Complete, Active, BeforeResult, InThermal, InPhono3py
<1>5. CASE \E s \in Structures : Steps(s)
  <2>1. PICK s \in Structures : Steps(s)
    BY <1>5
  <2>2. ASSUME NEW d \in Dirs, d[2] > second' PROVE disk'[d].result = None
    <3>1. second \in Nat /\ second' \in Nat /\ second <= second' /\ outdir[s][2] <= second
      BY <2>1, <2>2, StepsWriteAtHome DEF Typed, Timed
    <3>2. d[2] \in Nat
      BY StructuresAreNumbered, MoreBatchesMoreSeconds DEF Dirs, Home, Seconds, N
    <3>3. d[2] > second /\ d # outdir[s]
      BY <2>2, <3>1, <3>2
    <3> QED BY <2>1, <3>3, StepsWriteAtHome DEF Fresh, SameFiles
  <2>3. UNCHANGED <<disturbed, input>>
    BY <2>1, OthersStay DEF call
  <2>4. ~disturbed /\ DistinctNames => Undisturbed'
    BY <2>1, StepKeepsUndisturbed
  <2> QED BY <2>2, <2>3, <2>4 DEF Fresh, DistinctNames
<1> QED BY <1>1, <1>2, <1>3, <1>4, <1>5, NextSteps

(* A batch with --resume skips only structures with a complete result and  *)
(* the phonons it was made from, over any number of batches, failures and  *)
(* threads, as long as none was killed or given --overwrite and the names  *)
(* differ: directories that a second is shared for are no exception.       *)
THEOREM FinishedAreSkipped == Spec => []SkipsFinished
<1>1. Init => Typed /\ Filed /\ Reported /\ Fresh
  BY StartsReported DEF Init, Fresh, Undisturbed, EmptyDir, Complete, Active, BeforeResult, InThermal, InPhono3py
<1>2. Typed /\ Filed /\ Reported /\ Fresh /\ [Next]_vars => (Typed /\ Filed /\ Reported /\ Fresh)'
  BY NextKeepsTyped, NextKeepsFiled, NextKeepsReported, NextKeepsFresh
<1>3. Typed /\ Filed /\ Reported /\ Fresh => SkipsFinished
  BY ChosenDirectories DEF SkipsFinished, Reported, Separate, Recorded, Fresh, Undisturbed, Complete, Typed
<1> QED BY <1>1, <1>2, <1>3, PTL DEF Spec
===============================================================================
