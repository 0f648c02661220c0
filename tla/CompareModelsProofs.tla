--------------------------- MODULE CompareModelsProofs ---------------------------
(***************************************************************************)
(* Theorems about comparisons that follow each other on one output         *)
(* directory: any number of them, of any models and with any options,      *)
(* whose children fail or are killed anywhere.  And about the supercells   *)
(* and paths that a workflow chooses: of any structure, with any limits.   *)
(***************************************************************************)
EXTENDS CompareModels, WellFoundedInduction, TLAPS

-------------------------------------------------------------------------------
(* The inductive invariant.                                                *)

Source      == {None} \cup Child
Outcomes    == {"skipped", "completed", "failed"}
Results     == [by : Source, thermal : Outcomes, relaxed : 0 .. LastCompare, torn : BOOLEAN]
Directories == [data : [DataFiles -> Source], result : Results]
Working     == {"phonons", "thermal", "result", "exited"}
Busy        == child.pc # "none"
Entries(s)  == {s[i] : i \in DOMAIN s}

(* The fields of a child.                                                  *)
IsChild(c) ==
  c = [pc |-> c.pc, dir |-> c.dir, moved |-> c.moved, thermal |-> c.thermal,
       computed |-> c.computed, settings |-> c.settings, structure |-> c.structure]

Typed ==
  /\ disk \in [Subdirs -> Directories]
  /\ compare \in 0 .. LastCompare /\ shared \in 0 .. LastCompare
  /\ state \in {"none", "relaxing", "running", "ended", "killed", "raised"}
  /\ state = "none" => compare = 0
  /\ state # "none" => models \in Selections /\ compare # 0
  /\ rows \in Seq(Entries(rows)) /\ Len(rows) <= Len(models) /\ models \in Seq(STRING)
  /\ state \notin {"running", "ended"} => rows = <<>>
  /\ state \in {"running", "ended"} /\ request.relax => shared = compare
  /\ IsChild(child) /\ (Busy => state = "running")

(* Where the files of the present comparison are: in the directories of    *)
(* its models.  There are none of later comparisons.                       *)
Placed(w, d) ==
  \A c \in 1 .. LastCompare, k \in 1 .. 3 : w = <<c, k>> =>
    /\ c <= compare
    /\ c = compare => k \in DOMAIN models /\ Known(models[k]) /\ subdir(models[k]) = d

Filed ==
  \A d \in Subdirs :
    /\ \A f \in DataFiles : Placed(disk[d].data[f], d)
    /\ Placed(disk[d].result.by, d)

(* The child at work: what it started with, and what it has done in the    *)
(* directory given, if it stays there.                                     *)
StartedFrom == IF request.relax THEN compare ELSE 0
Clean       == fresh /\ OwnDirectories

ChildStarted ==
  /\ child.pc \in Working
  /\ Index <= Len(models) /\ Known(Selected)
  /\ child.dir = subdir(Selected)
  /\ child.settings = SettingsOf(request, Selected)
  /\ child.structure = StartedFrom
  /\ Clean => ~child.moved

ChildComputed ==
  /\ child.thermal \in Outcomes /\ child.computed \subseteq DataFiles
  /\ child.pc = "thermal" \/ "lifetime" \in child.computed => request.compute_kappa
  /\ child.pc # "phonons" /\ ~request.dry_run => "band" \in child.computed
  /\ ~child.moved =>
       /\ \A f \in child.computed : disk[child.dir].data[f] = Me
       /\ child.pc = "exited" => disk[child.dir].result = Result(FALSE)

(* Who has not begun finds no result, if there was none at the start.      *)
Untouched ==
  state \in {"relaxing", "running"} /\ Clean /\ ~request.overwrite =>
    \A k \in DOMAIN models :
      Known(models[k]) /\ (IF Busy THEN k > Index ELSE k >= Index)
      => disk[subdir(models[k])].result.by = None

(* The rows.                                                               *)
FailedSays(i) ==
  /\ rows[i].category # "none"
  /\ rows[i].outcome = "failed" \/ ~Clean
  /\ rows[i].data = NoData

SucceededSays(i) ==
  /\ rows[i].category = "none" /\ rows[i].outcome = "success"
  /\ Known(models[i])
  /\ rows[i].data \in [DataFiles -> Source]
  /\ \A f \in DataFiles : Placed(rows[i].data[f], subdir(models[i]))
  /\ rows[i].computed \subseteq DataFiles
  /\ "lifetime" \in rows[i].computed => request.compute_kappa
  /\ Clean /\ ~request.dry_run =>
       /\ rows[i].by = <<compare, i>> /\ "band" \in rows[i].computed
       /\ \A f \in rows[i].computed : rows[i].data[f] = <<compare, i>>

Row(i) ==
  /\ rows[i].status \in {"success", "dry-run", "failed"}
  /\ IF rows[i].status = "failed" THEN FailedSays(i) ELSE SucceededSays(i)
  /\ rows[i].settings # NoSettings =>
       rows[i].settings = SettingsOf(request, models[i]) /\ rows[i].structure = StartedFrom

Plots ==
  [kappa_bar |-> KappaBars, conductivity |-> ThermalCurves, band |-> BandCurves,
   dos |-> DosCurves, velocity |-> VelocityClouds, lifetime |-> LifetimeClouds]

Drawn == state = "ended" => Len(rows) = Len(models) /\ plots = Plots

IInv ==
  /\ Typed /\ Filed
  /\ Busy => ChildStarted /\ ChildComputed
  /\ Untouched
  /\ \A i \in DOMAIN rows : Row(i)
  /\ Drawn

-------------------------------------------------------------------------------
(* Models, children and directories.                                       *)

LEMMA Appended ==
  ASSUME NEW s, s \in Seq(Entries(s)), NEW x
  PROVE  LET r == Append(s, x) IN
         /\ r \in Seq(Entries(r)) /\ Len(r) = Len(s) + 1 /\ Len(s) \in Nat
         /\ DOMAIN r = 1 .. Len(s) + 1 /\ DOMAIN s = 1 .. Len(s)
         /\ r[Len(s) + 1] = x /\ \A i \in DOMAIN s : r[i] = s[i]
<1> DEFINE T == Entries(s) \cup {x}
           r == Append(s, x)
<1>0. x \in T
  OBVIOUS
<1>1. s \in Seq(T)
  <2>1. Len(s) \in Nat /\ DOMAIN s = 1 .. Len(s) /\ s = [i \in 1 .. Len(s) |-> s[i]]
    OBVIOUS
  <2>2. \A i \in 1 .. Len(s) : s[i] \in T
    BY <2>1 DEF Entries
  <2> HIDE DEF T
  <2> QED BY <2>1, <2>2
<1> HIDE DEF T
<1>2. /\ r \in Seq(T) /\ Len(r) = Len(s) + 1 /\ Len(s) \in Nat
      /\ DOMAIN r = 1 .. Len(s) + 1 /\ DOMAIN s = 1 .. Len(s)
      /\ r[Len(s) + 1] = x /\ \A i \in DOMAIN s : r[i] = s[i]
  BY <1>0, <1>1
<1>3. r \in Seq(Entries(r))
  <2> HIDE DEF r
  <2>1. Len(r) \in Nat /\ DOMAIN r = 1 .. Len(r) /\ r = [i \in 1 .. Len(r) |-> r[i]]
    BY <1>2
  <2>2. \A i \in 1 .. Len(r) : r[i] \in Entries(r)
    BY <2>1 DEF Entries
  <2> QED BY <2>1, <2>2
<1> QED BY <1>2, <1>3

LEMMA ModelFacts ==
  ASSUME NEW m \in Selections
  PROVE  /\ m \in Seq(STRING) /\ Len(m) \in 1 .. 3 /\ DOMAIN m = 1 .. Len(m)
         /\ \A k \in DOMAIN m : k \in 1 .. 3 /\ (Known(m[k]) => subdir(m[k]) \in Subdirs)
<1>1. m \in Seq(STRING) /\ Len(m) \in 1 .. 3
  BY CompareAssumption
<1>2. DOMAIN m = 1 .. Len(m)
  BY <1>1
<1>3. \A k \in DOMAIN m : Known(m[k]) => subdir(m[k]) \in Subdirs
  BY DEF Subdirs
<1> QED BY <1>1, <1>2, <1>3

LEMMA Sources == None \in Source /\ None \notin Child /\ LastCompare \in Nat
BY CompareAssumption DEF Source, None, Child

(* Of a comparison that goes on.                                           *)
LEMMA RowFacts ==
  ASSUME Typed
  PROVE  /\ rows \in Seq(Entries(rows)) /\ Len(rows) \in Nat /\ DOMAIN rows = 1 .. Len(rows)
         /\ Index = Len(rows) + 1 /\ Index \in Nat /\ Len(rows) <= Len(models)
         /\ Len(models) \in Nat /\ DOMAIN models = 1 .. Len(models)
         /\ DOMAIN rows \subseteq DOMAIN models
         /\ compare \in Nat /\ LastCompare \in Nat
<1>1. rows \in Seq(Entries(rows)) /\ models \in Seq(STRING) /\ Len(rows) <= Len(models)
  BY DEF Typed
<1>2. /\ Len(rows) \in Nat /\ DOMAIN rows = 1 .. Len(rows)
      /\ Len(models) \in Nat /\ DOMAIN models = 1 .. Len(models)
  BY <1>1
<1>3. compare \in Nat /\ LastCompare \in Nat
  BY CompareAssumption DEF Typed
<1> QED BY <1>1, <1>2, <1>3 DEF Index

LEMMA AtWork ==
  ASSUME Typed, state \in {"relaxing", "running", "ended"}, Index <= Len(models)
  PROVE  /\ models \in Selections /\ Index \in DOMAIN models /\ Index \in 1 .. 3
         /\ compare \in 1 .. LastCompare
         /\ Me \in Child /\ Me \in Source /\ Me # None
         /\ Known(Selected) => subdir(Selected) \in Subdirs /\ Placed(Me, subdir(Selected))
<1>1. models \in Selections /\ compare \in 1 .. LastCompare
  BY CompareAssumption DEF Typed
<1>2. Index \in DOMAIN models
  BY RowFacts
<1>3. Index \in 1 .. 3 /\ (Known(Selected) => subdir(Selected) \in Subdirs)
  BY <1>1, <1>2, ModelFacts DEF Selected
<1>4. Me \in Child /\ Me \in Source /\ Me # None
  BY <1>1, <1>3 DEF Me, Child, Source, None
<1>5. Known(Selected) => Placed(Me, subdir(Selected))
  BY <1>1, <1>2 DEF Placed, Me, Selected
<1> QED BY <1>1, <1>2, <1>3, <1>4, <1>5

(* Nobody places something new in a directory that is not its own.         *)
LEMMA NothingPlaced == \A d : Placed(None, d)
BY DEF Placed, None

LEMMA Worker ==
  ASSUME Typed, Busy, ChildStarted
  PROVE  /\ models \in Selections /\ Index \in DOMAIN models /\ Index \in 1 .. 3
         /\ compare \in 1 .. LastCompare /\ state = "running"
         /\ Me \in Source /\ Me # None /\ Known(Selected)
         /\ child.dir = subdir(Selected) /\ child.dir \in Subdirs /\ Placed(Me, child.dir)
         /\ Given \in Directories
<1>1. state = "running" /\ Index <= Len(models) /\ Known(Selected) /\ child.dir = subdir(Selected)
  BY DEF Typed, ChildStarted
<1>2. /\ models \in Selections /\ Index \in DOMAIN models /\ Index \in 1 .. 3
      /\ compare \in 1 .. LastCompare
      /\ Me \in Source /\ Me # None
      /\ subdir(Selected) \in Subdirs /\ Placed(Me, subdir(Selected))
  BY <1>1, AtWork
<1>3. Given \in Directories
  BY <1>1, <1>2 DEF Given, Typed
<1> QED BY <1>1, <1>2, <1>3

(* What a child writes.                                                    *)
LEMMA WritesInGivenDir ==
  ASSUME Typed, Filed, Busy, ChildStarted, UNCHANGED <<compare, models>>,
         NEW files \in SUBSET DataFiles, NEW result \in Results, Placed(result.by, child.dir),
         disk' = InGivenDir(files, result)
  PROVE  /\ disk' \in [Subdirs -> Directories]
         /\ Filed'
         /\ \A d \in Subdirs \ {child.dir} : disk'[d] = disk[d]
         /\ child.moved => disk' = disk
         /\ ~child.moved =>
              /\ disk'[child.dir].result = result
              /\ \A f \in DataFiles :
                   disk'[child.dir].data[f] = IF f \in files THEN Me ELSE Given.data[f]
<1>1. /\ child.dir \in Subdirs /\ Me \in Source /\ Placed(Me, child.dir) /\ Given \in Directories
      /\ disk \in [Subdirs -> Directories]
  BY Worker DEF Typed
<1> DEFINE new == [data |-> [f \in DataFiles |-> IF f \in files THEN Me ELSE Given.data[f]],
                   result |-> result]
<1>2. new \in Directories
  BY <1>1 DEF Directories
<1>3. disk' = IF child.moved THEN disk ELSE [disk EXCEPT ![child.dir] = new]
  BY DEF InGivenDir, Given
<1>4. \A f \in DataFiles : Placed(new.data[f], child.dir)
  BY <1>1 DEF Filed, Given
<1>5. disk' \in [Subdirs -> Directories]
  <2> HIDE DEF new
  <2> QED BY <1>1, <1>2, <1>3
<1>6. \A d \in Subdirs : disk'[d] = disk[d] \/ (~child.moved /\ d = child.dir /\ disk'[d] = new)
  <2> HIDE DEF new
  <2> QED BY <1>1, <1>3
<1>7. Filed'
  <2> SUFFICES ASSUME NEW d \in Subdirs
               PROVE  /\ \A f \in DataFiles : Placed(disk'[d].data[f], d)
                      /\ Placed(disk'[d].result.by, d)
    BY DEF Filed, Placed
  <2>1. CASE disk'[d] = disk[d]
    BY <2>1 DEF Filed
  <2>2. CASE d = child.dir /\ disk'[d] = new
    <3>1. new.result = result
      OBVIOUS
    <3> HIDE DEF new
    <3> QED BY <2>2, <3>1, <1>4
  <2> QED BY <1>6, <2>1, <2>2
<1>8. ~child.moved =>
              /\ disk'[child.dir].result = result
              /\ \A f \in DataFiles :
                   disk'[child.dir].data[f] = IF f \in files THEN Me ELSE Given.data[f]
  <2>1. ~child.moved => disk'[child.dir] = new
    <3> HIDE DEF new
    <3> QED BY <1>1, <1>3
  <2> QED BY <2>1
<1> QED BY <1>3, <1>5, <1>6, <1>7, <1>8

-------------------------------------------------------------------------------
(* What every action of a child has in common.                             *)

LEMMA RowsKept ==
  ASSUME IInv, UNCHANGED <<compare, request, models, fresh>>,
         NEW i \in DOMAIN rows, rows'[i] = rows[i]
  PROVE  Row(i)'
<1>1. Row(i)
  BY DEF IInv
<1> QED BY <1>1 DEF Row, FailedSays, SucceededSays, Clean, OwnDirectories, StartedFrom, Placed

(* The directories of the others stay.                                     *)
OthersKept == \A d \in Subdirs \ {child.dir} : disk'[d] = disk[d]

LEMMA UntouchedStays ==
  ASSUME IInv, Busy, OthersKept, UNCHANGED <<state, compare, request, models, fresh>>,
         \/ Busy' /\ rows' = rows
         \/ ~Busy' /\ Len(rows') = Len(rows) + 1
  PROVE  Untouched'
<1>1. /\ models \in Selections /\ Index \in DOMAIN models /\ Known(Selected)
      /\ state = "running" /\ child.dir = subdir(Selected)
  BY Worker DEF IInv
<1>2. /\ Index = Len(rows) + 1 /\ Len(rows) \in Nat
      /\ Len(models) \in Nat /\ DOMAIN models = 1 .. Len(models)
  BY RowFacts DEF IInv
<1> SUFFICES ASSUME Clean, ~request.overwrite, NEW k \in DOMAIN models, Known(models[k]),
                    (IF Busy THEN k > Index ELSE k >= Index)'
             PROVE  disk'[subdir(models[k])].result.by = None
  BY DEF Untouched, Clean, OwnDirectories
<1>3. k > Index
  <2>1. CASE Busy' /\ rows' = rows
    BY <2>1 DEF Index
  <2>2. CASE ~Busy' /\ Len(rows') = Len(rows) + 1
    <3>1. Index' = Index + 1 /\ k >= Index'
      BY <1>2, <2>2 DEF Index
    <3> QED BY <1>2, <3>1
  <2> QED BY <2>1, <2>2
<1>4. disk[subdir(models[k])].result.by = None
  BY <1>1, <1>3 DEF IInv, Untouched
<1>5. subdir(models[k]) # child.dir /\ subdir(models[k]) \in Subdirs
  <2>1. k # Index
    BY <1>2, <1>3
  <2> QED BY <1>1, <2>1, ModelFacts DEF Clean, OwnDirectories, Selected
<1> QED BY <1>4, <1>5 DEF OthersKept

(* A child goes on.                                                        *)
LEMMA ChildGoesOn ==
  ASSUME IInv, Busy, Busy', disk' \in [Subdirs -> Directories], Filed', OthersKept,
         UNCHANGED <<shared, compare, state, request, models, fresh, rows, plots>>,
         child'.dir = child.dir, child'.moved = child.moved, child'.settings = child.settings,
         child'.structure = child.structure, child'.pc \in Working, ChildComputed',
         IsChild(child)'
  PROVE  IInv'
<1>1. Typed'
  BY DEF IInv, Typed
<1>2. ChildStarted'
  BY DEF IInv, ChildStarted, Index, Selected, StartedFrom, Clean, OwnDirectories
<1>3. Untouched'
  BY UntouchedStays
<1>4. \A i \in DOMAIN rows' : Row(i)'
  BY RowsKept
<1>5. Drawn'
  BY DEF IInv, Typed, Drawn
<1> QED BY <1>1, <1>2, <1>3, <1>4, <1>5 DEF IInv

(* A child is over, and its row is added.                                  *)
LEMMA RowAdded ==
  ASSUME IInv, Busy, disk' \in [Subdirs -> Directories], Filed', OthersKept,
         UNCHANGED <<shared, compare, state, request, models, fresh, plots>>,
         child' = NoChild, NEW x, rows' = Append(rows, x),
         NEW n, n = Index, Row(n)'
  PROVE  IInv'
<1>1. /\ rows \in Seq(Entries(rows)) /\ Len(rows) \in Nat /\ DOMAIN rows = 1 .. Len(rows)
      /\ Index = Len(rows) + 1 /\ Len(models) \in Nat /\ DOMAIN models = 1 .. Len(models)
  BY RowFacts DEF IInv
<1>2. /\ rows' \in Seq(Entries(rows')) /\ Len(rows') = Len(rows) + 1
      /\ DOMAIN rows' = 1 .. Len(rows) + 1 /\ \A i \in DOMAIN rows : rows'[i] = rows[i]
  BY <1>1, Appended
<1>3. /\ models \in Selections /\ Index \in DOMAIN models /\ state = "running"
      /\ compare \in 1 .. LastCompare
  BY Worker DEF IInv
<1>4. ~Busy'
  BY DEF Busy, NoChild
<1>5. Typed'
  <2>1. IsChild(child)'
    BY DEF IsChild, NoChild
  <2> QED BY <1>1, <1>2, <1>3, <1>4, <2>1 DEF IInv, Typed, Entries
<1>6. Untouched'
  BY <1>2, <1>4, UntouchedStays
<1>7. \A i \in DOMAIN rows' : Row(i)'
  <2> SUFFICES ASSUME NEW i \in DOMAIN rows' PROVE Row(i)'
    OBVIOUS
  <2>1. CASE i \in DOMAIN rows
    BY <1>2, <2>1, RowsKept
  <2>2. CASE i = n
    BY <2>2
  <2> QED BY <1>1, <1>2, <2>1, <2>2
<1>8. Drawn'
  BY <1>3 DEF Drawn
<1> QED BY <1>4, <1>5, <1>6, <1>7, <1>8 DEF IInv

-------------------------------------------------------------------------------
(* The actions of the comparison.                                          *)

LEMMA InitIsSound == ASSUME Init PROVE IInv
<1>1. /\ disk = [d \in Subdirs |-> EmptyDir] /\ shared = 0 /\ compare = 0 /\ state = "none"
      /\ models = <<>> /\ child = NoChild /\ rows = <<>>
  BY DEF Init
<1>2. EmptyDir \in Directories
  BY Sources DEF EmptyDir, NoData, NoResult, Directories, Results, Outcomes
<1>3. rows \in Seq(Entries(rows)) /\ Len(rows) = 0 /\ models \in Seq(STRING) /\ Len(models) = 0
  BY <1>1
<1>4. ~Busy
  BY <1>1 DEF Busy, NoChild
<1>5. Typed
  <2>1. IsChild(child)
    BY <1>1 DEF IsChild, NoChild
  <2> QED BY <1>1, <1>2, <1>3, <1>4, <2>1, Sources DEF Typed
<1>6. Filed
  BY <1>1, NothingPlaced DEF Filed, EmptyDir, NoData, NoResult
<1>7. Untouched /\ Drawn /\ DOMAIN rows = {}
  BY <1>1 DEF Untouched, Drawn
<1> QED BY <1>4, <1>5, <1>6, <1>7 DEF IInv

LEMMA StartKeeps ==
  ASSUME IInv, NEW r \in Requests, NEW selected \in Selections, StartCompare(r, selected)
  PROVE  IInv'
<1>1. /\ compare' = compare + 1 /\ compare' \in 1 .. LastCompare
      /\ state' = (IF r.relax THEN "relaxing" ELSE "running")
      /\ request' = r /\ models' = selected /\ child' = NoChild /\ rows' = <<>>
      /\ disk' = disk /\ shared' = shared /\ shared \in 0 .. LastCompare
      /\ disk \in [Subdirs -> Directories]
  <2>1. compare \in Nat /\ LastCompare \in Nat /\ compare < LastCompare
    BY RowFacts DEF IInv, StartCompare
  <2> QED BY <2>1 DEF StartCompare, IInv, Typed
<1>2. selected \in Seq(STRING) /\ Len(selected) \in 1 .. 3 /\ DOMAIN selected = 1 .. Len(selected)
  BY ModelFacts
<1>3. rows' \in Seq(Entries(rows')) /\ Len(rows') = 0 /\ DOMAIN rows' = {}
  BY <1>1
<1>4. ~Busy'
  BY <1>1 DEF Busy, NoChild
<1>5. Typed'
  <2>1. state' \in {"relaxing", "running"} /\ (state' = "running" => ~request'.relax)
    BY <1>1
  <2>2. IsChild(child)'
    BY <1>1 DEF IsChild, NoChild
  <2> QED BY <1>1, <1>2, <1>3, <1>4, <2>1, <2>2 DEF Typed
<1>6. Filed'
  <2>1. ASSUME NEW w, NEW d, Placed(w, d), NEW c \in 1 .. LastCompare, NEW k \in 1 .. 3, w = <<c, k>>
        PROVE  c < compare'
    <3>1. compare \in Nat /\ LastCompare \in Nat
      BY RowFacts DEF IInv
    <3> QED BY <1>1, <2>1, <3>1 DEF Placed
  <2> SUFFICES ASSUME NEW d \in Subdirs
               PROVE  /\ \A f \in DataFiles : Placed(disk[d].data[f], d)'
                      /\ Placed(disk[d].result.by, d)'
    BY DEF Filed
  <2>2. (\A f \in DataFiles : Placed(disk[d].data[f], d)) /\ Placed(disk[d].result.by, d)
    BY DEF IInv, Filed
  <2>3. ASSUME NEW w, Placed(w, d)
        PROVE  \A c \in 1 .. LastCompare, k \in 1 .. 3 : w = <<c, k>> => c <= compare' /\ c # compare'
    <3>1. compare' \in Nat /\ LastCompare \in Nat
      BY <1>1, RowFacts DEF IInv
    <3> QED BY <2>1, <2>3, <3>1
  <2>4. ASSUME NEW f \in DataFiles PROVE Placed(disk[d].data[f], d)'
    <3>1. PICK w : w = disk[d].data[f]
      OBVIOUS
    <3>2. \A c \in 1 .. LastCompare, k \in 1 .. 3 : w = <<c, k>> => c <= compare' /\ c # compare'
      BY <2>2, <2>3, <3>1
    <3>3. disk'[d].data[f] = w
      BY <1>1, <3>1
    <3> QED BY <3>2, <3>3 DEF Placed
  <2>5. Placed(disk[d].result.by, d)'
    <3>1. PICK w : w = disk[d].result.by
      OBVIOUS
    <3>2. \A c \in 1 .. LastCompare, k \in 1 .. 3 : w = <<c, k>> => c <= compare' /\ c # compare'
      BY <2>2, <2>3, <3>1
    <3>3. disk'[d].result.by = w
      BY <1>1, <3>1
    <3> QED BY <3>2, <3>3 DEF Placed
  <2> QED BY <2>4, <2>5
<1>7. Untouched'
  <2> SUFFICES ASSUME fresh', ~request'.overwrite, NEW k \in DOMAIN models', Known(models'[k])
               PROVE  disk'[subdir(models'[k])].result.by = None
    BY DEF Untouched, Clean
  <2> QED BY <1>1 DEF StartCompare
<1>8. Drawn'
  BY <1>1 DEF Drawn
<1> QED BY <1>3, <1>4, <1>5, <1>6, <1>7, <1>8 DEF IInv

LEMMA RelaxKeeps == ASSUME IInv, Relax PROVE IInv'
<1>1. /\ state = "relaxing" /\ rows = <<>> /\ ~Busy /\ compare \in 0 .. LastCompare
      /\ UNCHANGED <<disk, compare, request, models, fresh, child, rows, plots>>
      /\ \/ state' = "running" /\ shared' = compare
         \/ state' = "raised" /\ shared' = shared
  BY DEF Relax, IInv, Typed
<1>2. Typed'
  BY <1>1 DEF IInv, Typed, Busy, IsChild
<1>3. Filed' /\ ~Busy' /\ DOMAIN rows' = {}
  BY <1>1 DEF IInv, Filed, Placed, Busy
<1>4. Untouched'
  BY <1>1 DEF IInv, Untouched, Clean, OwnDirectories, Busy, Index
<1>5. Drawn'
  BY <1>1 DEF Drawn
<1> QED BY <1>2, <1>3, <1>4, <1>5 DEF IInv

LEMMA UnknownKeeps == ASSUME IInv, Unknown PROVE IInv'
<1> DEFINE row == [NoRow EXCEPT !.category = "runtime_error"]
<1>1. /\ ~Busy /\ state = "running" /\ Index <= Len(models)
      /\ rows' = Append(rows, row) /\ ~Known(Selected)
      /\ UNCHANGED <<disk, shared, compare, state, request, models, fresh, child, plots>>
  BY DEF Unknown, Pending, Busy
<1>2. /\ rows \in Seq(Entries(rows)) /\ Len(rows) \in Nat /\ DOMAIN rows = 1 .. Len(rows)
      /\ Index = Len(rows) + 1 /\ Len(models) \in Nat /\ DOMAIN models = 1 .. Len(models)
  BY RowFacts DEF IInv
<1>3. /\ rows' \in Seq(Entries(rows')) /\ Len(rows') = Len(rows) + 1
      /\ DOMAIN rows' = 1 .. Len(rows) + 1 /\ \A i \in DOMAIN rows : rows'[i] = rows[i]
      /\ rows'[Len(rows) + 1] = row
  <2> HIDE DEF row
  <2> QED BY <1>1, <1>2, Appended
<1>4. ~Busy'
  BY <1>1 DEF Busy
<1>5. Typed'
  <2> HIDE DEF row
  <2> QED BY <1>1, <1>2, <1>3, <1>4 DEF IInv, Typed, Entries, IsChild
<1>6. Filed'
  BY <1>1 DEF IInv, Filed, Placed
<1>7. Untouched'
  <2> HIDE DEF row
  <2>1. Index' = Index + 1
    BY <1>2, <1>3 DEF Index
  <2> QED BY <1>1, <1>2, <1>4, <2>1 DEF IInv, Untouched, Clean, OwnDirectories
<1>8. \A i \in DOMAIN rows' : Row(i)'
  <2> SUFFICES ASSUME NEW i \in DOMAIN rows' PROVE Row(i)'
    OBVIOUS
  <2>1. CASE i \in DOMAIN rows
    <3> HIDE DEF row
    <3> QED BY <1>1, <1>3, <2>1, RowsKept
  <2>2. CASE i = Len(rows) + 1
    <3>1. rows'[i].status = "failed" /\ rows'[i].category # "none" /\ rows'[i].outcome = "failed"
          /\ rows'[i].data = NoData /\ rows'[i].settings = NoSettings
      BY <1>3, <2>2 DEF NoRow
    <3> HIDE DEF row
    <3> QED BY <3>1 DEF Row, FailedSays
  <2> QED BY <1>2, <1>3, <2>1, <2>2
<1>9. Drawn'
  BY <1>1 DEF Drawn
<1> QED BY <1>4, <1>5, <1>6, <1>7, <1>8, <1>9 DEF IInv

LEMMA BeginKeeps == ASSUME IInv, Begin PROVE IInv'
<1>1. /\ ~Busy /\ state = "running" /\ Index <= Len(models) /\ Known(Selected)
      /\ UNCHANGED <<disk, shared, compare, state, request, models, fresh, rows, plots>>
      /\ child' = [NoChild EXCEPT
           !.pc        = IF request.dry_run THEN "result" ELSE "phonons",
           !.dir       = subdir(Selected),
           !.moved     = Moves(subdir(Selected)),
           !.settings  = SettingsOf(request, Selected),
           !.structure = IF request.relax THEN shared ELSE 0]
  BY DEF Begin, Pending, Busy
<1>2. /\ models \in Selections /\ Index \in DOMAIN models
      /\ Index = Len(rows) + 1 /\ Len(rows) \in Nat /\ DOMAIN models = 1 .. Len(models)
      /\ subdir(Selected) \in Subdirs
  BY <1>1, AtWork, RowFacts DEF IInv
<1>3. /\ child'.pc = (IF request.dry_run THEN "result" ELSE "phonons")
      /\ child'.dir = subdir(Selected) /\ child'.moved = Moves(subdir(Selected))
      /\ child'.settings = SettingsOf(request, Selected)
      /\ child'.structure = (IF request.relax THEN shared ELSE 0)
      /\ child'.computed = {} /\ child'.thermal = "skipped"
  BY <1>1 DEF NoChild
<1>4. Busy' /\ child'.pc \in Working
  BY <1>3 DEF Busy, Working
<1>5. Typed' /\ Filed'
  <2>1. IsChild(child)'
    BY <1>1 DEF IsChild, NoChild
  <2> QED BY <1>1, <1>4, <2>1 DEF IInv, Typed, Filed, Placed
<1>6. ChildStarted'
  <2>1. Clean => ~child'.moved
    <3> SUFFICES ASSUME Clean, ~request.overwrite PROVE disk[subdir(Selected)].result.by = None
      BY <1>3 DEF Moves
    <3> QED BY <1>1, <1>2 DEF IInv, Untouched, Selected
  <2>2. child'.structure = StartedFrom
    BY <1>1, <1>3 DEF IInv, Typed, StartedFrom
  <2> QED BY <1>1, <1>3, <1>4, <2>1, <2>2
          DEF ChildStarted, Index, Selected, Clean, OwnDirectories, StartedFrom
<1>7. ChildComputed'
  BY <1>1, <1>3 DEF ChildComputed, Outcomes
<1>8. Untouched'
  BY <1>1, <1>2, <1>4 DEF IInv, Untouched, Clean, OwnDirectories, Index
<1>9. \A i \in DOMAIN rows' : Row(i)'
  BY <1>1, RowsKept
<1>10. Drawn'
  BY <1>1 DEF Drawn
<1> QED BY <1>5, <1>6, <1>7, <1>8, <1>9, <1>10 DEF IInv

-------------------------------------------------------------------------------
(* The actions of a child.                                                 *)

LEMMA PhononsKeep == ASSUME IInv, Phonons PROVE IInv'
<1>1. PICK velocities \in {{}, {"velocity"}} :
        LET files == {"band"} \cup velocities
                     \cup (IF child.settings["dos"] = "true" THEN {"dos"} ELSE {})
        IN  /\ disk' = Write(files)
            /\ child' = [child EXCEPT !.pc = IF request.compute_kappa THEN "thermal" ELSE "result",
                                      !.computed = files]
  BY DEF Phonons
<1> DEFINE files == {"band"} \cup velocities
                    \cup (IF child.settings["dos"] = "true" THEN {"dos"} ELSE {})
<1>2. files \in SUBSET DataFiles /\ "band" \in files /\ "lifetime" \notin files
  BY DEF DataFiles
<1>3. PICK written \in SUBSET DataFiles : written = files
  BY <1>2
<1>4. /\ Busy /\ child.pc = "phonons"
      /\ disk' = InGivenDir(written, Given.result)
      /\ child' = [child EXCEPT !.pc = IF request.compute_kappa THEN "thermal" ELSE "result",
                                !.computed = written]
      /\ UNCHANGED <<shared, compare, state, request, models, fresh, rows, plots>>
  BY <1>1, <1>3 DEF Phonons, Busy, Write
<1>5. "band" \in written /\ "lifetime" \notin written
  BY <1>2, <1>3
<1> HIDE DEF files
<1>6. ChildStarted /\ ChildComputed /\ Typed /\ Filed
  BY <1>4 DEF IInv
<1>7. /\ child'.pc = (IF request.compute_kappa THEN "thermal" ELSE "result")
      /\ child'.dir = child.dir /\ child'.moved = child.moved /\ child'.settings = child.settings
      /\ child'.structure = child.structure /\ child'.computed = written
      /\ child'.thermal = child.thermal /\ IsChild(child)'
  BY <1>4, <1>6 DEF Typed, IsChild
<1>8. Busy' /\ child'.pc \in Working \ {"exited"}
  BY <1>7 DEF Busy, Working
<1>9. Given \in Directories /\ child.dir \in Subdirs
  BY <1>4, <1>6, Worker
<1>10. Given.result \in Results /\ Placed(Given.result.by, child.dir)
  BY <1>6, <1>9 DEF Directories, Filed, Given
<1>11. PICK result \in Results : result = Given.result
  BY <1>10
<1>12. /\ disk' \in [Subdirs -> Directories] /\ Filed' /\ OthersKept
       /\ ~child.moved => \A f \in written : disk'[child.dir].data[f] = Me
  BY <1>4, <1>6, <1>10, <1>11, WritesInGivenDir DEF OthersKept
<1>13. ChildComputed'
  BY <1>4, <1>5, <1>6, <1>7, <1>8, <1>12 DEF ChildComputed, Me, Index
<1> QED BY <1>4, <1>7, <1>8, <1>12, <1>13, ChildGoesOn

LEMMA ThermalsKeep == ASSUME IInv, Thermals PROVE IInv'
<1>1. PICK thermal \in {"completed", "failed"},
           written \in {{}, {"conductivity"}, {"conductivity", "lifetime"}} :
        /\ disk' = Write(written)
        /\ child' = [child EXCEPT !.pc = "result", !.thermal = thermal, !.computed = @ \cup written]
  BY DEF Thermals
<1>2. /\ Busy /\ child.pc = "thermal"
      /\ disk' = InGivenDir(written, Given.result) /\ written \in SUBSET DataFiles
      /\ UNCHANGED <<shared, compare, state, request, models, fresh, rows, plots>>
  BY <1>1 DEF Thermals, Busy, Write, DataFiles
<1>3. ChildStarted /\ ChildComputed /\ Typed /\ Filed
  BY <1>2 DEF IInv
<1>4. /\ child'.pc = "result" /\ child'.thermal = thermal
      /\ child'.dir = child.dir /\ child'.moved = child.moved /\ child'.settings = child.settings
      /\ child'.structure = child.structure /\ child'.computed = child.computed \cup written
      /\ IsChild(child)'
  BY <1>1, <1>3 DEF Typed, IsChild
<1>5. Busy' /\ child'.pc \in Working
  BY <1>4 DEF Busy, Working
<1>6. Given \in Directories /\ child.dir \in Subdirs
  BY <1>2, <1>3, Worker
<1>7. Given.result \in Results /\ Placed(Given.result.by, child.dir)
  BY <1>3, <1>6 DEF Directories, Filed, Given
<1>8. PICK result \in Results : result = Given.result
  BY <1>7
<1>9. /\ disk' \in [Subdirs -> Directories] /\ Filed' /\ OthersKept
      /\ ~child.moved => \A f \in DataFiles :
           disk'[child.dir].data[f] = IF f \in written THEN Me ELSE Given.data[f]
  BY <1>2, <1>3, <1>7, <1>8, WritesInGivenDir DEF OthersKept
<1>10. ChildComputed'
  <2>1. ~child.moved => \A f \in child.computed \cup written : disk'[child.dir].data[f] = Me
    BY <1>2, <1>3, <1>9 DEF ChildComputed, Given
  <2>2. thermal \in Outcomes
    BY DEF Outcomes
  <2> QED BY <1>2, <1>3, <1>4, <2>1, <2>2 DEF ChildComputed, Me, Index
<1> QED BY <1>2, <1>4, <1>5, <1>9, <1>10, ChildGoesOn

(* The result of this comparison's child, whole or cut off.                *)
LEMMA ResultFacts ==
  ASSUME Typed, Busy, ChildStarted, ChildComputed
  PROVE  \A torn \in BOOLEAN :
           /\ Result(torn) \in Results /\ Result(torn).by = Me /\ Result(torn).torn = torn
           /\ Placed(Result(torn).by, child.dir)
<1>1. Me \in Source /\ Placed(Me, child.dir) /\ LastCompare \in Nat
  BY Worker, Sources
<1> QED BY <1>1 DEF Result, Results, ChildComputed

LEMMA WriteResultKeeps == ASSUME IInv, WriteResult PROVE IInv'
<1>1. /\ Busy /\ child.pc = "result" /\ child' = [child EXCEPT !.pc = "exited"]
      /\ disk' = InGivenDir({}, Result(FALSE))
      /\ UNCHANGED <<shared, compare, state, request, models, fresh, rows, plots>>
  BY DEF WriteResult, Goto, Busy
<1>2. ChildStarted /\ ChildComputed /\ Typed /\ Filed
  BY <1>1 DEF IInv
<1>3. /\ child'.pc = "exited" /\ child'.thermal = child.thermal
      /\ child'.dir = child.dir /\ child'.moved = child.moved /\ child'.settings = child.settings
      /\ child'.structure = child.structure /\ child'.computed = child.computed
      /\ IsChild(child)'
  BY <1>1, <1>2 DEF Typed, IsChild
<1>4. Busy' /\ child'.pc \in Working
  BY <1>3 DEF Busy, Working
<1>5. PICK result \in Results : result = Result(FALSE) /\ Placed(result.by, child.dir)
  BY <1>1, <1>2, ResultFacts
<1>6. /\ disk' \in [Subdirs -> Directories] /\ Filed' /\ OthersKept
      /\ ~child.moved =>
           /\ disk'[child.dir].result = Result(FALSE)
           /\ \A f \in DataFiles : disk'[child.dir].data[f] = Given.data[f]
  <2>1. PICK written \in SUBSET DataFiles : written = {}
    OBVIOUS
  <2> QED BY <1>1, <1>2, <1>5, <2>1, WritesInGivenDir DEF OthersKept
<1>7. ChildComputed'
  <2>1. Me' = Me /\ Result(FALSE)' = Result(FALSE)
    BY <1>1, <1>3 DEF Me, Index, Result
  <2>2. ~child.moved => \A f \in child.computed : disk'[child.dir].data[f] = Me
    BY <1>1, <1>2, <1>6 DEF ChildComputed, Given
  <2> QED BY <1>1, <1>2, <1>3, <1>6, <2>1, <2>2 DEF ChildComputed
<1> QED BY <1>1, <1>3, <1>4, <1>6, <1>7, ChildGoesOn

-------------------------------------------------------------------------------
(* The rows.                                                               *)

(* What the parent takes for the child's report.                           *)
LEMMA ReportFacts ==
  ASSUME IInv, child.pc = "exited"
  PROVE  /\ Report \in Results /\ Placed(Report.by, child.dir)
         /\ ~child.moved => Report = Result(FALSE)
<1>1. Busy /\ ChildStarted /\ ChildComputed /\ Typed /\ Filed
  BY DEF Busy, IInv
<1>2. Given \in Directories /\ child.dir \in Subdirs
  BY <1>1, Worker
<1>3. Given.result \in Results /\ Placed(Given.result.by, child.dir)
  BY <1>1, <1>2 DEF Directories, Filed, Given
<1>4. Result(FALSE) \in Results /\ Placed(Result(FALSE).by, child.dir)
  BY <1>1, ResultFacts
<1>5. ~child.moved => Given.result = Result(FALSE)
  BY <1>1 DEF ChildComputed, Given
<1> QED BY <1>3, <1>4, <1>5 DEF Report

LEMMA CollectKeeps == ASSUME IInv, Collect PROVE IInv'
<1>1. /\ Busy /\ child.pc = "exited" /\ ~Report.torn /\ child' = NoChild
      /\ disk' = (IF request.relax
                  THEN [disk EXCEPT ![child.dir].result = WithSharedRelax(Report)]
                  ELSE disk)
      /\ rows' = Append(rows, SummaryRow)
      /\ UNCHANGED <<shared, compare, state, request, models, fresh, plots>>
  BY DEF Collect, Busy
<1>2. ChildStarted /\ ChildComputed /\ Typed /\ Filed
  BY <1>1 DEF IInv
<1>3. /\ Report \in Results /\ Placed(Report.by, child.dir)
      /\ ~child.moved => Report = Result(FALSE)
  BY <1>1, ReportFacts
<1>4. /\ Given \in Directories /\ child.dir \in Subdirs /\ Index \in DOMAIN models
      /\ Known(Selected) /\ child.dir = subdir(Selected) /\ Me = <<compare, Index>>
  BY <1>1, <1>2, Worker DEF Me
<1>5. PICK noted : noted = WithSharedRelax(Report)
  OBVIOUS
<1>6. noted \in Results /\ noted.by = Report.by
  BY <1>2, <1>3, <1>5 DEF WithSharedRelax, Results, Typed
<1>7. /\ disk' \in [Subdirs -> Directories] /\ OthersKept
      /\ disk'[child.dir].data = disk[child.dir].data
      /\ disk'[child.dir].result.by \in {disk[child.dir].result.by, Report.by}
  <2>1. CASE request.relax
    <3>1. disk' = [disk EXCEPT ![child.dir].result = noted]
      BY <1>1, <1>5, <2>1
    <3>2. Given = disk[child.dir] /\ disk \in [Subdirs -> Directories]
      BY <1>2 DEF Typed, Given
    <3>3. [Given EXCEPT !.result = noted] \in Directories
      BY <1>4, <1>6 DEF Directories
    <3>4. disk' = [disk EXCEPT ![child.dir] = [Given EXCEPT !.result = noted]]
      BY <3>1, <3>2
    <3>5. /\ disk' \in [Subdirs -> Directories] /\ OthersKept
          /\ disk'[child.dir] = [Given EXCEPT !.result = noted]
      BY <1>4, <3>2, <3>3, <3>4 DEF OthersKept
    <3>6. disk'[child.dir].data = Given.data /\ disk'[child.dir].result = noted
      BY <1>4, <3>5 DEF Directories
    <3> QED BY <1>6, <3>2, <3>5, <3>6
  <2>2. CASE ~request.relax
    BY <1>1, <1>2, <2>2 DEF Typed, OthersKept
  <2> QED BY <2>1, <2>2
<1>8. Filed'
  <2> SUFFICES ASSUME NEW d \in Subdirs
               PROVE  /\ \A f \in DataFiles : Placed(disk'[d].data[f], d)
                      /\ Placed(disk'[d].result.by, d)
    BY <1>1 DEF Filed, Placed
  <2>1. (\A f \in DataFiles : Placed(disk[d].data[f], d)) /\ Placed(disk[d].result.by, d)
    BY <1>2 DEF Filed
  <2>2. CASE d = child.dir
    BY <1>3, <1>7, <2>1, <2>2
  <2>3. CASE d # child.dir
    BY <1>7, <2>1, <2>3 DEF OthersKept
  <2> QED BY <2>2, <2>3
<1>9. PICK n : n = Index
  OBVIOUS
<1>10. PICK x : x = SummaryRow
  OBVIOUS
<1>11. rows'[n] = x
  BY <1>1, <1>9, <1>10, Appended, RowFacts DEF IInv
<1>12. Row(n)'
  <2> DEFINE data == [Given.data EXCEPT !["conductivity"] = ConductivityOf(Report)]
  <2>1. /\ x.status \in {"success", "dry-run"} /\ x.category = "none" /\ x.outcome = "success"
        /\ x.by = Report.by /\ x.data = data /\ x.computed = child.computed
        /\ x.settings = child.settings /\ x.structure = child.structure
    BY <1>10 DEF SummaryRow
  <2>2. Given.data \in [DataFiles -> Source] /\ \A f \in DataFiles : Placed(Given.data[f], child.dir)
    BY <1>2, <1>4 DEF Directories, Filed, Given
  <2>3. ConductivityOf(Report) \in Source /\ Placed(ConductivityOf(Report), child.dir)
    BY <1>3, <2>2 DEF ConductivityOf, Results, DataFiles
  <2>4. /\ data \in [DataFiles -> Source]
        /\ \A f \in DataFiles : Placed(data[f], child.dir)
    BY <2>2, <2>3
  <2>5. ASSUME Clean, ~request.dry_run
        PROVE  /\ x.by = Me /\ "band" \in x.computed
               /\ \A f \in x.computed : data[f] = Me
    <3>1. ~child.moved /\ Report.by = Me
      BY <1>2, <1>3, <2>5 DEF ChildStarted, Result
    <3>2. \A f \in child.computed : Given.data[f] = Me /\ f \in DataFiles
      BY <1>2, <3>1 DEF ChildComputed, Given
    <3>3. \A f \in child.computed : data[f] = Me
      BY <2>2, <3>1, <3>2 DEF ConductivityOf
    <3>4. "band" \in child.computed
      BY <1>1, <1>2, <2>5 DEF ChildComputed
    <3> HIDE DEF data
    <3> QED BY <2>1, <3>1, <3>3, <3>4
  <2> HIDE DEF data
  <2>6. models'[n] = Selected /\ x.settings = SettingsOf(request, models'[n])
    BY <1>1, <1>2, <1>9, <2>1 DEF Selected, ChildStarted
  <2>7. x.structure = StartedFrom'
    BY <1>1, <1>2, <2>1 DEF ChildStarted, StartedFrom
  <2>8. x.computed \subseteq DataFiles /\ ("lifetime" \in x.computed => request.compute_kappa)
    BY <1>2, <2>1 DEF ChildComputed
  <2>9. SucceededSays(n)'
    <3>1. \A f \in DataFiles : Placed(x.data[f], subdir(models[n]))'
      BY <1>1, <1>4, <2>1, <2>4, <2>6 DEF Placed
    <3>2. Clean' = Clean
      BY <1>1 DEF Clean, OwnDirectories
    <3> QED BY <1>1, <1>4, <1>9, <1>11, <2>1, <2>4, <2>5, <2>6, <2>8, <3>1, <3>2 DEF SucceededSays
  <2> QED BY <1>1, <1>11, <2>1, <2>6, <2>7, <2>9 DEF Row
<1> QED BY <1>1, <1>7, <1>8, <1>9, <1>10, <1>12, RowAdded

LEMMA FailedRowFits ==
  ASSUME IInv, Busy, UNCHANGED <<compare, request, models, fresh>>,
         NEW category, category # "none", NEW outcome, outcome = "failed" \/ ~Clean,
         NEW n, n = Index, rows'[n] = FailedRow(category, outcome)
  PROVE  Row(n)'
<1>1. PICK x : x = FailedRow(category, outcome)
  OBVIOUS
<1>2. /\ x.status = "failed" /\ x.category = category /\ x.outcome = outcome /\ x.data = NoData
      /\ x.settings = child.settings /\ x.structure = child.structure
  BY <1>1 DEF FailedRow, NoRow
<1>3. x.settings = SettingsOf(request, models[n]) /\ x.structure = StartedFrom
  BY <1>2 DEF IInv, ChildStarted, Selected
<1>4. rows'[n] = x /\ StartedFrom' = StartedFrom /\ Clean' = Clean
  BY <1>1 DEF StartedFrom, Clean, OwnDirectories
<1>5. x.settings = SettingsOf(request', models'[n])
  BY <1>3
<1> QED BY <1>2, <1>3, <1>4, <1>5 DEF Row, FailedSays

LEMMA CollectTornKeeps == ASSUME IInv, CollectTorn PROVE IInv'
<1>1. /\ Busy /\ child.pc = "exited" /\ Report.torn /\ child' = NoChild
      /\ rows' = Append(rows, FailedRow("runtime_error", "success"))
      /\ UNCHANGED <<disk, shared, compare, state, request, models, fresh, plots>>
  BY DEF CollectTorn, Busy
<1>2. ~Clean
  <2>1. ~child.moved => Report = Result(FALSE)
    BY <1>1, ReportFacts
  <2> QED BY <1>1, <2>1 DEF IInv, ChildStarted, Result
<1>3. disk' \in [Subdirs -> Directories] /\ Filed' /\ OthersKept
  BY <1>1 DEF IInv, Typed, Filed, Placed, OthersKept
<1>4. PICK n : n = Index
  OBVIOUS
<1>5. PICK x : x = FailedRow("runtime_error", "success")
  OBVIOUS
<1>6. rows'[n] = x
  BY <1>1, <1>4, <1>5, Appended, RowFacts DEF IInv
<1>7. Row(n)'
  BY <1>1, <1>2, <1>4, <1>5, <1>6, FailedRowFits
<1> QED BY <1>1, <1>3, <1>4, <1>5, <1>7, RowAdded

(* A result that is cut off is still in the child's directory.             *)
LEMMA CutOffKeeps ==
  ASSUME IInv, Busy, UNCHANGED <<compare, models>>,
         disk' = disk \/ disk' = InGivenDir({}, Result(TRUE))
  PROVE  disk' \in [Subdirs -> Directories] /\ Filed' /\ OthersKept
<1>1. ChildStarted /\ ChildComputed /\ Typed /\ Filed
  BY DEF IInv
<1>2. CASE disk' = disk
  BY <1>1, <1>2 DEF Typed, Filed, Placed, OthersKept
<1>3. CASE disk' = InGivenDir({}, Result(TRUE))
  <2>1. PICK result \in Results : result = Result(TRUE) /\ Placed(result.by, child.dir)
    BY <1>1, ResultFacts
  <2>2. PICK written \in SUBSET DataFiles : written = {}
    OBVIOUS
  <2> QED BY <1>1, <1>3, <2>1, <2>2, WritesInGivenDir DEF OthersKept
<1> QED BY <1>2, <1>3

LEMMA FailKeeps ==
  ASSUME IInv, NEW cause \in {"exception", "killed"}, Fail(cause)
  PROVE  IInv'
<1>1. /\ Busy /\ child' = NoChild
      /\ rows' = Append(rows, FailedRow(Classify(cause), "failed"))
      /\ disk' = disk \/ disk' = InGivenDir({}, Result(TRUE))
      /\ UNCHANGED <<shared, compare, state, request, models, fresh, plots>>
  BY DEF Fail, Busy
<1>2. disk' \in [Subdirs -> Directories] /\ Filed' /\ OthersKept
  BY <1>1, CutOffKeeps
<1>3. Classify(cause) # "none"
  BY DEF Classify
<1>4. PICK n : n = Index
  OBVIOUS
<1>5. PICK x : x = FailedRow(Classify(cause), "failed")
  OBVIOUS
<1>6. rows'[n] = x
  BY <1>1, <1>4, <1>5, Appended, RowFacts DEF IInv
<1>7. Row(n)'
  BY <1>1, <1>3, <1>4, <1>5, <1>6, FailedRowFits
<1> QED BY <1>1, <1>2, <1>4, <1>5, <1>7, RowAdded

-------------------------------------------------------------------------------
(* The ends.                                                               *)

LEMMA EndKeeps == ASSUME IInv, EndCompare PROVE IInv'
<1>1. /\ state = "running" /\ Index > Len(models) /\ state' = "ended" /\ plots' = Plots
      /\ UNCHANGED <<disk, shared, compare, request, models, fresh, child, rows>>
  BY DEF EndCompare, Plots
<1>2. Len(rows) = Len(models)
  <2>1. /\ Index = Len(rows) + 1 /\ Len(rows) \in Nat /\ Len(models) \in Nat
        /\ Len(rows) <= Len(models)
    BY RowFacts DEF IInv
  <2> QED BY <1>1, <2>1
<1>3. ~Busy
  BY <1>1, RowFacts DEF IInv, ChildStarted
<1>4. Typed' /\ Filed' /\ ~Busy'
  BY <1>1, <1>3 DEF IInv, Typed, Filed, Placed, Busy, IsChild
<1>5. Untouched'
  BY <1>1 DEF Untouched
<1>6. \A i \in DOMAIN rows' : Row(i)'
  BY <1>1, RowsKept
<1>7. Drawn'
  <2>1. Plots' = Plots
    BY <1>1 DEF Plots, KappaBars, ThermalCurves, BandCurves, DosCurves, VelocityClouds,
                LifetimeClouds, Shown
  <2> QED BY <1>1, <1>2, <2>1 DEF Drawn
<1> QED BY <1>4, <1>5, <1>6, <1>7 DEF IInv

LEMMA KillKeeps == ASSUME IInv, KillCompare PROVE IInv'
<1>1. /\ state \in {"relaxing", "running"} /\ state' = "killed"
      /\ child' = NoChild /\ rows' = <<>>
      /\ disk' = disk \/ (Busy /\ disk' = InGivenDir({}, Result(TRUE)))
      /\ UNCHANGED <<shared, compare, request, models, fresh, plots>>
  BY DEF KillCompare, Busy
<1>2. disk' \in [Subdirs -> Directories] /\ Filed'
  <2>1. CASE Busy
    BY <1>1, <2>1, CutOffKeeps
  <2>2. CASE disk' = disk
    BY <1>1, <2>2 DEF IInv, Typed, Filed, Placed
  <2> QED BY <1>1, <2>1, <2>2
<1>3. /\ rows' \in Seq(Entries(rows')) /\ Len(rows') = 0 /\ DOMAIN rows' = {}
      /\ ~Busy' /\ IsChild(child)'
  <2>1. rows' \in Seq(Entries(rows')) /\ Len(rows') = 0 /\ DOMAIN rows' = {}
    BY <1>1
  <2>2. ~Busy' /\ IsChild(child)'
    BY <1>1 DEF Busy, NoChild, IsChild
  <2> QED BY <2>1, <2>2
<1>4. Len(models) \in Nat
  BY RowFacts DEF IInv
<1>5. Typed'
  BY <1>1, <1>2, <1>3, <1>4 DEF IInv, Typed
<1>6. Untouched' /\ Drawn'
  BY <1>1 DEF Untouched, Drawn
<1> QED BY <1>2, <1>3, <1>5, <1>6 DEF IInv

LEMMA StutterKeeps == ASSUME IInv, UNCHANGED vars PROVE IInv'
<1>1. UNCHANGED <<disk, shared, compare, state, request, models, fresh, child, rows, plots>>
  BY DEF vars
<1>2. Typed' /\ Filed' /\ Busy' = Busy
  BY <1>1 DEF IInv, Typed, Filed, Placed, Busy, IsChild
<1>3. Busy' => ChildStarted' /\ ChildComputed'
  BY <1>1 DEF IInv, Busy, ChildStarted, ChildComputed, Index, Selected, StartedFrom, Clean,
              OwnDirectories, Me, Result
<1>4. Untouched'
  BY <1>1 DEF IInv, Untouched, Clean, OwnDirectories, Busy, Index
<1>5. \A i \in DOMAIN rows' : Row(i)'
  BY <1>1, RowsKept
<1>6. Drawn'
  BY <1>1 DEF IInv, Drawn, Plots, KappaBars, ThermalCurves, BandCurves, DosCurves,
              VelocityClouds, LifetimeClouds, Shown
<1> QED BY <1>2, <1>3, <1>4, <1>5, <1>6 DEF IInv

THEOREM Inductive == Spec => []IInv
<1>1. Init => IInv
  BY InitIsSound
<1>2. IInv /\ [Next]_vars => IInv'
  <2> SUFFICES ASSUME IInv, [Next]_vars PROVE IInv'
    OBVIOUS
  <2>1. CASE \E r \in Requests, selected \in Selections : StartCompare(r, selected)
    BY <2>1, StartKeeps
  <2>2. CASE Relax
    BY <2>2, RelaxKeeps
  <2>3. CASE Unknown
    BY <2>3, UnknownKeeps
  <2>4. CASE Begin
    BY <2>4, BeginKeeps
  <2>5. CASE Phonons
    BY <2>5, PhononsKeep
  <2>6. CASE Thermals
    BY <2>6, ThermalsKeep
  <2>7. CASE WriteResult
    BY <2>7, WriteResultKeeps
  <2>8. CASE Collect
    BY <2>8, CollectKeeps
  <2>9. CASE CollectTorn
    BY <2>9, CollectTornKeeps
  <2>10. CASE \E cause \in {"exception", "killed"} : Fail(cause)
    BY <2>10, FailKeeps
  <2>11. CASE EndCompare
    BY <2>11, EndKeeps
  <2>12. CASE KillCompare
    BY <2>12, KillKeeps
  <2>13. CASE Rest \/ UNCHANGED vars
    BY <2>13, StutterKeeps DEF Rest
  <2> QED BY <2>1, <2>2, <2>3, <2>4, <2>5, <2>6, <2>7, <2>8, <2>9, <2>10, <2>11, <2>12, <2>13
          DEF Next
<1> QED BY <1>1, <1>2, PTL DEF Spec

-------------------------------------------------------------------------------
(* The theorems.                                                           *)

(* Every model selected has its row, and the row tells success from        *)
(* failure; a model that failed is in no plot.                             *)
THEOREM EveryModelIsReported == Spec => []EveryModelHasItsRow
<1>1. IInv => EveryModelHasItsRow
  <2> SUFFICES ASSUME IInv, state = "ended"
               PROVE  /\ Len(rows) = Len(models)
                      /\ \A i \in DOMAIN rows :
                           /\ rows[i].status = "failed" => rows[i].outcome = "failed" \/ ~fresh \/ ~OwnDirectories
                           /\ rows[i].status # "failed" => rows[i].outcome = "success" /\ Known(models[i])
                           /\ rows[i].category = "none" <=> rows[i].status # "failed"
                           /\ (rows[i].status = "failed" /\ OwnDirectories) =>
                                \A p \in PlotNames : <<compare, i>> \notin plots[p]
    BY DEF EveryModelHasItsRow
  <2>1. Len(rows) = Len(models) /\ plots = Plots
    BY DEF IInv, Drawn
  <2>2. \A i \in DOMAIN rows : Row(i)
    BY DEF IInv
  <2>3. ASSUME NEW i \in DOMAIN rows, rows[i].status = "failed", OwnDirectories,
               NEW p \in PlotNames, <<compare, i>> \in plots[p]
        PROVE  FALSE
    <3>1. PICK f \in DataFiles : plots[p] \subseteq Shown(f, {"success", "dry-run"})
      BY <2>1 DEF Plots, PlotNames, DataFiles, KappaBars, ThermalCurves, BandCurves, DosCurves,
                  VelocityClouds, LifetimeClouds, Shown
    <3>2. PICK j \in DOMAIN rows : /\ rows[j].status \in {"success", "dry-run"}
                                   /\ rows[j].data[f] = <<compare, i>>
      BY <2>3, <3>1 DEF Shown
    <3>3. SucceededSays(j) /\ Known(models[j]) /\ Placed(rows[j].data[f], subdir(models[j]))
      BY <2>2, <3>2 DEF Row, SucceededSays
    <3>4. models \in Selections /\ compare \in 1 .. LastCompare /\ i \in 1 .. 3 /\ i \in DOMAIN models
      <4>1. models \in Selections /\ compare \in 1 .. LastCompare
        BY CompareAssumption DEF IInv, Typed
      <4>2. i \in DOMAIN models
        BY RowFacts DEF IInv
      <4> QED BY <4>1, <4>2, ModelFacts
    <3>5. i \in DOMAIN models /\ Known(models[i]) /\ subdir(models[i]) = subdir(models[j])
      BY <3>2, <3>3, <3>4 DEF Placed
    <3>6. j \in DOMAIN models /\ i # j
      BY <2>3, <3>2, RowFacts DEF IInv
    <3> QED BY <2>3, <3>3, <3>5, <3>6 DEF OwnDirectories
  <2> QED BY <2>1, <2>2, <2>3 DEF Row, FailedSays, SucceededSays, Clean
<1> QED BY <1>1, Inductive, PTL

(* Where every model has a directory of its own without an earlier result, *)
(* the rows and plots show what this comparison computed.                  *)
THEOREM RowsShowTheirOwn == Spec => []RowsAreTheirOwn
<1>1. IInv => RowsAreTheirOwn
  <2> SUFFICES ASSUME IInv, state = "ended", OwnDirectories, fresh, ~request.dry_run,
                      NEW i \in DOMAIN rows, rows[i].status = "success"
               PROVE  /\ rows[i].by = <<compare, i>>
                      /\ "band" \in rows[i].computed
                      /\ \A f \in rows[i].computed :
                           rows[i].data[f] = <<compare, i>> /\ <<compare, i>> \in plots[f]
    BY DEF RowsAreTheirOwn
  <2>1. Row(i) /\ plots = Plots
    BY DEF IInv, Drawn
  <2>2. /\ rows[i].by = <<compare, i>> /\ "band" \in rows[i].computed
        /\ rows[i].computed \subseteq DataFiles
        /\ "lifetime" \in rows[i].computed => request.compute_kappa
        /\ \A f \in rows[i].computed : rows[i].data[f] = <<compare, i>>
    BY <2>1 DEF Row, SucceededSays, Clean
  <2>3. <<compare, i>> # None
    BY RowFacts DEF IInv, None
  <2>4. ASSUME NEW f \in rows[i].computed PROVE <<compare, i>> \in plots[f]
    <3>1. <<compare, i>> \in Shown(f, {"success"})
      BY <2>2, <2>3 DEF Shown
    <3>2. f \in DataFiles /\ (f = "lifetime" => request.compute_kappa)
      BY <2>2
    <3>3. plots[f] = Shown(f, {"success"})
      BY <2>1, <3>2 DEF Plots, DataFiles, ThermalCurves, BandCurves, DosCurves, VelocityClouds,
                        LifetimeClouds
    <3> QED BY <3>1, <3>3
  <2> QED BY <2>2, <2>4
<1> QED BY <1>1, Inductive, PTL

LEMMA SettableIsRepeated ==
  /\ \A o \in Settable : o \notin Unrepeated
  /\ "relax" \notin Unrepeated
BY DEF Settable, Common, Thermal, HiphiveOptions, DeepMD, Unrepeated

(* What the settings of a child have of the command's, whichever way they  *)
(* take.                                                                   *)
LEMMA SettingsFollow ==
  ASSUME NEW r, NEW model
  PROVE  LET set == SettingsOf(r, model)
             overruled == IF r.isolate THEN {} ELSE DOMAIN DpaDefaults \cup {"displacement"}
         IN /\ set["relax"] = "false"
            /\ \A o \in Settable \ overruled :
                 /\ r.options[o] # "unset"
                 /\ o \in Thermal \cup HiphiveOptions => r.compute_kappa
                 /\ o \in HiphiveOptions => r.hiphive
                 /\ o \in DeepMD => IsDeepMD(model)
                 /\ o = "target_supercell_length" => ~Safe(r, model)
                 => set[o] = r.options[o]
<1>1. CASE r.isolate
  <2> DEFINE command == model_command(r, model)
  <2>1. SettingsOf(r, model) = single(command, IsAlias(model))
    BY <1>1 DEF SettingsOf, ChildSettings
  <2>2. /\ DOMAIN command = OnCommandLine(r, model)
        /\ "relax" \in DOMAIN command /\ command["relax"] = "false"
    BY DEF model_command, OnCommandLine, AlwaysSaid
  <2>3. \A o \in Settings : o \in DOMAIN command => single(command, IsAlias(model))[o] = command[o]
    <3> HIDE DEF command
    <3> QED BY DEF single, infer_default_config, merge_overrides, option_sources
  <2>4. ASSUME NEW o \in Settable, r.options[o] # "unset",
               o \in Thermal \cup HiphiveOptions => r.compute_kappa,
               o \in HiphiveOptions => r.hiphive,
               o \in DeepMD => IsDeepMD(model),
               o = "target_supercell_length" => ~Safe(r, model)
        PROVE  o \in OnCommandLine(r, model) /\ command[o] = r.options[o]
    <3>1. o \in OnCommandLine(r, model)
      BY <2>4 DEF OnCommandLine, Settable
    <3>2. o # "relax"
      BY DEF Settable, Common, Thermal, HiphiveOptions, DeepMD
    <3> QED BY <2>4, <3>1, <3>2 DEF model_command
  <2> HIDE DEF command
  <2>5. "relax" \in Settings /\ Settable \subseteq Settings
    BY DEF Settings
  <2> QED BY <1>1, <2>1, <2>2, <2>3, <2>4, <2>5
<1>2. CASE ~r.isolate
  <2> DEFINE config == InProcessConfig(r, model)
  <2>1. SettingsOf(r, model) = infer_default_config(config, IsAlias(model), {})
    BY <1>2 DEF SettingsOf, InProcessSettings
  <2>2. "relax" \in Settings /\ Settable \subseteq Settings
    BY DEF Settings
  <2>3. config["relax"] = "false"
    BY <2>2, SettableIsRepeated DEF InProcessConfig
  <2>4. DOMAIN DpaDefaults = {"relax", "deepmd_reuse_calculator", "deepmd_deterministic",
                              "save_force_audit", "phono3py_symmetrize_fc2"}
        /\ DpaDefaults["relax"] = "false"
    BY DEF DpaDefaults
  <2>5. \A o \in Settings : o \notin DOMAIN DpaDefaults => SettingsOf(r, model)[o] = config[o]
    <3> HIDE DEF config
    <3> QED BY <2>1 DEF infer_default_config
  <2>6. SettingsOf(r, model)["relax"] = "false"
    <3> HIDE DEF config
    <3> QED BY <2>1, <2>2, <2>3, <2>4 DEF infer_default_config
  <2>7. ASSUME NEW o \in Settable, o \notin DOMAIN DpaDefaults, o # "displacement",
               r.options[o] # "unset", o = "target_supercell_length" => ~Safe(r, model)
        PROVE  config[o] = r.options[o]
    <3>1. o # "relax_cell" /\ o # "relax"
      BY DEF Settable, Common, Thermal, HiphiveOptions, DeepMD
    <3> QED BY <2>2, <2>4, <2>7, <3>1, SettableIsRepeated DEF InProcessConfig
  <2> HIDE DEF config
  <2> QED BY <1>2, <2>2, <2>5, <2>6, <2>7
<1> QED BY <1>1, <1>2

(* What children of one command have in common.                            *)
LEMMA SettingsAgree ==
  ASSUME NEW r, NEW model, NEW other, NEW o \in Settable,
         o \notin DeepMD,
         o \notin (IF r.isolate THEN {} ELSE DOMAIN DpaDefaults \cup {"displacement"}),
         ~(o = "target_supercell_length" /\ r.dpa_safe_mode)
  PROVE  SettingsOf(r, model)[o] = SettingsOf(r, other)[o]
<1>1. o \in Settings /\ o \notin {"relax", "relax_cell"}
  BY DEF Settings, Settable, Common, Thermal, HiphiveOptions, DeepMD
<1>2. o \notin {"deepmd_reuse_calculator", "deepmd_deterministic", "save_force_audit"}
  BY DEF DeepMD
<1>3. DOMAIN DpaDefaults = {"relax", "deepmd_reuse_calculator", "deepmd_deterministic",
                            "save_force_audit", "phono3py_symmetrize_fc2"}
      /\ DpaDefaults["phono3py_symmetrize_fc2"] = "true"
  BY DEF DpaDefaults
<1>4. CASE r.isolate
  <2> DEFINE given == /\ r.options[o] # "unset"
                      /\ o \in Thermal \cup HiphiveOptions => r.compute_kappa
                      /\ o \in HiphiveOptions => r.hiphive
  <2>1. ASSUME NEW m PROVE SettingsOf(r, m)[o] = IF given THEN r.options[o] ELSE Default[o]
    <3> DEFINE command == model_command(r, m)
    <3>1. SettingsOf(r, m) = single(command, IsAlias(m))
      BY <1>4 DEF SettingsOf, ChildSettings
    <3>2. DOMAIN command = OnCommandLine(r, m)
      BY DEF model_command
    <3>3. ~(o = "target_supercell_length" /\ Safe(r, m))
      BY DEF Safe
    <3>4. /\ given => o \in OnCommandLine(r, m)
          /\ o \in OnCommandLine(r, m) => given \/ r.options[o] = "unset"
      BY <1>1, <3>3 DEF OnCommandLine, AlwaysSaid, Settable, Common, Thermal, HiphiveOptions, DeepMD
    <3>5. o \in OnCommandLine(r, m) => command[o] = IF r.options[o] = "unset" THEN Default[o] ELSE r.options[o]
      BY <1>1, <3>3 DEF model_command
    <3> HIDE DEF command
    <3>6. o \in DOMAIN command => SettingsOf(r, m)[o] = command[o]
      BY <1>1, <3>1 DEF single, infer_default_config, merge_overrides, option_sources
    <3>7. ASSUME o \notin DOMAIN command PROVE SettingsOf(r, m)[o] = Default[o]
      <4>1. o \in DOMAIN DpaDefaults => Default[o] = DpaDefaults[o]
        BY <1>1, <1>2, <1>3 DEF Default, Settings, Settable, Thermal
      <4> QED BY <1>1, <3>1, <3>7, <4>1
              DEF single, infer_default_config, merge_overrides, option_sources
    <3> QED BY <3>2, <3>4, <3>5, <3>6, <3>7
  <2> QED BY <2>1
<1>5. CASE ~r.isolate
  <2>1. ASSUME NEW m
        PROVE  SettingsOf(r, m)[o] = IF r.options[o] = "unset" THEN Default[o] ELSE r.options[o]
    <3> DEFINE config == InProcessConfig(r, m)
    <3>1. SettingsOf(r, m) = infer_default_config(config, IsAlias(m), {})
      BY <1>5 DEF SettingsOf, InProcessSettings
    <3>2. config[o] = IF r.options[o] = "unset" THEN Default[o] ELSE r.options[o]
      BY <1>1, <1>2, <1>5, SettableIsRepeated DEF InProcessConfig, Safe
    <3> HIDE DEF config
    <3> QED BY <1>1, <1>5, <3>1, <3>2 DEF infer_default_config
  <2> QED BY <2>1
<1> QED BY <1>4, <1>5

(* The children of a comparison start from one structure, have the options *)
(* of the command, and differ in nothing but DeepMD's policies and the     *)
(* safe target.                                                            *)
THEOREM ModelsOnEqualTerms == Spec => []ChildrenAreComparable
<1>1. IInv => ChildrenAreComparable
  <2> DEFINE started == {i \in DOMAIN rows : rows[i].settings # NoSettings}
  <2> SUFFICES ASSUME IInv, state = "ended", NEW i \in started
               PROVE  /\ rows[i].structure = IF request.relax THEN compare ELSE 0
                      /\ rows[i].settings["relax"] = "false"
                      /\ \A o \in Settable \ Overruled :
                           request.options[o] # "unset" /\ Applies(o, models[i])
                           => rows[i].settings[o] = request.options[o]
                      /\ \A j \in started, o \in Settable \ (DeepMD \cup Overruled) :
                           \/ o = "target_supercell_length" /\ request.dpa_safe_mode
                           \/ rows[i].settings[o] = rows[j].settings[o]
    BY DEF ChildrenAreComparable
  <2>1. \A j \in started : /\ rows[j].settings = SettingsOf(request, models[j])
                           /\ rows[j].structure = StartedFrom
    BY DEF IInv, Row
  <2>2. PICK r, model : r = request /\ model = models[i]
    OBVIOUS
  <2>3. /\ rows[i].settings["relax"] = "false"
        /\ \A o \in Settable \ Overruled :
             request.options[o] # "unset" /\ Applies(o, models[i])
             => rows[i].settings[o] = request.options[o]
    BY <2>1, <2>2, SettingsFollow DEF Overruled, Applies
  <2>4. ASSUME NEW j \in started, NEW o \in Settable \ (DeepMD \cup Overruled),
               ~(o = "target_supercell_length" /\ request.dpa_safe_mode)
        PROVE  rows[i].settings[o] = rows[j].settings[o]
    <3>1. PICK other : other = models[j]
      OBVIOUS
    <3>2. SettingsOf(r, model)[o] = SettingsOf(r, other)[o]
      BY <2>2, <2>4, SettingsAgree DEF Overruled
    <3> QED BY <2>1, <2>2, <3>1, <3>2
  <2> QED BY <2>1, <2>3, <2>4 DEF StartedFrom
<1> QED BY <1>1, Inductive, PTL

-------------------------------------------------------------------------------
(* The records.                                                            *)

(* The command that is recorded leads to the settings that are recorded:   *)
(* apart from the options that are the default again, what it leaves out is*)
(* what the records do not tell apart.                                     *)
LEMMA CommandsRepeat ==
  ASSUME NEW s, s["relax"] \in {"true", "false"}, NEW deepmd \in BOOLEAN
  PROVE  Repeats(s, deepmd)
<1> DEFINE recorded == resolved_settings(s, deepmd)
           command  == resolved_command(s, deepmd)
           again    == single(command, FALSE)
<1>1. /\ RecordedOptions(deepmd) \subseteq Settings
      /\ {"relax", "relax_cell", "supercell_dim"} \subseteq RecordedOptions(deepmd)
      /\ {"relax", "relax_cell", "supercell_dim"} \cap Unrepeated = {}
  BY DEF RecordedOptions, Settings, Settable, Common, DeepMD, Unrepeated
<1>2. /\ DOMAIN recorded = RecordedOptions(deepmd)
      /\ recorded["relax"] = s["relax"]
      /\ recorded["supercell_dim"] # "default"
      /\ s["relax"] = "false" => recorded["relax_cell"] = "false"
  BY <1>1 DEF resolved_settings
<1>3. /\ DOMAIN command = RecordedOptions(deepmd)
                            \ (Unrepeated \cup IF s["relax"] = "true" THEN {} ELSE {"relax_cell"})
      /\ \A o \in DOMAIN command : command[o] = recorded[o]
  <2> HIDE DEF recorded
  <2> QED BY <1>2 DEF resolved_command, recorded
<1> HIDE DEF recorded, command
<1>4. \A o \in DOMAIN command : again[o] = command[o]
  BY <1>1, <1>3 DEF single, infer_default_config, merge_overrides
<1> HIDE DEF again
<1>5. again["relax"] = s["relax"]
  BY <1>1, <1>2, <1>3, <1>4
<1>6. ASSUME NEW o \in RecordedOptions(deepmd)
      PROVE  resolved_settings(again, deepmd)[o] = IF o \in Unrepeated THEN Default[o] ELSE recorded[o]
  <2>1. CASE o \in DOMAIN command /\ o \notin {"supercell_dim", "relax_cell"}
    BY <1>3, <1>4, <2>1 DEF resolved_settings
  <2>2. CASE o = "supercell_dim"
    <3>1. again[o] = recorded[o] /\ again[o] # "default"
      BY <1>1, <1>2, <1>3, <1>4, <2>2
    <3> QED BY <1>1, <2>2, <3>1 DEF resolved_settings
  <2>3. CASE o = "relax_cell" /\ s["relax"] = "false"
    BY <1>1, <1>2, <1>5, <2>3 DEF resolved_settings
  <2>4. CASE o = "relax_cell" /\ s["relax"] = "true"
    <3>1. again[o] = recorded[o]
      BY <1>1, <1>3, <1>4, <2>4
    <3> QED BY <1>1, <1>5, <2>4, <3>1 DEF resolved_settings
  <2>5. CASE o \in Unrepeated
    <3>1. again[o] = Default[o]
      BY <1>1, <1>3, <2>5 DEF again, single, infer_default_config, merge_overrides
    <3> QED BY <1>1, <2>5, <3>1 DEF resolved_settings
  <2> QED BY <1>3, <2>1, <2>2, <2>3, <2>4, <2>5
<1> QED BY <1>6 DEF Repeats, again, command, recorded

LEMMA CommandsTell ==
  ASSUME NEW command, NEW dpa \in BOOLEAN
  PROVE  TellsWhoDecided(single(command, dpa), merge_overrides(command), option_sources(command))
<1> DEFINE set       == single(command, dpa)
           requested == merge_overrides(command)
<1>1. ASSUME NEW o \in Settings, o \in DOMAIN command
      PROVE  source(o, requested, DOMAIN command) = "user" /\ set[o] = requested[o]
  BY <1>1 DEF source, single, infer_default_config, option_sources, merge_overrides
<1>2. ASSUME NEW o \in Settings, o \notin DOMAIN command
      PROVE  /\ requested[o] = Default[o]
             /\ set[o] = Default[o] \/ (o \in DOMAIN DpaDefaults /\ set[o] = DpaDefaults[o])
  BY <1>2 DEF single, infer_default_config, option_sources, merge_overrides
<1>3. ASSUME "supercell_dim" \notin DOMAIN command
      PROVE  set["supercell_dim"] = "default"
  <2>1. "supercell_dim" \in Settings
    BY DEF Settings, Settable, Common
  <2>2. Default["supercell_dim"] = "default" /\ "supercell_dim" \notin DOMAIN DpaDefaults
    BY <2>1 DEF Default, DpaDefaults
  <2> QED BY <1>2, <1>3, <2>1, <2>2
<1> HIDE DEF set, requested
<1>4. ASSUME NEW o \in Settings
      PROVE  LET who == source(o, requested, DOMAIN command) IN
             /\ who \in {"user", "auto", "default"}
             /\ who = "user" => set[o] = requested[o]
             /\ who = "auto" => set[o] = "default"
             /\ who = "default" => \/ set[o] = Default[o]
                                   \/ o \in DOMAIN DpaDefaults /\ set[o] = DpaDefaults[o]
  <2>1. CASE o \in DOMAIN command
    BY <1>1, <2>1
  <2>2. CASE o \notin DOMAIN command
    BY <1>2, <1>3, <2>2 DEF source
  <2> QED BY <2>1, <2>2
<1> QED BY <1>4 DEF TellsWhoDecided, option_sources, set, requested

(* The command in a row leads to the settings of its child.                *)
LEMMA CommandOfRow ==
  ASSUME NEW r, NEW model, NEW o \in Settable,
         o \notin (IF r.isolate THEN {} ELSE DOMAIN DpaDefaults \cup {"displacement"}),
         o \in Thermal \cup HiphiveOptions => r.compute_kappa,
         o \in HiphiveOptions => r.hiphive,
         o \in DeepMD => IsDeepMD(model),
         o = "target_supercell_length" => ~Safe(r, model)
  PROVE  single(model_command(r, model), IsAlias(model))[o] = SettingsOf(r, model)[o]
<1>1. CASE r.isolate
  BY <1>1 DEF SettingsOf, ChildSettings
<1>2. CASE ~r.isolate
  <2> DEFINE command == model_command(r, model)
             config  == InProcessConfig(r, model)
  <2>1. o \in Settings /\ o \notin {"relax", "relax_cell"}
    BY DEF Settings, Settable, Common, Thermal, HiphiveOptions, DeepMD
  <2>2. o \notin DOMAIN DpaDefaults /\ o # "displacement"
    BY <1>2
  <2>3. o \notin {"deepmd_deterministic", "save_force_audit"}
    BY <2>2 DEF DpaDefaults
  <2>4. DOMAIN command = OnCommandLine(r, model)
    BY DEF model_command
  <2>5. r.options[o] # "unset" => o \in OnCommandLine(r, model)
    BY <2>1 DEF OnCommandLine, Settable
  <2>6. o \in OnCommandLine(r, model) =>
          command[o] = IF r.options[o] = "unset" THEN Default[o] ELSE r.options[o]
    BY <2>1 DEF model_command
  <2>7. config[o] = IF r.options[o] = "unset" THEN Default[o] ELSE r.options[o]
    BY <2>1, <2>2, <2>3, SettableIsRepeated DEF InProcessConfig
  <2>8. SettingsOf(r, model) = infer_default_config(config, IsAlias(model), {})
    BY <1>2 DEF SettingsOf, InProcessSettings
  <2> HIDE DEF command, config
  <2>9. SettingsOf(r, model)[o] = config[o]
    BY <2>1, <2>2, <2>8 DEF infer_default_config
  <2>10. single(command, IsAlias(model))[o] = IF o \in DOMAIN command THEN command[o] ELSE Default[o]
    BY <2>1, <2>2 DEF single, infer_default_config, merge_overrides
  <2> QED BY <2>4, <2>5, <2>6, <2>7, <2>9, <2>10 DEF command
<1> QED BY <1>1, <1>2

(* The command that a workflow records leads to what it records, the       *)
(* options it leaves out being the default again; the records say who      *)
(* decided; and the command in a row leads to the settings of its child.   *)
THEOREM RecordsTellTheTruth == Spec => []RecordsAreTrue
<1>1. ASSUME NEW command \in Commands, NEW deepmd \in BOOLEAN, NEW dpa \in BOOLEAN
      PROVE  Repeats(single(command, dpa), deepmd)
  <2>1. "relax" \in Settings /\ Default["relax"] = "true"
    BY DEF Settings, Default
  <2>2. DpaDefaults["relax"] = "false" /\ "relax" \in DOMAIN DpaDefaults
    BY DEF DpaDefaults
  <2>3. single(command, dpa)["relax"] \in {"true", "false"}
    BY <2>1, <2>2, CompareAssumption
       DEF single, infer_default_config, merge_overrides, option_sources
  <2>4. PICK s : s = single(command, dpa)
    OBVIOUS
  <2> QED BY <2>3, <2>4, CommandsRepeat
<1>2. IInv => RecordsAreTrue
  <2> SUFFICES ASSUME IInv, NEW i \in DOMAIN rows, rows[i].settings # NoSettings
               PROVE  LET command == model_command(request, models[i]) IN
                      /\ Repeats(rows[i].settings, IsDeepMD(models[i]))
                      /\ request.isolate => TellsWhoDecided(rows[i].settings, merge_overrides(command),
                                                            option_sources(command))
                      /\ \A o \in Settable \ Overruled :
                           Applies(o, models[i])
                           => single(command, IsAlias(models[i]))[o] = rows[i].settings[o]
    BY <1>1, CommandsTell DEF RecordsAreTrue
  <2>1. rows[i].settings = SettingsOf(request, models[i])
    BY DEF IInv, Row
  <2>2. PICK r, model : r = request /\ model = models[i]
    OBVIOUS
  <2>3. PICK s : s = SettingsOf(r, model)
    OBVIOUS
  <2>4. Repeats(s, IsDeepMD(model))
    <3>1. s["relax"] = "false"
      BY <2>3, SettingsFollow
    <3>2. IsDeepMD(model) \in BOOLEAN
      BY DEF IsDeepMD, IsAlias
    <3>3. PICK deepmd \in BOOLEAN : deepmd = IsDeepMD(model)
      BY <3>2
    <3> QED BY <3>1, <3>3, CommandsRepeat
  <2>5. r.isolate => LET command == model_command(r, model) IN
          TellsWhoDecided(s, merge_overrides(command), option_sources(command))
    <3>1. IsAlias(model) \in BOOLEAN
      BY DEF IsAlias
    <3>2. PICK dpa \in BOOLEAN : dpa = IsAlias(model)
      BY <3>1
    <3>3. PICK command : command = model_command(r, model)
      OBVIOUS
    <3>4. r.isolate => s = single(command, dpa)
      BY <2>3, <3>2, <3>3 DEF SettingsOf, ChildSettings
    <3> QED BY <3>3, <3>4, CommandsTell
  <2>6. ASSUME NEW o \in Settable \ Overruled, Applies(o, models[i])
        PROVE  single(model_command(r, model), IsAlias(model))[o] = s[o]
    BY <2>2, <2>3, <2>6, CommandOfRow DEF Overruled, Applies
  <2> QED BY <2>1, <2>2, <2>3, <2>4, <2>5, <2>6
<1> QED BY <1>2, Inductive, PTL

-------------------------------------------------------------------------------
(* The supercell of a workflow, for every structure and any limits.        *)
LEMMA LeastElement ==
  ASSUME NEW T \in SUBSET Nat, T # {}
  PROVE  \E x \in T : \A y \in T : x <= y
<1>1. PICK x \in T : \A y \in T : ~ (<<y, x>> \in OpToRel(<, Nat))
  BY NatLessThanWellFounded, WFMin
<1>2. \A y \in T : ~ (y < x)
  BY <1>1 DEF OpToRel
<1> QED BY <1>2

LEMMA MinIs ==
  ASSUME NEW S, NEW low \in Int, \A x \in S : x \in Int /\ low <= x, S # {}
  PROVE  Min(S) \in S /\ \A y \in S : Min(S) <= y
<1> DEFINE T == {x - low : x \in S}
<1>1. T \in SUBSET Nat /\ T # {}
  OBVIOUS
<1> HIDE DEF T
<1>2. PICK m \in T : \A t \in T : m <= t
  BY <1>1, LeastElement
<1>3. PICK x \in S : m = x - low
  BY DEF T
<1>4. \A y \in S : x <= y
  <2> TAKE y \in S
  <2>1. m <= y - low
    BY <1>2 DEF T
  <2> QED BY <1>3, <2>1
<1>5. \E z \in S : \A y \in S : z <= y
  BY <1>4
<1> QED BY <1>5 DEF Min

LEMMA MaxIs ==
  ASSUME NEW S, NEW high \in Int, \A x \in S : x \in Int /\ x <= high, S # {}
  PROVE  Max(S) \in S /\ \A y \in S : y <= Max(S)
<1> DEFINE T == {high - x : x \in S}
<1>1. T \in SUBSET Nat /\ T # {}
  OBVIOUS
<1> HIDE DEF T
<1>2. PICK m \in T : \A t \in T : m <= t
  BY <1>1, LeastElement
<1>3. PICK x \in S : m = high - x
  BY DEF T
<1>4. \A y \in S : x >= y
  <2> TAKE y \in S
  <2>1. m <= high - y
    BY <1>2 DEF T
  <2> QED BY <1>3, <2>1
<1>5. \E z \in S : \A y \in S : z >= y
  BY <1>4
<1>6. Max(S) \in S /\ \A y \in S : Max(S) >= y
  BY <1>5 DEF Max
<1> QED BY <1>6

(* What holds of 0, and of a number if it holds of the one before.         *)
LEMMA UpTo ==
  ASSUME NEW n \in Nat, NEW P, 0 \in P, \A i \in 1 .. n : i - 1 \in P => i \in P
  PROVE  \A i \in 0 .. n : i \in P
<1> DEFINE Missed == {i \in 0 .. n : i \notin P}
<1> SUFFICES ASSUME Missed # {} PROVE FALSE
  OBVIOUS
<1>1. PICK i \in Missed : \A k \in Missed : i <= k
  <2>1. Missed \in SUBSET Nat
    OBVIOUS
  <2> HIDE DEF Missed
  <2> QED BY <2>1, LeastElement
<1>2. i \in 1 .. n /\ i - 1 \in 0 .. n
  BY <1>1
<1>3. i - 1 \in P
  BY <1>1, <1>2
<1> QED BY <1>1, <1>2, <1>3

(* The states of a loop, of which each is a function of the one before.    *)
Loop(f, n, first, turn) ==
  f = [i \in 0 .. n |-> IF i = 0 THEN first ELSE turn[f[i - 1]]]

LEMMA LoopExists ==
  ASSUME NEW n \in Nat, NEW T, NEW first \in T, NEW turn \in [T -> T]
  PROVE  \E f \in [0 .. n -> T] : Loop(f, n, first, turn)
<1> DEFINE P == {m \in 0 .. n : \E f \in [0 .. m -> T] : Loop(f, m, first, turn)}
<1>1. 0 \in P
  <2> DEFINE f == [i \in 0 .. 0 |-> first]
  <2>1. f \in [0 .. 0 -> T] /\ Loop(f, 0, first, turn)
    BY DEF Loop
  <2> HIDE DEF f
  <2> QED BY <2>1
<1>2. ASSUME NEW m \in 1 .. n, m - 1 \in P PROVE m \in P
  <2>1. PICK f \in [0 .. m - 1 -> T] : Loop(f, m - 1, first, turn)
    BY <1>2
  <2> DEFINE g == [i \in 0 .. m |-> IF i = m THEN turn[f[m - 1]] ELSE f[i]]
  <2>2. f[m - 1] \in T /\ turn[f[m - 1]] \in T
    OBVIOUS
  <2>3. g \in [0 .. m -> T]
    BY <2>2
  <2>4. \A i \in 0 .. m - 1 : f[i] = IF i = 0 THEN first ELSE turn[f[i - 1]]
    BY <2>1, Zenon DEF Loop
  <2>5. \A i \in 0 .. m : g[i] = IF i = 0 THEN first ELSE turn[g[i - 1]]
    <3> TAKE i \in 0 .. m
    <3>1. CASE i = m
      <4>1. g[m] = turn[f[m - 1]] /\ g[m - 1] = f[m - 1] /\ m # 0
        OBVIOUS
      <4> HIDE DEF g
      <4> QED BY <3>1, <4>1
    <3>2. CASE i # m
      <4>1. i \in 0 .. m - 1 /\ (i # 0 => i - 1 \in 0 .. m - 1)
        BY <3>2
      <4>2. g[i] = f[i] /\ (i # 0 => g[i - 1] = f[i - 1])
        BY <3>2, <4>1
      <4> HIDE DEF g
      <4> QED BY <2>4, <4>1, <4>2
    <3> QED BY <3>1, <3>2
  <2>6. Loop(g, m, first, turn)
    <3>1. g = [i \in 0 .. m |-> g[i]]
      OBVIOUS
    <3> HIDE DEF g
    <3> QED BY <2>5, <3>1 DEF Loop
  <2> HIDE DEF g
  <2> QED BY <2>3, <2>6
<1>3. n \in P
  <2> HIDE DEF P
  <2> QED BY <1>1, <1>2, UpTo
<1> QED BY <1>3

(* Structures and limits, as SupercellAssumption has them.                 *)
Cells  == [lengths : [Axes -> Nat], positions : [Axes -> SUBSET (0 .. Parts - 1)], atoms : Nat]
Bounds == {l \in [target : Nat \ {0}, min_dim : Nat \ {0}, max_dim : Nat \ {0},
                  max_atoms : Nat \ {0}] : l.min_dim <= l.max_dim}

LEMMA LongestIs ==
  ASSUME NEW d \in [Axes -> Int]
  PROVE  /\ LongestDim(d) \in Int
         /\ \E a \in Axes : d[a] = LongestDim(d)
         /\ \A a \in Axes : d[a] <= LongestDim(d)
<1>1. Axes = {1, 2, 3} /\ \A a \in Axes : d[a] \in Int
  BY DEF Axes
<1>2. PICK a \in Axes : \A b \in Axes : d[b] <= d[a]
  BY <1>1
<1> DEFINE S == {d[b] : b \in Axes}
<1>3. d[a] \in Int /\ S # {} /\ \A x \in S : x \in Int /\ x <= d[a]
  BY <1>1, <1>2
<1> HIDE DEF S
<1>4. Max(S) \in S /\ \A x \in S : x <= Max(S)
  BY <1>3, MaxIs
<1> QED BY <1>3, <1>4 DEF S, LongestDim

(* The axis that is shortened is one of the longest.                       *)
LEMMA ShortenedAxis ==
  ASSUME NEW d \in [Axes -> Int]
  PROVE  LET i == Min({a \in Axes : d[a] = LongestDim(d)})
         IN i \in Axes /\ d[i] = LongestDim(d)
<1> DEFINE S == {a \in Axes : d[a] = LongestDim(d)}
<1>1. S # {} /\ \A x \in S : x \in Int /\ 1 <= x
  BY LongestIs DEF Axes
<1> HIDE DEF S
<1>2. Min(S) \in S
  BY <1>1, MinIs
<1> QED BY <1>2 DEF S

(* The axes as they are before the loop.                                   *)
LEMMA ClipIs ==
  ASSUME NEW n \in Int, NEW low \in Int, NEW top \in Int, low <= top
  PROVE  Clip(n, low, top) \in low .. top
<1> DEFINE m == Max({n, low})
<1>1. \E h \in Int : n <= h /\ low <= h
  OBVIOUS
<1>2. m \in {n, low} /\ low <= m
  <2>1. PICK h \in Int : n <= h /\ low <= h
    BY <1>1
  <2>2. {n, low} # {} /\ \A x \in {n, low} : x \in Int /\ x <= h
    BY <2>1
  <2>3. m \in {n, low} /\ \A y \in {n, low} : y <= m
    BY <2>2, MaxIs
  <2> QED BY <2>3
<1> HIDE DEF m
<1>3. {m, top} # {} /\ \A x \in {m, top} : x \in Int /\ low <= x
  BY <1>2
<1>4. Min({m, top}) \in {m, top} /\ \A y \in {m, top} : Min({m, top}) <= y
  BY <1>3, MinIs
<1>5. Clip(n, low, top) = Min({m, top})
  BY DEF Clip, m
<1> QED BY <1>2, <1>4, <1>5

LEMMA FirstDims ==
  ASSUME NEW s \in Cells, NEW v \in SUBSET Axes, NEW l \in Bounds
  PROVE  LET d == InitialDims(s.lengths, v, l)
         IN /\ d \in [Axes -> 1 .. l.max_dim]
            /\ \A a \in v : d[a] = 1
            /\ \A a \in Active(v) : l.min_dim <= d[a]
            /\ \A a, b \in Active(v) : s.lengths[a] = s.lengths[b] => d[a] = d[b]
<1> DEFINE d == InitialDims(s.lengths, v, l)
           C(a) == Clip(Ceiling(l.target, s.lengths[a]), l.min_dim, l.max_dim)
<1>1. /\ l.min_dim \in Nat \ {0} /\ l.max_dim \in Nat \ {0} /\ l.target \in Nat
      /\ l.min_dim <= l.max_dim
  BY DEF Bounds
<1>2. \A a \in Axes : s.lengths[a] \in Nat
  BY DEF Cells
<1>3. d = [a \in Axes |-> IF a \in v THEN 1 ELSE IF s.lengths[a] = 0 THEN l.min_dim ELSE C(a)]
  BY DEF InitialDims
<1>4. \A a \in Axes : s.lengths[a] # 0 => C(a) \in l.min_dim .. l.max_dim
  <2> TAKE a \in Axes
  <2> HAVE s.lengths[a] # 0
  <2>1. Ceiling(l.target, s.lengths[a]) \in Int
    BY <1>1, <1>2 DEF Ceiling
  <2>2. PICK n, low, top : n = Ceiling(l.target, s.lengths[a]) /\ low = l.min_dim /\ top = l.max_dim
    OBVIOUS
  <2>3. n \in Int /\ low \in Int /\ top \in Int /\ low <= top
    BY <1>1, <2>1, <2>2
  <2>4. Clip(n, low, top) \in low .. top
    BY <2>3, ClipIs
  <2> QED BY <2>2, <2>4
<1> HIDE DEF C
<1>5. \A a \in Axes : d[a] = IF a \in v THEN 1 ELSE IF s.lengths[a] = 0 THEN l.min_dim ELSE C(a)
  BY <1>3
<1>6. \A a \in Axes : d[a] \in 1 .. l.max_dim /\ (a \notin v => l.min_dim <= d[a])
  BY <1>1, <1>4, <1>5
<1>7. \A a, b \in Axes : s.lengths[a] = s.lengths[b] => C(a) = C(b)
  BY DEF C
<1> QED BY <1>3, <1>5, <1>6, <1>7 DEF Active

(* More repetitions make more atoms.                                       *)
LEMMA Products ==
  ASSUME NEW p \in Nat, NEW q \in Nat, p <= q, NEW r \in Nat, NEW t \in Nat, r <= t
  PROVE  p * r \in Nat /\ q * t \in Nat /\ p * r <= q * t
<1>1. p * r \in Nat /\ q * r \in Nat /\ q * t \in Nat
  OBVIOUS
<1>2. p * r <= q * r
  <2>1. q = p + (q - p) /\ q - p \in Nat
    OBVIOUS
  <2>2. q * r = p * r + (q - p) * r /\ (q - p) * r \in Nat
    BY <2>1
  <2> QED BY <1>1, <2>2
<1>3. q * r <= q * t
  <2>1. t = r + (t - r) /\ t - r \in Nat
    OBVIOUS
  <2>2. q * t = q * r + q * (t - r) /\ q * (t - r) \in Nat
    BY <2>1
  <2> QED BY <1>1, <2>2
<1> QED BY <1>1, <1>2, <1>3

LEMMA MoreAtoms ==
  ASSUME NEW d \in [Axes -> Nat], NEW e \in [Axes -> Nat], \A a \in Axes : d[a] <= e[a],
         NEW n \in Nat
  PROVE  Atoms(d, n) \in Nat /\ Atoms(e, n) \in Nat /\ Atoms(d, n) <= Atoms(e, n)
<1>1. /\ d[1] \in Nat /\ d[2] \in Nat /\ d[3] \in Nat
      /\ e[1] \in Nat /\ e[2] \in Nat /\ e[3] \in Nat
      /\ d[1] <= e[1] /\ d[2] <= e[2] /\ d[3] <= e[3] /\ n <= n
  BY DEF Axes
<1>2. PICK d2, e2 : d2 = d[1] * d[2] /\ e2 = e[1] * e[2]
  OBVIOUS
<1>3. d2 \in Nat /\ e2 \in Nat /\ d2 <= e2
  BY <1>1, <1>2, Products
<1>4. PICK d3, e3 : d3 = d2 * d[3] /\ e3 = e2 * e[3]
  OBVIOUS
<1>5. d3 \in Nat /\ e3 \in Nat /\ d3 <= e3
  BY <1>1, <1>3, <1>4, Products
<1>6. d3 * n \in Nat /\ e3 * n \in Nat /\ d3 * n <= e3 * n
  BY <1>1, <1>5, Products
<1>7. Atoms(d, n) = d3 * n /\ Atoms(e, n) = e3 * n
  BY <1>2, <1>4 DEF Atoms
<1> QED BY <1>6, <1>7

(* What the loop keeps.                                                    *)
Shortened(d, s, v, l) == {a \in Active(v) : d[a] < InitialDims(s.lengths, v, l)[a]}
Again(d, A)           == [a \in Axes |-> IF a \in A THEN d[a] + 1 ELSE d[a]]

LoopInv(d, s, v, l) ==
  /\ d \in [Axes -> 1 .. l.max_dim]
  /\ \A a \in v : d[a] = 1
  /\ \A a \in Active(v) : l.min_dim <= d[a] /\ d[a] <= InitialDims(s.lengths, v, l)[a]
  /\ EqualLengths(s.lengths, v) => \A a, b \in Active(v) : d[a] = d[b]
  /\ \A a \in Shortened(d, s, v, l), b \in Active(v) : d[b] <= d[a] + 1
  /\ Shortened(d, s, v, l) # {} => Atoms(Again(d, Shortened(d, s, v, l)), s.atoms) > l.max_atoms

LEMMA LoopBegins ==
  ASSUME NEW s \in Cells, NEW v \in SUBSET Axes, NEW l \in Bounds
  PROVE  LoopInv(InitialDims(s.lengths, v, l), s, v, l)
<1>1. PICK d : d = InitialDims(s.lengths, v, l)
  OBVIOUS
<1>2. /\ d \in [Axes -> 1 .. l.max_dim]
      /\ \A a \in v : d[a] = 1
      /\ \A a \in Active(v) : l.min_dim <= d[a]
      /\ \A a, b \in Active(v) : s.lengths[a] = s.lengths[b] => d[a] = d[b]
  BY <1>1, FirstDims
<1>3. \A a \in Active(v) : a \in Axes /\ d[a] \in Int
  BY <1>2 DEF Active, Bounds
<1>4. Shortened(d, s, v, l) = {}
  BY <1>1, <1>3 DEF Shortened
<1>5. EqualLengths(s.lengths, v) => \A a, b \in Active(v) : d[a] = d[b]
  BY <1>2 DEF EqualLengths
<1> QED BY <1>1, <1>2, <1>3, <1>4, <1>5 DEF LoopInv

(* One turn: an axis is shortened, or all of them that are equal, and all  *)
(* of them before it together are those of the axes before the turn.       *)
LEMMA LoopTurns ==
  ASSUME NEW s \in Cells, NEW v \in SUBSET Axes, NEW l \in Bounds,
         NEW d, LoopInv(d, s, v, l), TooLarge(d, s, l)
  PROVE  LET e == Shorter(d, EqualLengths(s.lengths, v), v)
         IN LoopInv(e, s, v, l) /\ e[1] + e[2] + e[3] < d[1] + d[2] + d[3]
<1> DEFINE e == Shorter(d, EqualLengths(s.lengths, v), v)
           init == InitialDims(s.lengths, v, l)
           low == l.min_dim
           A == Active(v)
<1>1. /\ low \in Nat /\ low >= 1 /\ l.max_dim \in Nat /\ l.max_atoms \in Nat /\ s.atoms \in Nat
      /\ Axes = {1, 2, 3} /\ A = Axes \ v
  BY DEF Bounds, Cells, Axes, Active
<1>2. /\ d \in [Axes -> 1 .. l.max_dim] /\ (\A a \in v : d[a] = 1)
      /\ \A a \in A : low <= d[a] /\ d[a] <= init[a]
      /\ EqualLengths(s.lengths, v) => \A a, b \in A : d[a] = d[b]
      /\ \A a \in A : d[a] < init[a] => \A b \in A : d[b] <= d[a] + 1
  BY DEF LoopInv, Shortened
<1>3. init \in [Axes -> 1 .. l.max_dim]
  BY FirstDims
<1>4. Atoms(d, s.atoms) > l.max_atoms /\ LongestDim(d) > low
  BY DEF TooLarge
<1>5. d \in [Axes -> Int] /\ d \in [Axes -> Nat]
  BY <1>1, <1>2
<1>6. /\ LongestDim(d) \in Int /\ (\A a \in Axes : d[a] <= LongestDim(d))
      /\ \E a \in Axes : d[a] = LongestDim(d)
  BY <1>5, LongestIs
<1> DEFINE Fine == /\ e \in [Axes -> 1 .. l.max_dim]
                   /\ \A a \in v : e[a] = 1
                   /\ \A a \in A : low <= e[a] /\ e[a] <= init[a]
                   /\ EqualLengths(s.lengths, v) => \A a, b \in A : e[a] = e[b]
                   /\ \A a \in A : e[a] < init[a] => \A b \in A : e[b] <= e[a] + 1
                   /\ \A a \in Axes : e[a] <= d[a]
                   /\ \E a \in Axes : e[a] < d[a]
                   /\ \A a \in Axes : d[a] <= IF a \in A /\ e[a] < init[a] THEN e[a] + 1 ELSE e[a]
<1>7. ASSUME EqualLengths(s.lengths, v) PROVE Fine
  <2>1. e = [a \in Axes |-> IF a \in v THEN d[a] ELSE d[a] - 1]
    BY <1>7 DEF Shorter
  <2>2. A # {}
    BY <1>7 DEF EqualLengths
  <2>3. PICK i \in A : d[i] > low
    BY <1>1, <1>2, <1>4, <1>6
  <2>4. \A a \in A : d[a] = d[i] /\ d[a] > low
    BY <1>2, <1>7, <2>3
  <2>5. \A a \in A : a \in Axes /\ e[a] = d[a] - 1 /\ d[a] \in Int /\ init[a] \in Int
    BY <1>1, <1>3, <1>5, <2>1
  <2>6. \A a \in v : a \in Axes /\ e[a] = d[a]
    BY <2>1
  <2> HIDE DEF init, e, low
  <2>7. e \in [Axes -> 1 .. l.max_dim]
    <3>1. \A a \in Axes : (IF a \in v THEN d[a] ELSE d[a] - 1) \in 1 .. l.max_dim
      BY <1>1, <1>2, <2>4
    <3> QED BY <2>1, <3>1
  <2>8. \A a \in A : low <= e[a] /\ e[a] < init[a]
    BY <1>1, <1>2, <2>4, <2>5
  <2>9. \A a, b \in A : e[a] = e[b]
    BY <2>4, <2>5
  <2>10. \A a \in Axes : e[a] \in Int /\ d[a] \in Int /\ init[a] \in Int
    BY <1>3, <1>5, <2>7
  <2>11. \A a \in Axes : e[a] <= d[a] /\ d[a] <= IF a \in A THEN e[a] + 1 ELSE e[a]
    BY <1>1, <2>5, <2>6, <2>10
  <2>12. e[i] < d[i] /\ i \in Axes
    BY <1>1, <2>5
  <2> QED BY <1>1, <1>2, <2>6, <2>7, <2>8, <2>9, <2>10, <2>11, <2>12
<1>8. ASSUME ~EqualLengths(s.lengths, v) PROVE Fine
  <2>1. PICK i : i = Min({a \in Axes : d[a] = LongestDim(d)})
    OBVIOUS
  <2>2. i \in Axes /\ d[i] = LongestDim(d)
    BY <1>5, <2>1, ShortenedAxis
  <2>3. e = [d EXCEPT ![i] = @ - 1]
    BY <1>8, <2>1 DEF Shorter
  <2>4. i \in A /\ d[i] > low
    BY <1>1, <1>2, <1>4, <2>2
  <2>5. /\ e[i] = d[i] - 1
        /\ \A a \in Axes : a # i => e[a] = d[a]
    BY <1>2, <2>2, <2>3
  <2>6. \A a \in Axes : d[a] \in Int /\ init[a] \in Int
    BY <1>3, <1>5
  <2> HIDE DEF init, e, low
  <2>7. e \in [Axes -> 1 .. l.max_dim]
    BY <1>1, <1>2, <2>2, <2>3, <2>4
  <2>8. \A a \in A : low <= e[a] /\ e[a] <= init[a]
    BY <1>1, <1>2, <2>4, <2>5, <2>6
  <2>9. \A a \in A : e[a] < init[a] => \A b \in A : e[b] <= e[a] + 1
    <3> SUFFICES ASSUME NEW a \in A, e[a] < init[a], NEW b \in A
                 PROVE  e[b] <= e[a] + 1
      OBVIOUS
    <3>1. e[b] <= d[b] /\ d[b] <= d[i] /\ a \in Axes /\ b \in Axes
      BY <1>1, <1>6, <2>2, <2>5, <2>6
    <3>2. CASE a = i
      BY <2>2, <2>5, <2>6, <3>1, <3>2
    <3>3. CASE a # i
      BY <1>2, <2>5, <2>6, <3>1, <3>3
    <3> QED BY <3>2, <3>3
  <2>10. \A a \in v : a # i /\ a \in Axes
    BY <1>1, <2>4
  <2>11. \A a \in Axes : e[a] <= d[a]
    BY <2>2, <2>5, <2>6
  <2>12. \A a \in Axes : d[a] <= IF a \in A /\ e[a] < init[a] THEN e[a] + 1 ELSE e[a]
    <3> TAKE a \in Axes
    <3>1. CASE a = i
      <4>1. e[i] < init[i] /\ d[i] = e[i] + 1
        BY <1>2, <2>2, <2>4, <2>5, <2>6
      <4> QED BY <2>4, <2>6, <3>1, <4>1
    <3>2. CASE a # i
      <4>1. d[a] = e[a] /\ d[a] \in Int
        BY <2>5, <2>6, <3>2
      <4> QED BY <4>1
    <3> QED BY <3>1, <3>2
  <2>13. e[i] < d[i]
    BY <2>2, <2>5, <2>6
  <2> QED BY <1>2, <1>8, <2>2, <2>5, <2>7, <2>8, <2>9, <2>10, <2>11, <2>12, <2>13
<1> HIDE DEF e
<1>9. Fine
  BY <1>7, <1>8
<1>10. e[1] + e[2] + e[3] < d[1] + d[2] + d[3]
  <2>1. \A a \in {1, 2, 3} : e[a] \in Int /\ d[a] \in Int /\ e[a] <= d[a]
    BY <1>1, <1>5, <1>9
  <2>2. e[1] < d[1] \/ e[2] < d[2] \/ e[3] < d[3]
    BY <1>1, <1>9
  <2> QED BY <2>1, <2>2
<1>11. Atoms(Again(e, Shortened(e, s, v, l)), s.atoms) > l.max_atoms
  <2> DEFINE g == Again(e, Shortened(e, s, v, l))
  <2>1. \A a \in Axes : e[a] \in 1 .. l.max_dim
    BY <1>9
  <2>2. g \in [Axes -> Nat] /\ \A a \in Axes : d[a] <= g[a]
    BY <1>1, <1>9, <2>1 DEF Again, Shortened
  <2> HIDE DEF g
  <2>3. Atoms(d, s.atoms) \in Nat /\ Atoms(g, s.atoms) \in Nat /\ Atoms(d, s.atoms) <= Atoms(g, s.atoms)
    BY <1>1, <1>5, <2>2, MoreAtoms
  <2> QED BY <1>1, <1>4, <2>3 DEF g
<1>12. LoopInv(e, s, v, l)
  BY <1>9, <1>11 DEF LoopInv, Shortened
<1> QED BY <1>10, <1>12 DEF e

(* The loop of infer_supercell_dim: each turn is a function of the one     *)
(* before, and there are turns enough, since each takes a repetition.      *)
Turn(d, s, v, l) ==
  IF TooLarge(d, s, l) THEN Shorter(d, EqualLengths(s.lengths, v), v) ELSE d

LEMMA TurnIsTyped ==
  ASSUME NEW s \in Cells, NEW v \in SUBSET Axes, NEW l \in Bounds, NEW d \in [Axes -> Int]
  PROVE  Turn(d, s, v, l) \in [Axes -> Int]
<1>1. PICK e : e = Shorter(d, EqualLengths(s.lengths, v), v)
  OBVIOUS
<1>2. CASE EqualLengths(s.lengths, v)
  <2>1. e = [a \in Axes |-> IF a \in v THEN d[a] ELSE d[a] - 1]
    BY <1>1, <1>2 DEF Shorter
  <2>2. \A a \in Axes : (IF a \in v THEN d[a] ELSE d[a] - 1) \in Int
    OBVIOUS
  <2>3. e \in [Axes -> Int]
    BY <2>1, <2>2
  <2> QED BY <1>1, <2>3 DEF Turn
<1>3. CASE ~EqualLengths(s.lengths, v)
  <2>1. PICK i : i = Min({a \in Axes : d[a] = LongestDim(d)})
    OBVIOUS
  <2>2. i \in Axes
    BY <2>1, ShortenedAxis
  <2>3. e = [d EXCEPT ![i] = @ - 1]
    BY <1>1, <1>3, <2>1 DEF Shorter
  <2>4. e \in [Axes -> Int]
    BY <2>2, <2>3
  <2> QED BY <1>1, <2>4 DEF Turn
<1> QED BY <1>2, <1>3

LEMMA DimsAreTurned ==
  ASSUME NEW s \in Cells, NEW v \in SUBSET Axes, NEW l \in Bounds
  PROVE  LET n == 3 * l.max_dim
         IN \E dims \in [0 .. n -> [Axes -> Int]] :
              /\ infer_supercell_dim(s, v, l) = dims[n]
              /\ dims[0] = InitialDims(s.lengths, v, l)
              /\ \A i \in 1 .. n : dims[i] = Turn(dims[i - 1], s, v, l)
<1> DEFINE n == 3 * l.max_dim
           first == InitialDims(s.lengths, v, l)
           T == [Axes -> Int]
           turn == [d \in T |-> Turn(d, s, v, l)]
           Is(f) == f = [i \in 0 .. n |-> IF i = 0 THEN first ELSE Turn(f[i - 1], s, v, l)]
           dims == CHOOSE f : Is(f)
<1>1. n \in Nat
  BY DEF Bounds
<1>2. first \in T
  <2>1. PICK d : d = InitialDims(s.lengths, v, l)
    OBVIOUS
  <2>2. d \in [Axes -> 1 .. l.max_dim] /\ l.max_dim \in Nat
    BY <2>1, FirstDims DEF Bounds
  <2>3. d \in [Axes -> Int]
    BY <2>2
  <2> QED BY <2>1, <2>3
<1>3. turn \in [T -> T]
  BY TurnIsTyped
<1>4. infer_supercell_dim(s, v, l) = dims[n]
  BY Zenon DEF infer_supercell_dim, Turn
<1> HIDE DEF n, first, turn, T
<1>5. PICK f \in [0 .. n -> T] : Loop(f, n, first, turn)
  BY <1>1, <1>2, <1>3, LoopExists
<1>6. \A i \in 1 .. n : turn[f[i - 1]] = Turn(f[i - 1], s, v, l)
  <2> TAKE i \in 1 .. n
  <2>1. i - 1 \in 0 .. n
    BY <1>1
  <2>2. f[i - 1] \in T
    BY <2>1
  <2> QED BY <2>2 DEF turn
<1>7. \A i \in 0 .. n : f[i] = IF i = 0 THEN first ELSE turn[f[i - 1]]
  BY <1>5, Zenon DEF Loop
<1>8. \A i \in 0 .. n : f[i] = IF i = 0 THEN first ELSE Turn(f[i - 1], s, v, l)
  <2> TAKE i \in 0 .. n
  <2>1. i # 0 => i \in 1 .. n
    BY <1>1
  <2> QED BY <1>6, <1>7, <2>1
<1>9. Is(f)
  <2>1. f = [i \in 0 .. n |-> f[i]]
    OBVIOUS
  <2> QED BY <1>8, <2>1
<1>10. Is(dims)
  BY <1>9, Zenon
<1> HIDE DEF dims
<1>11. PICK g : g = dims
  OBVIOUS
<1>12. /\ DOMAIN g = 0 .. n
       /\ \A i \in 0 .. n : g[i] = IF i = 0 THEN first ELSE Turn(g[i - 1], s, v, l)
  BY <1>10, <1>11, Zenon
<1>13. 0 \in 0 .. n /\ g[0] = first
  BY <1>1, <1>12
<1>14. \A i \in 1 .. n : g[i] = Turn(g[i - 1], s, v, l)
  <2> TAKE i \in 1 .. n
  <2>1. i \in 0 .. n /\ i # 0
    BY <1>1
  <2> QED BY <1>12, <2>1
<1>15. \A i \in 0 .. n : g[i] \in T
  <2> DEFINE P == {i \in 0 .. n : g[i] \in T}
  <2>1. 0 \in P
    BY <1>2, <1>13
  <2>2. ASSUME NEW i \in 1 .. n, i - 1 \in P PROVE i \in P
    <3>1. g[i - 1] \in T /\ i \in 0 .. n
      BY <1>1, <2>2
    <3>2. g[i] = Turn(g[i - 1], s, v, l)
      BY <1>14
    <3>3. Turn(g[i - 1], s, v, l) \in T
      BY <3>1, TurnIsTyped DEF T
    <3> QED BY <3>1, <3>2, <3>3
  <2> HIDE DEF P
  <2>3. \A i \in 0 .. n : i \in P
    BY <1>1, <2>1, <2>2, UpTo
  <2> QED BY <2>3 DEF P
<1>16. g \in [0 .. n -> T]
  <2>1. g = [i \in 0 .. n |-> IF i = 0 THEN first ELSE Turn(g[i - 1], s, v, l)]
    BY <1>10, <1>11, Zenon
  <2>2. g = [i \in 0 .. n |-> g[i]]
    BY <2>1
  <2> QED BY <1>15, <2>2
<1> QED BY <1>4, <1>11, <1>13, <1>14, <1>16 DEF n, first, T

(* After the last turn nothing can or has to be shortened any more.        *)
LEMMA LoopEnds ==
  ASSUME NEW s \in Cells, NEW v \in SUBSET Axes, NEW l \in Bounds
  PROVE  LET d == infer_supercell_dim(s, v, l)
         IN LoopInv(d, s, v, l) /\ ~TooLarge(d, s, l)
<1> DEFINE n == 3 * l.max_dim
           Sum(d) == d[1] + d[2] + d[3]
<1>1. n \in Nat /\ l.max_dim \in Nat /\ l.min_dim \in Nat /\ l.min_dim >= 1
  BY DEF Bounds
<1>2. PICK dims \in [0 .. n -> [Axes -> Int]] :
        /\ infer_supercell_dim(s, v, l) = dims[n]
        /\ dims[0] = InitialDims(s.lengths, v, l)
        /\ \A i \in 1 .. n : dims[i] = Turn(dims[i - 1], s, v, l)
  BY DimsAreTurned
<1> DEFINE P == {i \in 0 .. n : /\ LoopInv(dims[i], s, v, l)
                                /\ TooLarge(dims[i], s, l) => Sum(dims[i]) <= n - i}
<1>3. ASSUME NEW d, LoopInv(d, s, v, l)
      PROVE  d[1] \in 1 .. l.max_dim /\ d[2] \in 1 .. l.max_dim /\ d[3] \in 1 .. l.max_dim
  BY <1>3 DEF LoopInv, Axes
<1>4. 0 \in P
  <2>1. LoopInv(dims[0], s, v, l)
    BY <1>2, LoopBegins
  <2>2. PICK d : d = dims[0]
    OBVIOUS
  <2>3. d[1] \in 1 .. l.max_dim /\ d[2] \in 1 .. l.max_dim /\ d[3] \in 1 .. l.max_dim
    BY <1>3, <2>1, <2>2
  <2>4. Sum(d) <= n - 0
    BY <1>1, <2>3
  <2> HIDE DEF Sum
  <2> QED BY <1>1, <2>1, <2>2, <2>4
<1>5. ASSUME NEW i \in 1 .. n, i - 1 \in P PROVE i \in P
  <2>1. PICK d, e : d = dims[i - 1] /\ e = dims[i]
    OBVIOUS
  <2>2. /\ LoopInv(d, s, v, l) /\ (TooLarge(d, s, l) => Sum(d) <= n - (i - 1))
        /\ i \in 0 .. n
    BY <1>1, <1>5, <2>1
  <2>3. e = Turn(d, s, v, l)
    BY <1>2, <2>1
  <2>4. CASE TooLarge(d, s, l)
    <3>1. e = Shorter(d, EqualLengths(s.lengths, v), v)
      BY <2>3, <2>4 DEF Turn
    <3>2. LoopInv(e, s, v, l) /\ e[1] + e[2] + e[3] < d[1] + d[2] + d[3]
      BY <2>2, <2>4, <3>1, LoopTurns
    <3>3. d[1] \in 1 .. l.max_dim /\ d[2] \in 1 .. l.max_dim /\ d[3] \in 1 .. l.max_dim
      BY <1>3, <2>2
    <3>4. e[1] \in 1 .. l.max_dim /\ e[2] \in 1 .. l.max_dim /\ e[3] \in 1 .. l.max_dim
      BY <1>3, <3>2
    <3>5. n \in Int /\ i \in Int
      BY <1>1
    <3>6. Sum(d) <= n - (i - 1)
      BY <2>2, <2>4
    <3> HIDE DEF n
    <3>7. Sum(e) <= n - i
      <4>1. PICK p, q : p = d[1] + d[2] + d[3] /\ q = e[1] + e[2] + e[3]
        OBVIOUS
      <4>2. p \in Int /\ q \in Int /\ q < p /\ p <= n - (i - 1)
        BY <3>2, <3>3, <3>4, <3>6, <4>1
      <4>3. q <= n - i
        BY <3>5, <4>2
      <4> QED BY <4>1, <4>3
    <3> HIDE DEF Sum
    <3> QED BY <2>1, <2>2, <3>2, <3>7
  <2>5. CASE ~TooLarge(d, s, l)
    <3>1. e = d
      BY <2>3, <2>5 DEF Turn
    <3> QED BY <2>1, <2>2, <2>5, <3>1
  <2> QED BY <2>4, <2>5
<1>6. n \in P
  <2> HIDE DEF P
  <2>1. \A i \in 0 .. n : i \in P
    BY <1>1, <1>4, <1>5, UpTo
  <2> QED BY <1>1, <2>1
<1>7. PICK d : d = infer_supercell_dim(s, v, l)
  OBVIOUS
<1>8. LoopInv(d, s, v, l) /\ (TooLarge(d, s, l) => Sum(d) <= 0)
  BY <1>1, <1>2, <1>6, <1>7
<1>9. d[1] \in 1 .. l.max_dim /\ d[2] \in 1 .. l.max_dim /\ d[3] \in 1 .. l.max_dim
  BY <1>3, <1>8
<1>10. ~TooLarge(d, s, l)
  BY <1>1, <1>8, <1>9
<1> QED BY <1>7, <1>8, <1>10

LEMMA InferredFits ==
  ASSUME NEW s \in Cells, NEW v \in SUBSET Axes, NEW l \in Bounds
  PROVE  Fits(infer_supercell_dim(s, v, l), s, v, l)
<1>1. PICK d, init : d = infer_supercell_dim(s, v, l) /\ init = InitialDims(s.lengths, v, l)
  OBVIOUS
<1>2. LoopInv(d, s, v, l) /\ ~TooLarge(d, s, l)
  BY <1>1, LoopEnds
<1>3. /\ l.min_dim \in Nat /\ l.max_dim \in Nat /\ l.max_atoms \in Nat /\ s.atoms \in Nat
      /\ \A a \in Active(v) : a \in Axes
  BY DEF Bounds, Cells, Active
<1>4. /\ init \in [Axes -> 1 .. l.max_dim]
      /\ \A a, b \in Active(v) : s.lengths[a] = s.lengths[b] => init[a] = init[b]
  BY <1>1, FirstDims
<1>5. /\ d \in [Axes -> 1 .. l.max_dim] /\ (\A a \in v : d[a] = 1)
      /\ \A a \in Active(v) : l.min_dim <= d[a] /\ d[a] <= init[a]
      /\ EqualLengths(s.lengths, v) => \A a, b \in Active(v) : d[a] = d[b]
      /\ \A a \in Active(v) : d[a] < init[a] => \A b \in Active(v) : d[b] <= d[a] + 1
  BY <1>1, <1>2 DEF LoopInv, Shortened
<1>6. \A a \in Axes : d[a] \in Int /\ init[a] \in Int
  BY <1>3, <1>4, <1>5
<1>7. \/ Atoms(d, s.atoms) <= l.max_atoms
      \/ \A a \in Active(v) : d[a] = l.min_dim
  <2>1. d \in [Axes -> Nat] /\ d \in [Axes -> Int] /\ \A a \in Axes : d[a] <= d[a]
    BY <1>3, <1>5
  <2>2. Atoms(d, s.atoms) \in Nat
    BY <1>3, <2>1, MoreAtoms
  <2>3. LongestDim(d) \in Int /\ \A a \in Axes : d[a] <= LongestDim(d)
    BY <2>1, LongestIs
  <2>4. Atoms(d, s.atoms) <= l.max_atoms \/ LongestDim(d) <= l.min_dim
    BY <1>2, <1>3, <2>2, <2>3 DEF TooLarge
  <2> QED BY <1>3, <1>5, <1>6, <2>3, <2>4
<1>8. ASSUME NEW a \in Active(v), NEW b \in Active(v), s.lengths[a] = s.lengths[b]
      PROVE  d[a] - d[b] \in {-1, 0, 1}
  <2>1. /\ d[a] \in Int /\ d[b] \in Int /\ init[a] \in Int /\ init[a] = init[b]
        /\ d[a] <= init[a] /\ d[b] <= init[b]
        /\ d[a] < init[a] => d[b] <= d[a] + 1
        /\ d[b] < init[b] => d[a] <= d[b] + 1
    BY <1>3, <1>4, <1>5, <1>6, <1>8
  <2> QED BY <2>1
<1>9. Shortened(d, s, v, l) # {} => Atoms(Again(d, Shortened(d, s, v, l)), s.atoms) > l.max_atoms
  BY <1>2 DEF LoopInv
<1>10. Fits(d, s, v, l)
  BY <1>1, <1>5, <1>7, <1>8, <1>9, Zenon DEF Fits, Shortened, Again
<1> QED BY <1>1, <1>10

(* The supercell that a workflow takes when the user names none is between *)
(* the limits, no longer than the target asks, small enough if it can be,  *)
(* and no shorter than the atoms require, for the force constants of second*)
(* and of third order.                                                     *)
THEOREM SupercellsAlwaysFit == Spec => []SupercellsFit
<1>1. SupercellsFit
  <2> SUFFICES ASSUME NEW s \in Structures, NEW l \in Limits
               PROVE  LET v == VacuumAxes(s) IN
                      /\ Fits(infer_supercell_dim(s, v, l), s, v, l)
                      /\ Fits(resolve_fc3_supercell_dim(s, l), s, {},
                              [l EXCEPT !.min_dim = 1, !.max_dim = 6])
                      /\ \A a \in v : default_q_mesh_for_structure(v)[a] = 1
    BY Zenon DEF SupercellsFit
  <2>1. s \in Cells /\ l \in Bounds
    BY SupercellAssumption DEF Cells, Bounds
  <2>2. VacuumAxes(s) \in SUBSET Axes /\ {} \in SUBSET Axes
    BY DEF VacuumAxes
  <2>3. PICK v, third : v = VacuumAxes(s) /\ third = [l EXCEPT !.min_dim = 1, !.max_dim = 6]
    OBVIOUS
  <2>4. third \in Bounds
    <3>1. l \in [target : Nat \ {0}, min_dim : Nat \ {0}, max_dim : Nat \ {0}, max_atoms : Nat \ {0}]
      BY <2>1 DEF Bounds
    <3>2. /\ third \in [target : Nat \ {0}, min_dim : Nat \ {0}, max_dim : Nat \ {0}, max_atoms : Nat \ {0}]
          /\ third.min_dim = 1 /\ third.max_dim = 6
      <4>1. third = [l EXCEPT !.min_dim = 1, !.max_dim = 6]
        BY <2>3
      <4>2. 1 \in Nat \ {0} /\ 6 \in Nat \ {0}
        OBVIOUS
      <4>3. third \in [target : Nat \ {0}, min_dim : Nat \ {0}, max_dim : Nat \ {0}, max_atoms : Nat \ {0}]
        BY <3>1, <4>1, <4>2
      <4>4. third.min_dim = 1 /\ third.max_dim = 6
        BY <3>1, <4>1
      <4> QED BY <4>3, <4>4
    <3>3. third.min_dim <= third.max_dim
      BY <3>2
    <3> QED BY <3>2, <3>3, Zenon DEF Bounds
  <2>5. Fits(infer_supercell_dim(s, v, l), s, v, l)
    BY <2>1, <2>2, <2>3, InferredFits
  <2>6. Fits(infer_supercell_dim(s, {}, third), s, {}, third)
    BY <2>1, <2>2, <2>4, InferredFits
  <2>7. resolve_fc3_supercell_dim(s, l) = infer_supercell_dim(s, {}, third)
    BY <2>3, Zenon DEF resolve_fc3_supercell_dim
  <2>8. \A a \in v : default_q_mesh_for_structure(v)[a] = 1
    BY <2>2, <2>3 DEF default_q_mesh_for_structure
  <2> QED BY <2>3, <2>5, <2>6, <2>7, <2>8
<1> QED BY <1>1, PTL

(* A layer, in a cell of which it fills 13 parts at most.                  *)
LEMMA SpanIs ==
  ASSUME NEW P \in SUBSET (0 .. Parts - 1), P # {}
  PROVE  /\ Min(P) \in P /\ Max(P) \in P
         /\ \A p \in P : Min(P) <= p /\ p <= Max(P) /\ p \in 0 .. 19
         /\ Span(P) = Max(P) - Min(P) /\ Span(P) \in Nat
<1>1. \A p \in P : p \in Int /\ 0 <= p /\ p <= 19
  BY DEF Parts
<1>2. Min(P) \in P /\ \A p \in P : Min(P) <= p
  <2>1. 0 \in Int
    OBVIOUS
  <2> QED BY <1>1, <2>1, MinIs
<1>3. Max(P) \in P /\ \A p \in P : p <= Max(P)
  <2>1. 19 \in Int
    OBVIOUS
  <2> QED BY <1>1, <2>1, MaxIs
<1>4. Span(P) = Max(P) - Min(P)
  BY DEF Span
<1>5. PICK low, high : low = Min(P) /\ high = Max(P)
  OBVIOUS
<1>6. \A p \in P : low <= p /\ p <= high /\ p \in 0 .. 19
  BY <1>1, <1>2, <1>3, <1>5
<1>7. high - low \in Nat
  <2>1. low \in Int /\ high \in Int /\ low <= high
    BY <1>1, <1>2, <1>3, <1>5
  <2> QED BY <2>1
<1> QED BY <1>2, <1>3, <1>4, <1>5, <1>6, <1>7

(* What is beyond the atoms is empty, so the largest gap is no shorter.    *)
LEMMA GapBeyondTheAtoms ==
  ASSUME NEW P \in SUBSET (0 .. Parts - 1)
  PROVE  /\ Span(P) \in Nat /\ LargestGap(P) \in Int
         /\ Parts - Span(P) <= LargestGap(P)
<1>1. CASE P = {}
  BY <1>1 DEF Span, LargestGap, Parts
<1>2. CASE P # {}
  <2>1. /\ Min(P) \in P /\ Max(P) \in P
        /\ \A p \in P : Min(P) <= p /\ p <= Max(P) /\ p \in 0 .. 19
        /\ Span(P) = Max(P) - Min(P) /\ Span(P) \in Nat
    BY <1>2, SpanIs
  <2>2. PICK low, high : low = Min(P) /\ high = Max(P)
    OBVIOUS
  <2> DEFINE gaps == {NextPosition(p, P) - p : p \in P}
  <2>3. ASSUME NEW p \in P PROVE NextPosition(p, P) \in 0 .. 39
    <3> DEFINE later == {q \in P : q > p}
    <3>1. CASE \E q \in P : q > p
      <4>1. later # {} /\ \A q \in later : q \in Int /\ 0 <= q
        BY <2>1, <3>1
      <4>2. NextPosition(p, P) = Min(later)
        BY <3>1 DEF NextPosition
      <4> HIDE DEF later
      <4>3. Min(later) \in later
        BY <4>1, MinIs
      <4>4. \A q \in later : q \in 0 .. 39
        BY <2>1 DEF later
      <4> QED BY <4>2, <4>3, <4>4
    <3>2. CASE ~ \E q \in P : q > p
      <4>1. NextPosition(p, P) = low + 20
        BY <2>2, <3>2 DEF NextPosition, Parts
      <4>2. low \in 0 .. 19
        BY <2>1, <2>2
      <4> QED BY <4>1, <4>2
    <3> QED BY <3>1, <3>2
  <2>4. gaps # {} /\ \A g \in gaps : g \in Int /\ g <= 39
    <3>1. \A p \in P : NextPosition(p, P) - p \in Int /\ NextPosition(p, P) - p <= 39
      <4> TAKE p \in P
      <4>1. p \in 0 .. 19 /\ NextPosition(p, P) \in 0 .. 39
        BY <2>1, <2>3
      <4> QED BY <4>1
    <3> QED BY <1>2, <3>1
  <2>5. LargestGap(P) = Max(gaps)
    BY <1>2 DEF LargestGap
  <2>6. /\ high \in P /\ high \in 0 .. 19 /\ low \in 0 .. 19
        /\ ~ \E q \in P : q > high
    <3>1. high \in P /\ low \in P /\ \A q \in P : q <= high /\ q \in 0 .. 19
      BY <2>1, <2>2
    <3>2. \A q \in P : ~(q > high)
      BY <3>1
    <3> QED BY <3>1, <3>2
  <2>7. NextPosition(high, P) = low + 20
    BY <2>2, <2>6 DEF NextPosition, Parts
  <2>8. NextPosition(high, P) - high \in gaps
    BY <2>6
  <2> HIDE DEF gaps
  <2>9. Max(gaps) \in gaps /\ \A g \in gaps : g <= Max(gaps)
    BY <2>4, MaxIs
  <2>10. low + 20 - high <= Max(gaps) /\ Max(gaps) \in Int
    <3>1. Max(gaps) \in Int
      BY <2>4, <2>9
    <3>2. NextPosition(high, P) - high <= Max(gaps)
      BY <2>8, <2>9
    <3> QED BY <2>6, <2>7, <3>1, <3>2
  <2>11. Parts - Span(P) = low + 20 - high
    BY <2>1, <2>2, <2>6 DEF Parts
  <2> QED BY <2>1, <2>5, <2>10, <2>11
<1> QED BY <1>1, <1>2

LEMMA LayerIsFound ==
  ASSUME NEW s \in Cells, NEW axis \in Axes, ClearLayer(s, axis)
  PROVE  VacuumAxes(s) = {axis} /\ infer_dimensionality_by_vacuum(s) = axis
<1>1. PICK P, span : P = s.positions[axis] /\ span = Span(P)
  OBVIOUS
<1>2. /\ \A a \in Axes : s.lengths[a] \in Nat
      /\ P \in SUBSET (0 .. Parts - 1) /\ Parts = 20
  BY <1>1 DEF Cells, Parts
<1>3. /\ s.lengths[axis] >= 15 /\ \A a \in Axes \ {axis} : s.lengths[a] < 12
      /\ (20 - span) * 100 >= 35 * 20 /\ VacuumLength(s, axis) >= 8 * 20
  BY <1>1, <1>2 DEF ClearLayer
<1>4. PICK gap : gap = LargestGap(P)
  OBVIOUS
<1>5. span \in Nat /\ gap \in Int /\ 20 - span <= gap
  BY <1>1, <1>2, <1>4, GapBeyondTheAtoms
<1>6. gap * 100 >= 35 * 20 /\ span * 100 <= 70 * 20
  BY <1>3, <1>5
<1>7. VacuumAxes(s) = {axis}
  <2>1. \A a \in Axes : a # axis => ~(s.lengths[a] >= 15)
    BY <1>2, <1>3
  <2>2. LargestGap(s.positions[axis]) * 100 >= 35 * Parts
    BY <1>1, <1>2, <1>4, <1>6
  <2> QED BY <1>3, <2>1, <2>2 DEF VacuumAxes
<1>8. VacuumCandidates(s) = {axis}
  <2>1. \A a \in Axes : a # axis => ~(s.lengths[a] >= 12)
    BY <1>2, <1>3
  <2>2. /\ Span(s.positions[axis]) * 100 <= 70 * Parts
        /\ VacuumLength(s, axis) >= 8 * Parts /\ s.lengths[axis] >= 12
    BY <1>1, <1>2, <1>3, <1>6
  <2> QED BY <2>1, <2>2 DEF VacuumCandidates
<1>9. VacuumLength(s, axis) \in Int
  <2>1. Span(s.positions[axis]) \in Int /\ s.lengths[axis] \in Int
    BY <1>1, <1>2, <1>5
  <2> QED BY <1>2, <2>1 DEF VacuumLength
<1>10. {a \in {axis} : \A b \in {axis} : VacuumLength(s, b) <= VacuumLength(s, a)} = {axis}
  BY <1>9
<1>11. Min({axis}) = axis
  <2>1. axis \in Int /\ {axis} # {} /\ \A x \in {axis} : x \in Int /\ axis <= x
    BY DEF Axes
  <2>2. Min({axis}) \in {axis}
    BY <2>1, MinIs
  <2> QED BY <2>2
<1>12. infer_dimensionality_by_vacuum(s) = axis
  BY <1>8, <1>10, <1>11 DEF infer_dimensionality_by_vacuum
<1> QED BY <1>7, <1>12

(* A cell whose axes are all short has no vacuum.                          *)
LEMMA NoLayerIsFound ==
  ASSUME NEW s \in Cells, \A a \in Axes : s.lengths[a] < 12
  PROVE  VacuumAxes(s) = {} /\ infer_dimensionality_by_vacuum(s) = 0
<1>1. \A a \in Axes : ~(s.lengths[a] >= 15) /\ ~(s.lengths[a] >= 12)
  <2>1. \A a \in Axes : s.lengths[a] \in Nat
    BY DEF Cells
  <2> QED BY <2>1
<1>2. VacuumAxes(s) = {}
  BY <1>1 DEF VacuumAxes
<1>3. VacuumCandidates(s) = {}
  BY <1>1 DEF VacuumCandidates
<1> QED BY <1>2, <1>3 DEF infer_dimensionality_by_vacuum

(* The path is that of a layer, if there is one, or else that of a crystal.*)
LEMMA PathIs ==
  ASSUME NEW s, NEW axis, axis = infer_dimensionality_by_vacuum(s)
  PROVE  LET path == generate_kpath(s, "auto")
         IN /\ path # Raises
            /\ axis = 0 => path.mode = "3d_seekpath"
            /\ axis # 0 => path.mode = "2d_ase" /\ path.vacuum = axis
            /\ axis = 3 => 3 \notin path.axes
<1>1. PICK path : path = generate_kpath(s, "auto")
  OBVIOUS
<1>2. path = IF axis # 0 THEN generate_ase_2d_kpath(s) ELSE generate_3d_seekpath_kpath(s)
  <2>1. "auto" # "custom" /\ "auto" # "3d_seekpath" /\ "auto" # "2d_ase"
    OBVIOUS
  <2> QED BY <1>1, <2>1 DEF generate_kpath
<1>3. CASE axis = 0
  <2>1. path = Path("3d_seekpath", Axes, 0)
    BY <1>2, <1>3 DEF generate_3d_seekpath_kpath
  <2> QED BY <1>1, <1>3, <2>1 DEF Path, Raises
<1>4. CASE axis # 0
  <2> DEFINE in_plane == {i \in Axes : standardize_2d_for_ase_bandpath(axis)[i] # axis}
  <2>1. path = Path("2d_ase", in_plane, axis)
    BY <1>2, <1>4 DEF generate_ase_2d_kpath
  <2>2. 3 \notin in_plane
    BY DEF standardize_2d_for_ase_bandpath, Axes
  <2> HIDE DEF in_plane
  <2>3. path.mode = "2d_ase" /\ path.axes = in_plane /\ path.vacuum = axis
    BY <2>1 DEF Path
  <2>4. Raises.mode = "raises"
    BY DEF Raises, Path
  <2> QED BY <1>1, <1>4, <2>2, <2>3, <2>4
<1> QED BY <1>3, <1>4

(* The vacuum beside a layer is neither repeated nor sampled, and not      *)
(* crossed by the bands if it is along the third axis; a cell of short axes*)
(* has no vacuum.                                                          *)
THEOREM LayersAreAlwaysRecognised == Spec => []LayersAreRecognised
<1>1. ASSUME NEW s \in Structures
      PROVE  LET vacuum == VacuumAxes(s)
                 path   == generate_kpath(s, "auto")
             IN  /\ path # Raises
                 /\ (\A a \in Axes : s.lengths[a] < 12) => vacuum = {} /\ path.mode = "3d_seekpath"
                 /\ \A axis \in Axes : ClearLayer(s, axis) =>
                      /\ vacuum = {axis} /\ path.mode = "2d_ase" /\ path.vacuum = axis
                      /\ \A limits \in Limits : infer_supercell_dim(s, vacuum, limits)[axis] = 1
                      /\ default_q_mesh_for_structure(vacuum)[axis] = 1
                      /\ axis = 3 => axis \notin path.axes
  <2>1. s \in Cells
    BY SupercellAssumption DEF Cells
  <2>2. PICK vacuum, path, found : /\ vacuum = VacuumAxes(s) /\ path = generate_kpath(s, "auto")
                                   /\ found = infer_dimensionality_by_vacuum(s)
    OBVIOUS
  <2>3. /\ path # Raises
        /\ found = 0 => path.mode = "3d_seekpath"
        /\ found # 0 => path.mode = "2d_ase" /\ path.vacuum = found
        /\ found = 3 => 3 \notin path.axes
    BY <2>2, PathIs
  <2>4. (\A a \in Axes : s.lengths[a] < 12) => vacuum = {} /\ path.mode = "3d_seekpath"
    BY <2>1, <2>2, <2>3, NoLayerIsFound
  <2>5. ASSUME NEW axis \in Axes, ClearLayer(s, axis)
        PROVE  /\ vacuum = {axis} /\ path.mode = "2d_ase" /\ path.vacuum = axis
               /\ \A limits \in Limits : infer_supercell_dim(s, vacuum, limits)[axis] = 1
               /\ default_q_mesh_for_structure(vacuum)[axis] = 1
               /\ axis = 3 => axis \notin path.axes
    <3>1. vacuum = {axis} /\ found = axis
      BY <2>1, <2>2, <2>5, LayerIsFound
    <3>2. axis # 0
      BY DEF Axes
    <3>3. \A limits \in Limits : infer_supercell_dim(s, vacuum, limits)[axis] = 1
      <4> TAKE limits \in Limits
      <4>1. limits \in Bounds /\ vacuum \in SUBSET Axes
        BY <3>1, SupercellAssumption DEF Bounds
      <4>2. Fits(infer_supercell_dim(s, vacuum, limits), s, vacuum, limits)
        BY <2>1, <4>1, InferredFits
      <4>3. axis \in vacuum
        BY <3>1
      <4> QED BY <4>2, <4>3, Zenon DEF Fits
    <3>4. default_q_mesh_for_structure(vacuum)[axis] = 1
      BY <3>1 DEF default_q_mesh_for_structure
    <3> QED BY <2>3, <3>1, <3>2, <3>3, <3>4
  <2> QED BY <2>2, <2>3, <2>4, <2>5, Zenon
<1>2. LayersAreRecognised
  BY <1>1, Zenon DEF LayersAreRecognised
<1> QED BY <1>2, PTL
===============================================================================
