--------------------------- MODULE EmitRunProofs ---------------------------
(***************************************************************************)
(* Proofs about EmitRun, for every set of paths, every sharing of targets  *)
(* and every set of failures.                                              *)
(***************************************************************************)
EXTENDS EmitRun, TLAPS

-----------------------------------------------------------------------------
(* The pipeline.                                                           *)

\* Every set of faults is one of the stages'.
LEMMA FaultsAreStages == \A t \in Texts : t.faults \subseteq Stages
  BY EmitRunAssumption DEF Texts

\* What compile_one makes of a text: the gates let nothing through.
LEMMA CompiledShape ==
  ASSUME NEW t \in Texts, NEW emit \in BOOLEAN
  PROVE  /\ compiled(t, emit) \in Modules
         /\ compiled(t, emit).text = t
         /\ compiled(t, emit).errors \subseteq t.faults
         /\ compiled(t, emit).cpp => emit /\ t.faults = {} /\ compiled(t, emit).errors = {}
         /\ compiled(t, emit).errors = {} =>
              /\ t.faults \subseteq IF emit THEN {} ELSE {"codegen"}
              /\ emit => compiled(t, emit).cpp
<1>1. t.faults \subseteq Stages
  BY FaultsAreStages
<1>2. errors_before_codegen(t) \subseteq t.faults
  BY DEF errors_before_codegen, front_end_errors, checker_errors
<1>3. ASSUME errors_before_codegen(t) = {} PROVE t.faults \subseteq {"codegen"}
  BY <1>1, <1>3 DEF Stages, errors_before_codegen, front_end_errors, checker_errors
<1>4. CASE emit /\ errors_before_codegen(t) = {}
  <2>1. PICK refused : refused = t.faults \intersect {"codegen"}
    OBVIOUS
  <2>2. PICK ok \in BOOLEAN : ok <=> refused = {}
    OBVIOUS
  <2>3. compiled(t, emit) = [text |-> t, errors |-> refused, cpp |-> ok]
    <3>1. compiled(t, emit) = [text |-> t, errors |-> refused, cpp |-> refused = {}]
      BY <1>4, <2>1 DEF compiled
    <3>2. (refused = {}) = ok
      BY <2>2
    <3>3. QED
      BY <3>1, <3>2
  <2>4. refused = {} <=> t.faults = {}
    BY <1>3, <1>4, <2>1
  <2>5. refused \in SUBSET Stages
    BY <1>1, <2>1
  <2>6. compiled(t, emit) \in Modules
    BY <2>2, <2>3, <2>5 DEF Modules
  <2>7. /\ compiled(t, emit).text = t
        /\ compiled(t, emit).errors = refused
        /\ compiled(t, emit).cpp = ok
    BY <2>3
  <2>8. refused \subseteq t.faults /\ emit = TRUE
    BY <1>4, <2>1
  <2>9. QED
    BY <2>2, <2>4, <2>6, <2>7, <2>8
<1>5. CASE ~(emit /\ errors_before_codegen(t) = {})
  <2>1. compiled(t, emit) = [text |-> t, errors |-> errors_before_codegen(t), cpp |-> FALSE]
    BY <1>5 DEF compiled
  <2>2. QED
    BY <1>1, <1>2, <1>3, <1>5, <2>1 DEF Modules
<1>6. QED
  BY <1>4, <1>5

\* The modules of a run without errors.
LEMMA CleanModules ==
  ASSUME TypeOK, Results
  PROVE  \A p \in DOMAIN modules :
           /\ modules[p].text \in Texts
           /\ modules[p].errors \subseteq modules[p].text.faults
           /\ modules[p].cpp => emit_cpp /\ modules[p].text.faults = {}
           /\ ~has_errors =>
                /\ modules[p].text.faults \subseteq IF emit_cpp THEN {} ELSE {"codegen"}
                /\ emit_cpp => modules[p].cpp
<1> SUFFICES ASSUME NEW p \in DOMAIN modules
             PROVE  /\ modules[p].text \in Texts
                    /\ modules[p].errors \subseteq modules[p].text.faults
                    /\ modules[p].cpp => emit_cpp /\ modules[p].text.faults = {}
                    /\ ~has_errors =>
                         /\ modules[p].text.faults \subseteq IF emit_cpp THEN {} ELSE {"codegen"}
                         /\ emit_cpp => modules[p].cpp
  OBVIOUS
<1>1. modules[p].text \in Texts /\ emit_cpp \in BOOLEAN
  BY DEF TypeOK, Modules
<1>2. modules[p] = compiled(modules[p].text, emit_cpp)
  BY DEF Results
<1>3. ~has_errors => modules[p].errors = {}
  BY DEF Results
<1>4. QED
  BY <1>1, <1>2, <1>3, CompiledShape

-----------------------------------------------------------------------------
(* The invariant, action by action.                                        *)

\* What is written for a path and a text is an artifact of both.
LEMMA ArtifactShape ==
  \A p \in Paths, t \in Texts : \A marked, whole \in BOOLEAN :
    \E file \in Artifacts : /\ file = Artifact(p, t, marked, whole)
                            /\ file.path = p /\ file.text = t
<1> SUFFICES ASSUME NEW p \in Paths, NEW t \in Texts, NEW marked \in BOOLEAN, NEW whole \in BOOLEAN
             PROVE  \E file \in Artifacts : /\ file = Artifact(p, t, marked, whole)
                                            /\ file.path = p /\ file.text = t
  OBVIOUS
<1>1. /\ Artifact(p, t, marked, whole) \in Artifacts
      /\ Artifact(p, t, marked, whole).path = p
      /\ Artifact(p, t, marked, whole).text = t
  BY DEF Artifact, Artifacts
<1>2. QED
  BY <1>1, Zenon

LEMMA EditPreserves == IInv /\ Edit => IInv'
<1> SUFFICES ASSUME IInv, Edit PROVE IInv'
  OBVIOUS
<1> USE DEF IInv
<1>1. CASE \E p \in Paths : EditSource(p) \/ DeleteSource(p)
  <2>1. /\ UNCHANGED <<disk, phase, emit_cpp, inputs, pending, modules, has_errors, exit>>
        /\ sources' \in [Paths -> Texts \union {Missing}]
    <3>1. PICK p \in Paths : EditSource(p) \/ DeleteSource(p)
      BY <1>1
    <3>2. CASE EditSource(p)
      <4>1. PICK f \in FaultSets :
              sources' = [sources EXCEPT ![p] = [version |-> @.version + 1, faults |-> f]]
        BY <3>2 DEF EditSource
      <4>2. sources[p] \in Texts /\ sources[p].version < MaxEdits
        BY <3>2 DEF EditSource, TypeOK
      <4>3. [version |-> sources[p].version + 1, faults |-> f] \in Texts
        BY <4>2, EmitRunAssumption DEF Texts
      <4>4. QED
        BY <3>2, <4>1, <4>3 DEF EditSource, userUnchanged, TypeOK
    <3>3. CASE DeleteSource(p)
      BY <3>3 DEF DeleteSource, userUnchanged, TypeOK
    <3>4. QED
      BY <3>1, <3>2, <3>3
  <2>2. QED
    BY <2>1 DEF TypeOK, Idle, Results, Progress, EndedWell, Reconciled, Threw,
                looks_cythonpp_generated, ArtifactsComeFromAcceptedSources
<1>2. CASE \E o \in Targets : TouchTarget(o)
  <2>1. PICK o \in Targets, file \in {Missing, Foreign} :
          /\ phase = "idle"
          /\ disk' = [disk EXCEPT ![o] = file]
          /\ UNCHANGED <<sources, phase, emit_cpp, inputs, pending, modules, has_errors, exit>>
    BY <1>2 DEF TouchTarget, userUnchanged
  <2>2. file \notin Artifacts
    BY EmitRunAssumption
  <2>3. TypeOK'
    BY <2>1 DEF TypeOK
  <2>4. ArtifactsComeFromAcceptedSources'
    <3>1. SUFFICES ASSUME NEW x \in Targets, disk'[x] \in Artifacts
                   PROVE  target[disk'[x].path] = x /\ disk'[x].text.faults = {}
      BY DEF ArtifactsComeFromAcceptedSources
    <3>2. x # o /\ disk'[x] = disk[x]
      BY <2>1, <2>2, <3>1 DEF TypeOK
    <3>3. QED
      BY <3>1, <3>2 DEF ArtifactsComeFromAcceptedSources
  <2>5. exit = "none"
    BY <2>1 DEF Idle
  <2>6. (Idle /\ Results /\ Progress /\ EndedWell /\ Reconciled)'
    BY <2>1, <2>5 DEF Idle, Results, Progress, EndedWell, Reconciled
  <2>7. QED
    BY <2>3, <2>4, <2>6
<1>3. QED
  BY <1>1, <1>2 DEF Edit

LEMMA StartPreserves == IInv /\ (StartFile \/ StartDirectory) => IInv'
<1> SUFFICES ASSUME IInv, StartFile \/ StartDirectory PROVE IInv'
  OBVIOUS
<1> USE DEF IInv
<1>1. PICK paths \in SUBSET Paths, emit \in BOOLEAN : Start(paths, emit)
  BY DEF StartFile, StartDirectory
<1>2. modules = <<>> /\ ~has_errors /\ exit = "none" /\ DOMAIN modules = {}
  BY <1>1 DEF Start, Idle
<1>3. /\ UNCHANGED <<sources, disk, modules, has_errors, exit>>
      /\ phase' = "compile" /\ inputs' = paths /\ pending' = paths /\ emit_cpp' = emit
  BY <1>1 DEF Start
<1>4. TypeOK'
  BY <1>1, <1>2, <1>3 DEF TypeOK, Phases
<1>5. (Idle /\ Results /\ Progress /\ EndedWell /\ Reconciled)'
  BY <1>1, <1>2, <1>3 DEF Idle, Results, Progress, EndedWell, Reconciled
<1>6. QED
  BY <1>3, <1>4, <1>5 DEF ArtifactsComeFromAcceptedSources

LEMMA ThrowPreserves ==
  ASSUME IInv, pending # {}, Throw, UNCHANGED disk
  PROVE  IInv'
<1>1. /\ UNCHANGED <<sources, disk, emit_cpp, inputs, pending, modules, has_errors>>
      /\ phase' = "exited" /\ exit' = "error" /\ pending' # {}
  BY DEF Throw
<1>2. TypeOK'
  BY <1>1 DEF IInv, TypeOK, Phases
<1>3. (Idle /\ Results /\ Progress /\ EndedWell /\ Reconciled)'
  BY <1>1 DEF IInv, Idle, Results, Progress, EndedWell, Reconciled, Threw
<1>4. QED
  BY <1>1, <1>2, <1>3 DEF IInv, ArtifactsComeFromAcceptedSources

LEMMA FinishPreserves ==
  ASSUME IInv, pending = {}, phase \in {"compile", "reconcile"},
         phase = "compile" => ~emit_cpp,
         Finish
  PROVE  IInv'
<1>1. /\ UNCHANGED <<sources, disk, emit_cpp, inputs, pending, modules, has_errors>>
      /\ phase' = "exited" /\ exit' = IF has_errors THEN "error" ELSE "ok"
  BY DEF Finish
<1>2. TypeOK'
  BY <1>1 DEF IInv, TypeOK, Phases
<1>3. DOMAIN modules = inputs
  BY DEF IInv, Progress, TypeOK
<1>4. (Idle /\ Results /\ Progress /\ EndedWell)'
  BY <1>1, <1>3 DEF IInv, Idle, Results, Progress, EndedWell
<1>5. Reconciled'
  BY <1>1 DEF IInv, Reconciled, looks_cythonpp_generated
<1>6. QED
  BY <1>1, <1>2, <1>4, <1>5 DEF IInv, ArtifactsComeFromAcceptedSources

LEMMA CompileOnePreserves ==
  ASSUME IInv, NEW p \in Paths, CompileOne(p)
  PROVE  IInv'
<1> DEFINE module == compiled(sources[p], emit_cpp)
<1> USE DEF IInv
<1>1. /\ phase = "compile" /\ p \in pending /\ sources[p] \in Texts /\ emit_cpp \in BOOLEAN
      /\ p \in inputs
  BY DEF CompileOne, First, TypeOK
<1>2. /\ module \in Modules /\ module.text = sources[p]
  BY <1>1, CompiledShape
<1>3. /\ modules' = [q \in DOMAIN modules \union {p} |-> IF q = p THEN module ELSE modules[q]]
      /\ has_errors' = (has_errors \/ module.errors # {})
      /\ pending' = pending \ {p}
      /\ UNCHANGED <<sources, disk, phase, emit_cpp, inputs, exit>>
  BY DEF CompileOne
<1> HIDE DEF module
<1>4. /\ DOMAIN modules' = DOMAIN modules \union {p}
      /\ \A q \in DOMAIN modules' : modules'[q] = IF q = p THEN module ELSE modules[q]
  BY <1>3
<1>5. TypeOK'
  <2>1. \A q \in DOMAIN modules' : modules'[q] \in Modules
    BY <1>2, <1>4 DEF TypeOK
  <2>2. has_errors' \in BOOLEAN
    BY <1>3 DEF TypeOK
  <2>3. pending' \subseteq inputs' /\ DOMAIN modules' \subseteq inputs'
    BY <1>1, <1>3, <1>4 DEF TypeOK
  <2>4. QED
    BY <1>3, <2>1, <2>2, <2>3 DEF TypeOK
<1>6. Results'
  <2>1. \A q \in DOMAIN modules' : modules'[q] = compiled(modules'[q].text, emit_cpp')
    BY <1>2, <1>3, <1>4 DEF Results, module
  <2>2. has_errors' \/ \A q \in DOMAIN modules' : modules'[q].errors = {}
    BY <1>3, <1>4 DEF Results
  <2>3. QED
    BY <2>1, <2>2 DEF Results
<1>7. Progress' /\ Idle' /\ EndedWell' /\ Reconciled'
  BY <1>1, <1>3, <1>4 DEF Progress, Idle, EndedWell, Reconciled
<1>8. QED
  BY <1>3, <1>5, <1>6, <1>7 DEF ArtifactsComeFromAcceptedSources

\* The steps of write_emitted_sources: what the target of one module may become.
LEMMA TargetChangePreserves ==
  ASSUME IInv,
         NEW p \in pending,
         phase \in {"reconcile", "opened"},
         NEW file \in Artifacts \union {Missing},
         disk' = [disk EXCEPT ![target[p]] = file],
         file \in Artifacts => /\ file.path = p
                               /\ file.text.faults = {}
                               /\ ~has_errors,
         phase' \in {"reconcile", "opened"},
         phase' = "opened" => ~has_errors,
         pending' \in {pending, pending \ {p}},
         pending' # pending => modules[p].cpp \/ file = Missing,
         writeUnchanged
  PROVE  IInv'
<1> USE DEF IInv
<1>1. UNCHANGED <<sources, emit_cpp, inputs, modules, has_errors, exit>>
  BY DEF writeUnchanged
<1>2. p \in Paths /\ p \in inputs /\ target[p] \in Targets
  BY EmitRunAssumption DEF TypeOK
<1>3. \A o \in Targets : disk'[o] = IF o = target[p] THEN file ELSE disk[o]
  BY DEF TypeOK
<1>4. TypeOK'
  BY <1>1, <1>2 DEF TypeOK, Phases
<1>5. Idle' /\ Results' /\ Progress' /\ EndedWell'
  BY <1>1 DEF Idle, Results, Progress, EndedWell
<1>6. ArtifactsComeFromAcceptedSources'
  BY <1>2, <1>3 DEF ArtifactsComeFromAcceptedSources
<1>7. Reconciled'
  <2>1. emit_cpp /\ exit' = "none" /\ DOMAIN modules = inputs
    BY <1>1 DEF Progress, EndedWell
  <2>2. SUFFICES ASSUME NEW q \in DOMAIN modules, q \notin pending', ~modules[q].cpp
                 PROVE  ~looks_cythonpp_generated(target[q])'
    BY <1>1 DEF Reconciled
  <2>3. has_errors
    BY <2>1, <2>2, CleanModules
  <2>4. file = Missing
    BY <2>3
  <2>5. q \in Paths /\ target[q] \in Targets
    BY EmitRunAssumption DEF TypeOK
  <2>6. CASE target[q] = target[p]
    BY <1>3, <2>4, <2>5, <2>6, EmitRunAssumption DEF looks_cythonpp_generated
  <2>7. CASE target[q] # target[p]
    <3>1. q \notin pending
      BY <2>2, <2>7
    <3>2. ~looks_cythonpp_generated(target[q])
      BY <2>2, <3>1 DEF Reconciled
    <3>3. QED
      BY <1>3, <2>5, <2>7, <3>2 DEF looks_cythonpp_generated
  <2>8. QED
    BY <2>6, <2>7
<1>8. QED
  BY <1>4, <1>5, <1>6, <1>7

\* A target that is left as it is.
LEMMA SkipPreserves ==
  ASSUME IInv,
         NEW p \in pending,
         phase = "reconcile",
         modules[p].cpp \/ ~looks_cythonpp_generated(target[p]),
         pending' = pending \ {p},
         UNCHANGED <<disk, phase>>,
         writeUnchanged
  PROVE  IInv'
<1> USE DEF IInv
<1>1. UNCHANGED <<sources, disk, phase, emit_cpp, inputs, modules, has_errors, exit>>
  BY DEF writeUnchanged
<1>2. TypeOK'
  BY <1>1 DEF TypeOK
<1>3. Idle' /\ Results' /\ Progress' /\ EndedWell'
  BY <1>1 DEF Idle, Results, Progress, EndedWell
<1>4. Reconciled'
  BY <1>1 DEF Reconciled, EndedWell, looks_cythonpp_generated
<1>5. QED
  BY <1>1, <1>2, <1>3, <1>4 DEF ArtifactsComeFromAcceptedSources

LEMMA ReconcilePreserves ==
  ASSUME IInv, NEW p \in Paths, Reconcile(p)
  PROVE  IInv'
<1> USE DEF IInv
<1>1. /\ phase \in {"reconcile", "opened"} /\ p \in pending /\ pending # {}
      /\ p \in DOMAIN modules /\ emit_cpp
  BY DEF Reconcile, KeepTarget, OpenTarget, OpenFails, WriteTarget, LeaveTarget, RemoveStale,
         RemoveFails, First, Progress, TypeOK
<1>2. /\ modules[p].text \in Texts
      /\ modules[p].cpp => modules[p].text.faults = {}
      /\ ~has_errors => modules[p].cpp
  BY <1>1, CleanModules
<1>3. CASE KeepTarget(p) \/ LeaveTarget(p)
  BY <1>1, <1>3, SkipPreserves DEF KeepTarget, LeaveTarget
<1>4. CASE OpenTarget(p)
  <2>1. PICK file \in Artifacts : /\ file = Artifact(p, modules[p].text, FALSE, FALSE)
                                  /\ file.path = p /\ file.text = modules[p].text
    BY <1>2, ArtifactShape
  <2>2. /\ disk' = [disk EXCEPT ![target[p]] = file]
        /\ ~has_errors /\ phase' = "opened" /\ pending' = pending /\ writeUnchanged
    BY <1>4, <2>1 DEF OpenTarget
  <2>3. QED
    BY <1>1, <1>2, <2>1, <2>2, TargetChangePreserves
<1>5. CASE WriteTarget(p)
  <2>1. PICK marked \in BOOLEAN, whole \in BOOLEAN :
          disk' = [disk EXCEPT ![target[p]] = Artifact(p, modules[p].text, marked, whole)]
    BY <1>5 DEF WriteTarget
  <2>2. PICK file \in Artifacts : /\ file = Artifact(p, modules[p].text, marked, whole)
                                  /\ file.path = p /\ file.text = modules[p].text
    BY <1>2, ArtifactShape
  <2>3. /\ disk' = [disk EXCEPT ![target[p]] = file]
        /\ ~has_errors /\ phase' = "reconcile" /\ pending' = pending \ {p} /\ writeUnchanged
    BY <1>5, <2>1, <2>2 DEF WriteTarget, Progress
  <2>4. QED
    BY <1>1, <1>2, <2>2, <2>3, TargetChangePreserves
<1>6. CASE RemoveStale(p)
  <2>1. Missing \notin Artifacts
    BY EmitRunAssumption
  <2>2. QED
    BY <1>1, <1>6, <2>1, TargetChangePreserves DEF RemoveStale
<1>7. CASE OpenFails(p) \/ RemoveFails(p)
  BY <1>1, <1>7, ThrowPreserves DEF OpenFails, RemoveFails
<1>8. QED
  BY <1>3, <1>4, <1>5, <1>6, <1>7 DEF Reconcile

LEMMA StepPreserves == IInv /\ Step => IInv'
<1> SUFFICES ASSUME IInv, Step PROVE IInv'
  OBVIOUS
<1>1. CASE \E p \in Paths : CompileOne(p)
  BY <1>1, CompileOnePreserves
<1>2. CASE \E p \in Paths : ReadFails(p)
  BY <1>2, ThrowPreserves DEF ReadFails, First
<1>3. CASE \E p \in Paths : Reconcile(p)
  BY <1>3, ReconcilePreserves
<1>4. CASE PrintResult
  <2>1. phase = "compile" /\ pending = {}
    BY <1>4 DEF PrintResult
  <2>2. CASE ~emit_cpp
    BY <1>4, <2>1, <2>2, FinishPreserves DEF PrintResult
  <2>3. CASE emit_cpp
    <3>1. /\ UNCHANGED <<sources, disk, emit_cpp, inputs, modules, has_errors, exit>>
          /\ phase' = "reconcile" /\ pending' = DOMAIN modules
      BY <1>4, <2>3 DEF PrintResult
    <3>2. DOMAIN modules = inputs
      BY <2>1 DEF IInv, Progress, TypeOK
    <3>3. QED
      BY <2>1, <2>3, <3>1, <3>2 DEF IInv, TypeOK, Phases, Idle, Results, Progress, EndedWell,
                                    Reconciled, ArtifactsComeFromAcceptedSources
  <2>4. QED
    BY <2>2, <2>3
<1>5. CASE Return
  BY <1>5, FinishPreserves DEF Return
<1>6. CASE Reap
  <2>1. /\ UNCHANGED <<sources, disk>>
        /\ phase' = "idle" /\ emit_cpp' = FALSE /\ inputs' = {} /\ pending' = {}
        /\ modules' = <<>> /\ has_errors' = FALSE /\ exit' = "none"
    BY <1>6 DEF Reap
  <2>2. DOMAIN modules' = {}
    BY <2>1
  <2>3. QED
    BY <2>1, <2>2 DEF IInv, TypeOK, Phases, Idle, Results, Progress, EndedWell, Reconciled,
                      ArtifactsComeFromAcceptedSources
<1>7. QED
  BY <1>1, <1>2, <1>3, <1>4, <1>5, <1>6 DEF Step

LEMMA KillPreserves == IInv /\ Kill => IInv'
<1> SUFFICES ASSUME IInv, Kill PROVE IInv'
  OBVIOUS
<1>1. /\ UNCHANGED <<sources, emit_cpp, inputs, pending, modules, has_errors>>
      /\ phase' = "exited" /\ exit' = "killed"
  BY DEF Kill
<1>2. (Idle /\ Results /\ Progress /\ EndedWell /\ Reconciled)'
  BY <1>1 DEF IInv, Idle, Results, Progress, EndedWell, Reconciled
<1>3. TypeOK' /\ ArtifactsComeFromAcceptedSources'
  <2>1. CASE UNCHANGED disk
    BY <1>1, <2>1 DEF IInv, TypeOK, Phases, ArtifactsComeFromAcceptedSources
  <2>2. CASE phase = "opened"
    <3>1. PICK p \in First(pending), marked \in BOOLEAN, whole \in BOOLEAN :
            disk' = [disk EXCEPT ![target[p]] = Artifact(p, modules[p].text, marked, whole)]
      BY <2>2 DEF Kill
    <3>2. p \in Paths /\ p \in DOMAIN modules /\ target[p] \in Targets
      BY <2>2, EmitRunAssumption DEF First, IInv, TypeOK, Progress
    <3>3. modules[p].text \in Texts /\ modules[p].text.faults = {}
      BY <2>2, <3>2, CleanModules DEF IInv, Progress
    <3>4. PICK file \in Artifacts : /\ file = Artifact(p, modules[p].text, marked, whole)
                                    /\ file.path = p /\ file.text = modules[p].text
      BY <3>2, <3>3, ArtifactShape
    <3>5. /\ disk' = [disk EXCEPT ![target[p]] = file]
          /\ \A o \in Targets : disk'[o] = IF o = target[p] THEN file ELSE disk[o]
      BY <3>1, <3>4 DEF IInv, TypeOK
    <3>6. QED
      BY <1>1, <3>2, <3>3, <3>4, <3>5 DEF IInv, TypeOK, Phases, ArtifactsComeFromAcceptedSources
  <2>3. QED
    BY <2>1, <2>2 DEF Kill
<1>4. QED
  BY <1>2, <1>3 DEF IInv

LEMMA InitImpliesIInv == Init => IInv
<1> SUFFICES ASSUME Init PROVE IInv
  OBVIOUS
<1>1. DOMAIN modules = {}
  BY DEF Init
<1>2. \A o \in Targets : disk[o] \notin Artifacts
  BY EmitRunAssumption DEF Init
<1>3. QED
  BY <1>1, <1>2 DEF Init, IInv, TypeOK, Phases, Idle, Results, Progress, EndedWell, Reconciled,
                    ArtifactsComeFromAcceptedSources

LEMMA StutterPreserves == IInv /\ UNCHANGED vars => IInv'
  BY DEF vars, IInv, TypeOK, Idle, Results, Progress, EndedWell, Reconciled, Threw,
         looks_cythonpp_generated, ArtifactsComeFromAcceptedSources

\* The invariant of EmitRun is inductive.
THEOREM Invariance == Spec => []IInv
<1>1. IInv /\ [Next]_vars => IInv'
  BY EditPreserves, StartPreserves, StepPreserves, KillPreserves, StutterPreserves DEF Next
<1>2. QED
  BY InitImpliesIInv, <1>1, PTL DEF Spec

-----------------------------------------------------------------------------
(* What follows from it.                                                   *)

\* Every variable keeps its type, whatever fails.
THEOREM TypeCorrect == Spec => []TypeOK
<1>1. IInv => TypeOK
  BY DEF IInv
<1>2. QED
  BY <1>1, Invariance, PTL

\* No text that a stage refused is ever emitted, and what is emitted is at the target
\* of its source.
THEOREM OnlyAcceptedSourcesAreEmitted == Spec => []ArtifactsComeFromAcceptedSources
<1>1. IInv => ArtifactsComeFromAcceptedSources
  BY DEF IInv
<1>2. QED
  BY <1>1, Invariance, PTL

\* Nothing is written by a run in which any module had an error.
THEOREM WritesNeedACleanRun == Spec => []NewContentNeedsCleanRun
<1>1. IInv => NewContentNeedsCleanRun
  BY CleanModules DEF IInv, Progress, NewContentNeedsCleanRun
<1>2. QED
  BY <1>1, Invariance, PTL

\* Exit status 0 means that every input was read and accepted.
THEOREM ExitStatusIsHonest == Spec => []HonestExit
<1>1. IInv => HonestExit
  BY CleanModules DEF IInv, EndedWell, HonestExit
<1>2. QED
  BY <1>1, Invariance, PTL

\* No module is reported for an error that is not in its text.
THEOREM ReportsAreReal == Spec => []NoInventedErrors
<1>1. IInv => NoInventedErrors
  BY CleanModules DEF IInv, NoInventedErrors
<1>2. QED
  BY <1>1, Invariance, PTL

\* A run that was not cut short leaves no generated file of a module that failed, even
\* when modules share a target.
THEOREM NothingStaleIsLeft == Spec => []NoStaleTarget
<1>1. IInv => NoStaleTarget
  BY DEF IInv, Reconciled, EndedWell, NoStaleTarget, Threw
<1>2. QED
  BY <1>1, Invariance, PTL

\* What the user put at a target path is never removed, and changes only in a clean
\* run: the steps of a run, one by one.
THEOREM ForeignFilesAreKept == Spec => ForeignKept
<1> DEFINE Kept(o) == /\ disk'[o] \in Artifacts
                      /\ \A p \in inputs : modules[p].text.faults = {}
<1>1. ASSUME IInv, [Next]_vars, NEW o \in Targets,
             phase # "idle", disk[o] = Foreign, disk'[o] # Foreign
      PROVE  Kept(o)
  <2>1. disk' # disk /\ o \in Targets
    BY <1>1
  <2>2. CASE Edit
    BY <1>1, <2>1, <2>2 DEF Edit, EditSource, DeleteSource, TouchTarget
  <2>3. CASE \E p \in Paths : OpenTarget(p) \/ WriteTarget(p) \/ RemoveStale(p)
    <3>1. PICK p \in Paths : OpenTarget(p) \/ WriteTarget(p) \/ RemoveStale(p)
      BY <2>3
    <3>2. /\ phase \in {"reconcile", "opened"} /\ p \in pending /\ p \in inputs
          /\ DOMAIN modules = inputs /\ emit_cpp
      BY <1>1, <3>1 DEF OpenTarget, WriteTarget, RemoveStale, First, IInv, TypeOK, Progress
    <3>3. target[p] \in Targets /\ modules[p].text \in Texts
      BY <1>1, <3>2, CleanModules, EmitRunAssumption DEF IInv, TypeOK
    <3>4. ~RemoveStale(p)
      <4>1. SUFFICES ASSUME RemoveStale(p) PROVE FALSE
        OBVIOUS
      <4>2. looks_cythonpp_generated(target[p]) /\ disk' = [disk EXCEPT ![target[p]] = Missing]
        BY <4>1 DEF RemoveStale
      <4>3. o = target[p]
        BY <1>1, <3>3, <4>2 DEF IInv, TypeOK
      <4>4. QED
        BY <1>1, <4>2, <4>3, EmitRunAssumption DEF looks_cythonpp_generated
    <3>5. PICK marked \in BOOLEAN, whole \in BOOLEAN :
            disk' = [disk EXCEPT ![target[p]] = Artifact(p, modules[p].text, marked, whole)]
      BY <3>1, <3>4 DEF OpenTarget, WriteTarget
    <3>6. PICK file \in Artifacts : file = Artifact(p, modules[p].text, marked, whole)
      BY <3>3, ArtifactShape
    <3>7. disk'[o] = file
      BY <1>1, <3>3, <3>5, <3>6 DEF IInv, TypeOK
    <3>8. ~has_errors
      BY <1>1, <3>1, <3>4 DEF OpenTarget, WriteTarget, IInv, Progress
    <3>9. QED
      BY <1>1, <3>2, <3>7, <3>8, CleanModules DEF IInv
  <2>4. CASE Kill
    <3>1. PICK p \in First(pending), marked \in BOOLEAN, whole \in BOOLEAN :
            disk' = [disk EXCEPT ![target[p]] = Artifact(p, modules[p].text, marked, whole)]
      BY <2>1, <2>4 DEF Kill
    <3>2. phase = "opened" /\ p \in Paths /\ p \in inputs /\ DOMAIN modules = inputs /\ emit_cpp
      BY <1>1, <2>1, <2>4 DEF Kill, First, IInv, TypeOK, Progress
    <3>3. target[p] \in Targets /\ modules[p].text \in Texts
      BY <1>1, <3>2, CleanModules, EmitRunAssumption DEF IInv
    <3>4. PICK file \in Artifacts : file = Artifact(p, modules[p].text, marked, whole)
      BY <3>2, <3>3, ArtifactShape
    <3>5. disk'[o] = file
      BY <1>1, <3>1, <3>3, <3>4 DEF IInv, TypeOK
    <3>6. QED
      BY <1>1, <3>2, <3>5, CleanModules DEF IInv, Progress
  <2>5. CASE \/ StartFile \/ StartDirectory \/ UNCHANGED vars
             \/ PrintResult \/ Return \/ Reap
             \/ \E p \in Paths : CompileOne(p) \/ ReadFails(p) \/ KeepTarget(p) \/ OpenFails(p)
                               \/ LeaveTarget(p) \/ RemoveFails(p)
    BY <2>1, <2>5 DEF StartFile, StartDirectory, Start, vars, PrintResult, Finish, Return, Reap,
                      CompileOne, ReadFails, KeepTarget, OpenFails, LeaveTarget, RemoveFails
  <2>6. QED
    BY <1>1, <2>2, <2>3, <2>4, <2>5 DEF Next, Step, Reconcile
<1>2. IInv /\ [Next]_vars => [\A o \in Targets :
         phase # "idle" /\ disk[o] = Foreign /\ disk'[o] # Foreign =>
           /\ disk'[o] \in Artifacts
           /\ \A p \in inputs : modules[p].text.faults = {}]_vars
  BY <1>1
<1>3. QED
  BY <1>2, Invariance, PTL DEF Spec, ForeignKept

-----------------------------------------------------------------------------
(* The sources that a clean run leaves: what a second invariant adds.      *)

\* No two paths share a target; paths come one after the other; a write that is not killed
\* writes everything.
OwnTargets == \A p, q \in Paths : target[p] = target[q] => p = q
OneAfterTheOther == \A p, q \in Paths : rank[p] = rank[q] => p = q
WritesAreWhole == "short" \notin Failures

EmittedFrom(p, o) == target[p] = o /\ disk[o] = Artifact(p, modules[p].text, TRUE, TRUE)

\* In a clean run the targets of the modules it is done with hold C++ of its modules; the
\* one that is open holds nothing yet.
Written ==
  (phase \in {"reconcile", "opened"} \/ (exit = "ok" /\ emit_cpp)) /\ ~has_errors =>
    \A p \in DOMAIN modules \ pending :
      (phase = "opened" => \A r \in First(pending) : target[r] # target[p])
        => \E q \in DOMAIN modules : EmittedFrom(q, target[p])

\* The target of a module is opened: it is not written yet.
LEMMA OpenTargetKeepsWritten ==
  ASSUME IInv, Written, NEW p \in Paths, OpenTarget(p)
  PROVE  Written'
<1>1. /\ phase = "reconcile" /\ p \in First(pending) /\ phase' = "opened"
      /\ UNCHANGED <<pending, modules, has_errors>>
      /\ disk' = [disk EXCEPT ![target[p]] = Artifact(p, modules[p].text, FALSE, FALSE)]
  BY DEF OpenTarget, writeUnchanged
<1>2. SUFFICES ASSUME ~has_errors, NEW q \in DOMAIN modules \ pending, target[p] # target[q]
               PROVE  \E r \in DOMAIN modules : EmittedFrom(r, target[q])'
  BY <1>1 DEF Written, First
<1>3. PICK r \in DOMAIN modules : EmittedFrom(r, target[q])
  BY <1>1, <1>2 DEF Written
<1>4. target[q] \in Targets
  BY <1>2, EmitRunAssumption DEF IInv, TypeOK
<1>5. disk'[target[q]] = disk[target[q]]
  BY <1>1, <1>2, <1>4 DEF IInv, TypeOK
<1>6. QED
  BY <1>1, <1>3, <1>5 DEF EmittedFrom

\* It is written, and no other target was open.
LEMMA WriteTargetKeepsWritten ==
  ASSUME WritesAreWhole, OwnTargets \/ OneAfterTheOther,
         IInv, Written, NEW p \in Paths, WriteTarget(p)
  PROVE  Written'
<1>1. /\ phase = "opened" /\ p \in First(pending) /\ p \in pending
      /\ phase' = "reconcile" /\ pending' = pending \ {p}
      /\ UNCHANGED <<modules, has_errors>>
      /\ disk' = [disk EXCEPT ![target[p]] = Artifact(p, modules[p].text, TRUE, TRUE)]
  BY DEF WriteTarget, writeUnchanged, WritesAreWhole, First
<1>2. /\ pending \subseteq Paths /\ DOMAIN modules \subseteq Paths
      /\ p \in DOMAIN modules /\ target \in [Paths -> Targets] /\ rank \in [Paths -> Nat]
  BY <1>1, EmitRunAssumption DEF IInv, TypeOK, Progress
<1>3. SUFFICES ASSUME ~has_errors, NEW q \in DOMAIN modules, q \notin pending \ {p}
               PROVE  \E r \in DOMAIN modules : EmittedFrom(r, target[q])'
  BY <1>1 DEF Written
<1>4. CASE target[q] = target[p]
  <2>1. disk'[target[q]] = Artifact(p, modules[p].text, TRUE, TRUE)
    BY <1>1, <1>2, <1>4 DEF IInv, TypeOK
  <2>2. QED
    BY <1>1, <1>2, <1>4, <2>1 DEF EmittedFrom
<1>5. CASE target[q] # target[p]
  <2>1. q \in Paths /\ q \notin pending
    BY <1>2, <1>3, <1>5
  <2>2. ASSUME NEW r \in First(pending)
        PROVE  target[r] # target[q]
    <3>1. r \in pending /\ r \in Paths /\ rank[r] <= rank[p] /\ rank[p] <= rank[r]
      BY <1>1, <1>2 DEF First
    <3>2. rank[r] = rank[p]
      BY <1>2, <3>1
    <3>3. CASE OneAfterTheOther
      BY <1>2, <1>5, <3>1, <3>2, <3>3 DEF OneAfterTheOther
    <3>4. CASE OwnTargets
      BY <2>1, <3>1, <3>4 DEF OwnTargets
    <3>5. QED
      BY <3>3, <3>4
  <2>3. PICK r \in DOMAIN modules : EmittedFrom(r, target[q])
    BY <1>1, <1>3, <2>1, <2>2 DEF Written
  <2>4. disk'[target[q]] = disk[target[q]]
    BY <1>1, <1>2, <1>5, <2>1 DEF IInv, TypeOK
  <2>5. QED
    BY <1>1, <2>3, <2>4 DEF EmittedFrom
<1>6. QED
  BY <1>4, <1>5

\* A clean run passes over no module and removes no target.
LEMMA ReconcileKeepsWritten ==
  ASSUME WritesAreWhole, OwnTargets \/ OneAfterTheOther,
         IInv, Written, NEW p \in Paths, Reconcile(p)
  PROVE  Written'
<1>1. CASE OpenTarget(p)
  BY <1>1, OpenTargetKeepsWritten
<1>2. CASE WriteTarget(p)
  BY <1>2, WriteTargetKeepsWritten
<1>3. CASE KeepTarget(p) \/ LeaveTarget(p) \/ RemoveStale(p)
  <2>1. /\ phase = "reconcile" /\ p \in pending /\ has_errors' = has_errors
        /\ has_errors \/ ~modules[p].cpp
    BY <1>3 DEF KeepTarget, LeaveTarget, RemoveStale, First, writeUnchanged
  <2>2. p \in DOMAIN modules /\ emit_cpp
    BY <2>1 DEF IInv, TypeOK, Progress
  <2>3. has_errors
    BY <2>1, <2>2, CleanModules DEF IInv
  <2>4. QED
    BY <2>1, <2>3 DEF Written
<1>4. CASE OpenFails(p) \/ RemoveFails(p)
  BY <1>4 DEF OpenFails, RemoveFails, Throw, Written
<1>5. QED
  BY <1>1, <1>2, <1>3, <1>4 DEF Reconcile

LEMMA NextKeepsWritten ==
  ASSUME WritesAreWhole, OwnTargets \/ OneAfterTheOther, IInv, Written, [Next]_vars
  PROVE  Written'
<1>1. exit # "none" => phase = "exited"
  BY DEF IInv, EndedWell
<1>2. CASE Edit
  <2>1. CASE \E p \in Paths : EditSource(p) \/ DeleteSource(p)
    <3>1. UNCHANGED <<disk, phase, emit_cpp, pending, modules, has_errors, exit>>
      BY <2>1 DEF EditSource, DeleteSource, userUnchanged
    <3>2. QED
      BY <3>1 DEF Written, EmittedFrom, First
  <2>2. CASE \E o \in Targets : TouchTarget(o)
    <3>1. phase' = "idle" /\ exit' = "none"
      BY <1>1, <2>2 DEF TouchTarget, userUnchanged
    <3>2. QED
      BY <3>1 DEF Written
  <2>3. QED
    BY <1>2, <2>1, <2>2 DEF Edit
<1>3. CASE \/ StartFile \/ StartDirectory
           \/ \E p \in Paths : CompileOne(p) \/ ReadFails(p)
  <2>1. phase' # "reconcile" /\ phase' # "opened" /\ exit' # "ok"
    BY <1>1, <1>3 DEF StartFile, StartDirectory, Start, CompileOne, ReadFails, Throw
  <2>2. QED
    BY <2>1 DEF Written
<1>4. CASE \E p \in Paths : Reconcile(p)
  BY <1>4, ReconcileKeepsWritten
<1>5. CASE PrintResult
  <2>1. CASE emit_cpp
    <3>1. phase' = "reconcile" /\ pending' = DOMAIN modules'
      BY <1>5, <2>1 DEF PrintResult
    <3>2. QED
      BY <3>1 DEF Written
  <2>2. CASE ~emit_cpp
    <3>1. phase' = "exited" /\ emit_cpp' = emit_cpp
      BY <1>5, <2>2 DEF PrintResult, Finish
    <3>2. QED
      BY <2>2, <3>1 DEF Written
  <2>3. QED
    BY <2>1, <2>2
<1>6. CASE Return
  <2>1. phase = "reconcile" /\ phase' = "exited" /\ UNCHANGED <<disk, pending, modules, has_errors>>
    BY <1>6 DEF Return, Finish
  <2>2. SUFFICES ASSUME ~has_errors, NEW p \in DOMAIN modules \ pending
                 PROVE  \E q \in DOMAIN modules : EmittedFrom(q, target[p])'
    BY <2>1 DEF Written
  <2>3. PICK q \in DOMAIN modules : EmittedFrom(q, target[p])
    BY <2>1, <2>2 DEF Written
  <2>4. QED
    BY <2>1, <2>3 DEF EmittedFrom
<1>7. CASE Reap \/ Kill
  BY <1>7 DEF Reap, Kill, Written
<1>8. CASE UNCHANGED vars
  BY <1>8 DEF vars, Written, EmittedFrom, First
<1>9. QED
  BY <1>2, <1>3, <1>4, <1>5, <1>6, <1>7, <1>8 DEF Next, Step

LEMMA WrittenAlways ==
  ASSUME WritesAreWhole, OwnTargets \/ OneAfterTheOther
  PROVE  Spec => []Written
<1>1. Init => Written
  BY DEF Init, Written
<1>2. IInv /\ Written /\ [Next]_vars => Written'
  BY NextKeepsWritten
<1>3. QED
  BY <1>1, <1>2, Invariance, PTL DEF Spec

\* Where each path has a target of its own and no write is short, --emit-cpp exits with 0
\* only when the target of every input holds the whole C++ of the text that was read
\* (write_emitted_sources).
THEOREM TargetsHoldWhatWasRead ==
  ASSUME WritesAreWhole, OwnTargets
  PROVE  Spec => []TargetsMatchInputs
<1>1. IInv /\ Written => TargetsMatchInputs
  <2>1. SUFFICES ASSUME IInv, Written, exit = "ok", emit_cpp, NEW p \in inputs
                 PROVE  disk[target[p]] = Artifact(p, modules[p].text, TRUE, TRUE)
    BY DEF TargetsMatchInputs
  <2>2. ~has_errors /\ DOMAIN modules = inputs /\ pending = {} /\ inputs \subseteq Paths /\ phase = "exited"
    BY <2>1 DEF IInv, EndedWell, TypeOK
  <2>3. PICK q \in DOMAIN modules : EmittedFrom(q, target[p])
    BY <2>1, <2>2 DEF Written
  <2>4. q = p
    BY <2>2, <2>3 DEF EmittedFrom, OwnTargets
  <2>5. QED
    BY <2>3, <2>4 DEF EmittedFrom
<1>2. QED
  BY <1>1, WrittenAlways, Invariance, PTL

\* Where paths share a target it holds, after a clean run, the whole C++ of one of them: no
\* target is left open, stale or removed.
THEOREM SharedTargetsHoldOneOfTheirs ==
  ASSUME WritesAreWhole, OneAfterTheOther
  PROVE  Spec => [](exit = "ok" /\ emit_cpp =>
                      \A p \in inputs : \E q \in inputs : EmittedFrom(q, target[p]))
<1>1. IInv /\ Written => (exit = "ok" /\ emit_cpp =>
                            \A p \in inputs : \E q \in inputs : EmittedFrom(q, target[p]))
  BY DEF IInv, EndedWell, Written
<1>2. QED
  BY <1>1, WrittenAlways, Invariance, PTL
=============================================================================
