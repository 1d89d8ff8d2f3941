------------------------------- MODULE EmitRun -------------------------------
(***************************************************************************)
(* Runs of the command line, and the files they leave behind.              *)
(*                                                                         *)
(* A run lists its inputs, compiles them in path order (CompilePipeline),  *)
(* and with --emit-cpp reconciles the target of each of them: it writes    *)
(* the emitted source, or removes the stale one an earlier run wrote       *)
(* (write_emitted_sources).  Runs follow each other; between their steps   *)
(* the user edits and deletes sources, and between runs the targets too.   *)
(* The file system may refuse a step, and the process may be killed.       *)
(*                                                                         *)
(* A source text is its version and the stages of the pipeline that find   *)
(* an error in it; what those stages do is left to other modules.          *)
(***************************************************************************)
EXTENDS Integers, FiniteSets

CONSTANTS
  Paths,      \* the source files a run may be given or find
  Targets,    \* the .cpp files their extensions are replaced to
  target,     \* path -> its target; a.py and a.PY share one
  rank,       \* path -> its place in the order of the listing and of the results
  FaultSets,  \* the sets of stages that may find an error in a text
  MaxEdits,   \* how often one source is edited (bound)
  Failures,   \* what may fail: "read", "open", "short", "remove", "kill"
  Missing,    \* no file
  Foreign     \* a file at a target path that does not begin with kGeneratedMarker

Stages == {"layout", "parse", "semantic", "codegen"}

Texts == [version : 0..MaxEdits, faults : FaultSets]

\* A file some run opened for writing.  `marked`: its first line is kGeneratedMarker;
\* `whole`: everything was written.
Artifacts == [path : Paths, text : Texts, marked : BOOLEAN, whole : BOOLEAN]
Artifact(p, t, marked, whole) == [path |-> p, text |-> t, marked |-> marked, whole |-> whole]

Modules == [text : Texts, errors : SUBSET Stages, cpp : BOOLEAN]

ASSUME EmitRunAssumption ==
  /\ target \in [Paths -> Targets]
  /\ rank \in [Paths -> Nat]
  /\ FaultSets \subseteq SUBSET Stages
  /\ {} \in FaultSets
  /\ MaxEdits \in Nat
  /\ Failures \subseteq {"read", "open", "short", "remove", "kill"}
  /\ Missing \notin Texts \union Artifacts
  /\ Foreign \notin Artifacts \union {Missing}

VARIABLES
  sources,     \* path -> its text, or Missing
  disk,        \* target -> Missing, Foreign or an artifact
  phase,       \* where the process is
  emit_cpp,    \* the --emit-cpp flag of the run
  inputs,      \* the paths the run was given or listed
  pending,     \* those it has yet to compile or, later, to reconcile
  modules,     \* CompileResult::modules
  has_errors,  \* CompileResult::has_errors
  exit         \* how the run ended

vars == <<sources, disk, phase, emit_cpp, inputs, pending, modules, has_errors, exit>>

Phases == {"idle", "compile", "reconcile", "opened", "exited"}

-----------------------------------------------------------------------------
(* One module through the pipeline (compile_one).                          *)

\* The parser runs after an indentation error too.
front_end_errors(t) == t.faults \intersect {"layout", "parse"}

\* The parser drops a failed statement, and its bindings with it: the checker, were
\* it run, would report every later use of them.
checker_errors(t) == IF "parse" \in t.faults THEN {"semantic"}
                     ELSE t.faults \intersect {"semantic"}

errors_before_codegen(t) == IF front_end_errors(t) = {} THEN checker_errors(t)
                            ELSE front_end_errors(t)

\* Mutant: the emitter is given a sink of its own, and its gate looks at that one.
compiled_fresh_sink(t, emit) ==
  LET refused == t.faults \intersect {"codegen"}
  IN [text |-> t, errors |-> IF emit THEN refused ELSE errors_before_codegen(t),
      cpp |-> emit /\ refused = {}]

\* CompiledModule: the errors the sink holds at the end, and whether there is a cpp.
compiled(t, emit) ==
  LET sink == errors_before_codegen(t)
      refused == t.faults \intersect {"codegen"}
  IN IF emit /\ sink = {}
     THEN [text |-> t, errors |-> refused, cpp |-> refused = {}]
     ELSE [text |-> t, errors |-> sink, cpp |-> FALSE]

-----------------------------------------------------------------------------
(* The user.                                                               *)

userUnchanged == UNCHANGED <<phase, emit_cpp, inputs, pending, modules, has_errors, exit>>

EditSource(p) ==
  /\ sources[p] # Missing
  /\ sources[p].version < MaxEdits
  /\ \E f \in FaultSets :
       sources' = [sources EXCEPT ![p] = [version |-> @.version + 1, faults |-> f]]
  /\ UNCHANGED disk
  /\ userUnchanged

DeleteSource(p) ==
  /\ sources[p] # Missing
  /\ sources' = [sources EXCEPT ![p] = Missing]
  /\ UNCHANGED disk
  /\ userUnchanged

\* The user writes a file of their own at a target path, or deletes what is there.
TouchTarget(o) ==
  /\ phase = "idle"
  /\ \E file \in {Missing, Foreign} : disk' = [disk EXCEPT ![o] = file]
  /\ UNCHANGED sources
  /\ userUnchanged

-----------------------------------------------------------------------------
(* The run.                                                                *)

First(S) == {p \in S : \A q \in S : rank[p] <= rank[q]}

\* CliAdapter::run up to the call of the pipeline.
Start(paths, emit) ==
  /\ phase = "idle"
  /\ phase' = "compile"
  /\ emit_cpp' = emit
  /\ inputs' = paths
  /\ pending' = paths
  /\ UNCHANGED <<sources, disk, modules, has_errors, exit>>

\* compile_file takes the path it is given, whether or not there is such a file;
\* compile_directory takes what the lister finds.
StartFile == \E p \in Paths, emit \in BOOLEAN : Start({p}, emit)
StartDirectory == \E emit \in BOOLEAN : Start({p \in Paths : sources[p] # Missing}, emit)

\* An exception reaches the handler of CliAdapter::run.
Throw == /\ phase' = "exited"
         /\ exit' = "error"
         /\ UNCHANGED <<sources, emit_cpp, inputs, pending, modules, has_errors>>

\* Mutant: the verdict of the last module, not of the run.
CompileOneLastVerdict(p) ==
  /\ phase = "compile"
  /\ p \in First(pending)
  /\ sources[p] # Missing
  /\ LET module == compiled(sources[p], emit_cpp)
     IN /\ modules' = [q \in DOMAIN modules \union {p} |-> IF q = p THEN module ELSE modules[q]]
        /\ has_errors' = (module.errors # {})
  /\ pending' = pending \ {p}
  /\ UNCHANGED <<sources, disk, phase, emit_cpp, inputs, exit>>

CompileOne(p) ==
  /\ phase = "compile"
  /\ p \in First(pending)
  /\ sources[p] # Missing
  /\ LET module == compiled(sources[p], emit_cpp)
     IN /\ modules' = [q \in DOMAIN modules \union {p} |-> IF q = p THEN module ELSE modules[q]]
        /\ has_errors' = (has_errors \/ module.errors # {})
  /\ pending' = pending \ {p}
  /\ UNCHANGED <<sources, disk, phase, emit_cpp, inputs, exit>>

ReadFails(p) ==
  /\ phase = "compile"
  /\ p \in First(pending)
  /\ sources[p] = Missing \/ "read" \in Failures
  /\ Throw
  /\ UNCHANGED disk

Finish == /\ phase' = "exited"
          /\ exit' = IF has_errors THEN "error" ELSE "ok"
          /\ UNCHANGED <<sources, disk, emit_cpp, inputs, pending, modules, has_errors>>

\* Every module is compiled: the dump is printed, the targets are next.
PrintResult ==
  /\ phase = "compile"
  /\ pending = {}
  /\ IF emit_cpp
     THEN /\ phase' = "reconcile"
          /\ pending' = DOMAIN modules
          /\ UNCHANGED <<sources, disk, emit_cpp, inputs, modules, has_errors, exit>>
     ELSE Finish

writeUnchanged == UNCHANGED <<sources, emit_cpp, inputs, modules, has_errors, exit>>

\* Mutant: a target some run wrote is taken to be up to date.
KeepTargetIfThere(p) ==
  /\ phase = "reconcile"
  /\ p \in First(pending)
  /\ modules[p].cpp
  /\ has_errors \/ disk[target[p]] \in Artifacts
  /\ pending' = pending \ {p}
  /\ UNCHANGED <<disk, phase>>
  /\ writeUnchanged

\* A module that emitted in a run with errors elsewhere: its target stays as it is.
KeepTarget(p) ==
  /\ phase = "reconcile"
  /\ p \in First(pending)
  /\ modules[p].cpp
  /\ has_errors
  /\ pending' = pending \ {p}
  /\ UNCHANGED <<disk, phase>>
  /\ writeUnchanged

\* Mutant: a module that emitted is written whatever happened to the others.
OpenTargetPerModule(p) ==
  /\ phase = "reconcile"
  /\ p \in First(pending)
  /\ modules[p].cpp
  /\ disk' = [disk EXCEPT ![target[p]] = Artifact(p, modules[p].text, FALSE, FALSE)]
  /\ phase' = "opened"
  /\ UNCHANGED pending
  /\ writeUnchanged

\* FilesystemOutputWriter::write: opening the stream truncates the file.
OpenTarget(p) ==
  /\ phase = "reconcile"
  /\ p \in First(pending)
  /\ modules[p].cpp
  /\ ~has_errors
  /\ disk' = [disk EXCEPT ![target[p]] = Artifact(p, modules[p].text, FALSE, FALSE)]
  /\ phase' = "opened"
  /\ UNCHANGED pending
  /\ writeUnchanged

OpenFails(p) ==
  /\ phase = "reconcile"
  /\ p \in First(pending)
  /\ modules[p].cpp
  /\ ~has_errors
  /\ "open" \in Failures
  /\ Throw
  /\ UNCHANGED disk

\* The stream's state is not looked at after the write: a short one goes unnoticed.
WriteTarget(p) ==
  /\ phase = "opened"
  /\ p \in First(pending)
  /\ \E marked, whole \in BOOLEAN :
       /\ ~whole => "short" \in Failures
       /\ whole => marked
       /\ disk' = [disk EXCEPT ![target[p]] = Artifact(p, modules[p].text, marked, whole)]
  /\ phase' = "reconcile"
  /\ pending' = pending \ {p}
  /\ writeUnchanged

looks_cythonpp_generated(o) == disk[o] \in Artifacts /\ disk[o].marked

\* Mutant: a module that failed is passed over.
LeaveAnyTarget(p) ==
  /\ phase = "reconcile"
  /\ p \in First(pending)
  /\ ~modules[p].cpp
  /\ pending' = pending \ {p}
  /\ UNCHANGED <<disk, phase>>
  /\ writeUnchanged

\* remove_stale_target_if_ours
LeaveTarget(p) ==
  /\ phase = "reconcile"
  /\ p \in First(pending)
  /\ ~modules[p].cpp
  /\ ~looks_cythonpp_generated(target[p])
  /\ pending' = pending \ {p}
  /\ UNCHANGED <<disk, phase>>
  /\ writeUnchanged

\* Mutant: whatever is at the path is taken for stale output.
RemoveWhateverIsThere(p) ==
  /\ phase = "reconcile"
  /\ p \in First(pending)
  /\ ~modules[p].cpp
  /\ disk' = [disk EXCEPT ![target[p]] = Missing]
  /\ pending' = pending \ {p}
  /\ UNCHANGED phase
  /\ writeUnchanged

RemoveStale(p) ==
  /\ phase = "reconcile"
  /\ p \in First(pending)
  /\ ~modules[p].cpp
  /\ looks_cythonpp_generated(target[p])
  /\ disk' = [disk EXCEPT ![target[p]] = Missing]
  /\ pending' = pending \ {p}
  /\ UNCHANGED phase
  /\ writeUnchanged

RemoveFails(p) ==
  /\ phase = "reconcile"
  /\ p \in First(pending)
  /\ ~modules[p].cpp
  /\ looks_cythonpp_generated(target[p])
  /\ "remove" \in Failures
  /\ Throw
  /\ UNCHANGED disk

Return == /\ phase = "reconcile"
          /\ pending = {}
          /\ Finish

\* The process is killed.  A write that was under way leaves a part of its text.
Kill ==
  /\ phase \notin {"idle", "exited"}
  /\ "kill" \in Failures
  /\ phase' = "exited"
  /\ exit' = "killed"
  /\ IF phase = "opened"
     THEN \E p \in First(pending), marked \in BOOLEAN :
            disk' = [disk EXCEPT ![target[p]] = Artifact(p, modules[p].text, marked, FALSE)]
     ELSE UNCHANGED disk
  /\ UNCHANGED <<sources, emit_cpp, inputs, pending, modules, has_errors>>

\* The shell has the exit status: the next run starts from nothing but the files.
Reap == /\ phase = "exited"
        /\ phase' = "idle"
        /\ emit_cpp' = FALSE
        /\ inputs' = {}
        /\ pending' = {}
        /\ modules' = <<>>
        /\ has_errors' = FALSE
        /\ exit' = "none"
        /\ UNCHANGED <<sources, disk>>

Init == /\ sources \in [Paths -> {t \in Texts : t.version = 0}]
        /\ disk \in [Targets -> {Missing, Foreign}]
        /\ phase = "idle"
        /\ emit_cpp = FALSE
        /\ inputs = {}
        /\ pending = {}
        /\ modules = <<>>
        /\ has_errors = FALSE
        /\ exit = "none"

Edit == \/ \E p \in Paths : EditSource(p) \/ DeleteSource(p)
        \/ \E o \in Targets : TouchTarget(o)

Reconcile(p) == \/ KeepTarget(p) \/ OpenTarget(p) \/ OpenFails(p) \/ WriteTarget(p)
                \/ LeaveTarget(p) \/ RemoveStale(p) \/ RemoveFails(p)

\* What the process does once it has been started.
Step == \/ \E p \in Paths : CompileOne(p) \/ ReadFails(p) \/ Reconcile(p)
        \/ PrintResult
        \/ Return
        \/ Reap

Next == Edit \/ StartFile \/ StartDirectory \/ Step \/ Kill

Spec == Init /\ [][Next]_vars

-----------------------------------------------------------------------------
(* Properties.                                                             *)

Threw == exit = "error" /\ pending # {}

TypeOK ==
  /\ sources \in [Paths -> Texts \union {Missing}]
  /\ disk \in [Targets -> Artifacts \union {Missing, Foreign}]
  /\ phase \in Phases
  /\ emit_cpp \in BOOLEAN
  /\ inputs \subseteq Paths
  /\ pending \subseteq inputs
  /\ DOMAIN modules \subseteq inputs
  /\ \A p \in DOMAIN modules : modules[p] \in Modules
  /\ has_errors \in BOOLEAN
  /\ exit \in {"none", "ok", "error", "killed"}

\* A file the compiler wrote was emitted for a source of that target, from a text in
\* which no stage found an error (compile_one, both gates): a text some stage refused
\* is never emitted, however runs, edits and kills follow each other.
ArtifactsComeFromAcceptedSources ==
  \A o \in Targets : disk[o] \in Artifacts =>
    /\ target[disk[o].path] = o
    /\ disk[o].text.faults = {}

\* New content is written only by a run that found nothing wrong with any of its
\* inputs (the gate of write_emitted_sources).
NewContentNeedsCleanRun ==
  phase = "opened" => /\ DOMAIN modules = inputs
                      /\ \A p \in inputs : modules[p].text.faults = {}

\* A file of the user's at a target path is never removed, and is changed only when
\* the whole run was clean (the marker test of looks_cythonpp_generated).
ForeignKept ==
  [][\A o \in Targets :
       phase # "idle" /\ disk[o] = Foreign /\ disk'[o] # Foreign =>
         /\ disk'[o] \in Artifacts
         /\ \A p \in inputs : modules[p].text.faults = {}]_vars

\* The exit status tells: 0 only if every input was read and no stage that ran for it
\* had anything to say.
HonestExit ==
  exit = "ok" => /\ DOMAIN modules = inputs
                 /\ \A p \in inputs : modules[p].text.faults \subseteq
                                        IF emit_cpp THEN {} ELSE {"codegen"}

\* What is reported of a file is wrong with the file: no error that only follows from
\* a statement the parser dropped.
NoInventedErrors == \A p \in DOMAIN modules : modules[p].errors \subseteq modules[p].text.faults

\* After --emit-cpp has exited with 0, the target of every input holds the C++ of the
\* text that was read.
TargetsMatchInputs ==
  exit = "ok" /\ emit_cpp =>
    \A p \in inputs : disk[target[p]] = Artifact(p, modules[p].text, TRUE, TRUE)

\* A run that came to its end leaves no generated file for a module that failed.
NoStaleTarget ==
  exit \in {"ok", "error"} /\ ~Threw /\ emit_cpp =>
    \A p \in DOMAIN modules : ~modules[p].cpp => ~looks_cythonpp_generated(target[p])

\* What holds between any two steps, from which the safety properties follow.
Idle == phase = "idle" => /\ inputs = {}
                          /\ modules = <<>>
                          /\ ~has_errors
                          /\ exit = "none"

\* The result of each module is that of the pipeline, and the verdict that of all.
Results ==
  /\ \A p \in DOMAIN modules : modules[p] = compiled(modules[p].text, emit_cpp)
  /\ has_errors \/ \A p \in DOMAIN modules : modules[p].errors = {}

\* Inputs are compiled once each, and reconciled only when all of them are compiled.
Progress ==
  /\ phase = "compile" => pending = inputs \ DOMAIN modules
  /\ phase \in {"reconcile", "opened"} => emit_cpp /\ DOMAIN modules = inputs
  /\ phase = "opened" => ~has_errors

EndedWell ==
  /\ exit # "none" => phase = "exited"
  /\ exit = "ok" => ~has_errors /\ DOMAIN modules = inputs /\ pending = {}

\* Targets this run is done with are as they should be.
Reconciled ==
  phase \in {"reconcile", "opened"} \/ (exit \in {"ok", "error"} /\ ~Threw /\ emit_cpp) =>
    \A p \in DOMAIN modules \ pending :
      ~modules[p].cpp => ~looks_cythonpp_generated(target[p])

IInv == /\ TypeOK
        /\ Idle
        /\ Results
        /\ Progress
        /\ EndedWell
        /\ Reconciled
        /\ ArtifactsComeFromAcceptedSources

=============================================================================
