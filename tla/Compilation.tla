---------------------------- MODULE Compilation ----------------------------
(***************************************************************************)
(* The compile task: the cache of compiled files (solidity-files-cache.ts),*)
(* the compilation jobs and their merging (compilation-job.ts), the        *)
(* artifacts on disk (artifacts.ts) and the order in which compile.ts      *)
(* reads and writes them.                                                  *)
(*                                                                         *)
(* A run reads the cache file and the sources, plans its jobs, lets the    *)
(* jobs finish in any order, and only then writes the cache file and       *)
(* removes the artifacts that nobody owns.  Users edit sources at any      *)
(* time, a job may fail, and the process may die between two writes.       *)
(* A content stands for its hash; what the compiler produces for a file is *)
(* identified by the solc config and the contents of the file and of its   *)
(* transitive dependencies.                                                *)
(***************************************************************************)
EXTENDS Naturals

CONSTANTS
  Absent,         \* what is not there
  Files,          \* the absolute paths
  SourceFiles,    \* those under paths.sources; the others are libraries
  Contents,       \* what a file may hold
  Projects,       \* the sources that a project may start with
  Names,          \* the contract names
  Configs,        \* the solc configs
  Bug9573,        \* the configs with the bug of the optimizer of solc < 0.8.0
  MaxEvents,      \* bound on what users and failures do
  Settings,       \* the config files: each gives every file a solc config
  Overridden(_),  \* Overridden(s): the files that s gives one in its overrides
  ImportsOf(_, _),   \* ImportsOf(f, c): the files that f imports when it holds c
  ContractsOf(_, _)  \* ContractsOf(f, c): the contracts that f then defines

ASSUME FilesAssumption == SourceFiles \subseteq Files
ASSUME ContentsAssumption ==
  /\ Absent \notin Contents
  /\ \A f \in Files, c \in Contents :
       ImportsOf(f, c) \subseteq Files /\ ContractsOf(f, c) \subseteq Names
ASSUME ProjectsAssumption == Projects \subseteq [Files -> Contents \cup {Absent}]
ASSUME EventsAssumption == MaxEvents \in Nat
ASSUME SettingsAssumption ==
  /\ Settings \subseteq [Files -> Configs] /\ Settings # {}
  /\ \A s \in Settings : Overridden(s) \subseteq Files

VARIABLES
  source,      \* on disk: what each file holds, or Absent
  setting,     \* on disk: the config file
  cacheFile,   \* on disk: solidity-files-cache.json
  artifact,    \* on disk: artifact[<<f, n>>] is the artifact of contract n of file f
  debugFile,   \* on disk: the build info that its debug file names
  buildInfos,  \* on disk: the build infos
  valid,       \* _validArtifacts: the process keeps it from run to run
  run,         \* the compile task that is running
  tainted,     \* not in the code: files whose entry is out of step with their artifacts
  settled,     \* not in the code: nobody touched the disk since the last run began
  events       \* not in the code: how often users and failures acted

disk == <<source, setting, cacheFile, artifact, debugFile, buildInfos>>
compileVars == <<disk, valid, run, tainted, settled, events>>

Fqns == Files \X Names
Maybe(S) == S \cup {Absent}

(* The content of the files that a compilation reads. *)
Inputs == UNION {[D -> Contents] : D \in SUBSET Files}
Output == [config : Configs, input : Inputs]

CacheEntry == [contentHash : Contents, solcConfig : Configs, artifacts : SUBSET Names]
Job == [solcConfig : Configs, files : SUBSET Files, emits : SUBSET Files]

(* No output and no entry of the cache is the value for what is not there. *)
ASSUME AbsentAssumption == Absent \notin Output /\ Absent \notin CacheEntry

Idle == [phase |-> "idle"]

(* phase "jobs": the jobs are being compiled; "obsolete": the cache file   *)
(* was written, the artifacts that nobody owns are about to be removed.    *)
CompileRun ==
  [phase : {"jobs", "obsolete"}, force : BOOLEAN, read : Inputs,
   cache : [Files -> Maybe(CacheEntry)], jobs : SUBSET Job, emitted : SUBSET Job,
   failed : BOOLEAN]

CompileTypeOK ==
  /\ source \in [Files -> Maybe(Contents)]
  /\ setting \in Settings
  /\ cacheFile \in [Files -> Maybe(CacheEntry)]
  /\ artifact \in [Fqns -> Maybe(Output)]
  /\ debugFile \in [Fqns -> Maybe(Output)]
  /\ buildInfos \subseteq Output
  /\ valid \subseteq Fqns
  /\ run \in {Idle} \cup CompileRun
  /\ tainted \subseteq Files
  /\ settled \in BOOLEAN
  /\ events \in Nat

-----------------------------------------------------------------------------
(* The dependency graph. *)

(* What can be reached from the files F along the edges next: the least    *)
(* set of files that holds F and what its members lead to.                 *)
Closed(next, R) == \A f \in R : next[f] \subseteq R

Reachable(next, F) ==
  {f \in Files : \A R \in SUBSET Files : F \subseteq R /\ Closed(next, R) => f \in R}

Dependencies(src) ==
  [f \in Files |-> IF src[f] = Absent THEN {} ELSE ImportsOf(f, src[f])]

(* Everything in the graph: the files of the project and what they import. *)
ResolvedFiles(src) ==
  Reachable(Dependencies(src), {f \in SourceFiles : src[f] # Absent})

(* A file and its transitive dependencies. *)
WithDependencies(src, f) == Reachable(Dependencies(src), {f})

ConnectedComponent(src, f) ==
  LET deps == Dependencies(src)
      G == ResolvedFiles(src)
      undirected == [g \in Files |-> {h \in G : h \in deps[g] \/ g \in deps[h]}]
  IN  Reachable(undirected, {f})

(* What the artifacts of f are when it is compiled from src with config c. *)
OutputOf(src, f, c) ==
  [config |-> c, input |-> [g \in WithDependencies(src, f) |-> src[g]]]

-----------------------------------------------------------------------------
(* The cache. *)

(* readFromFile: the entries of files that do not exist are dropped. *)
ReadFromFile(src) ==
  [f \in Files |-> IF src[f] = Absent THEN Absent ELSE cacheFile[f]]

(* Files of the graph with an artifact missing on disk leave the cache. *)
InvalidateCacheMissingArtifacts(cache, G) ==
  [f \in Files |->
     IF /\ f \in G /\ cache[f] # Absent
        /\ \E n \in cache[f].artifacts : artifact[<<f, n>>] = Absent
     THEN Absent ELSE cache[f]]

HasFileChanged(cache, f, contentHash) ==
  \/ cache[f] = Absent
  \/ cache[f].contentHash # contentHash

(* Mutant: only the files that emit artifacts are compared. *)
NeedsCompilationEmitted(job, cache, src) ==
  \E f \in job.emits :
    HasFileChanged(cache, f, src[f]) \/ cache[f].solcConfig # job.solcConfig

(* Mutant: the solc config is compared for the dependencies too. *)
NeedsCompilationAnyConfig(job, cache, src) ==
  \E f \in job.files :
    HasFileChanged(cache, f, src[f]) \/ cache[f].solcConfig # job.solcConfig

(* The solc config is compared for the files that emit artifacts only. *)
NeedsCompilation(job, cache, src) ==
  \E f \in job.files :
    \/ HasFileChanged(cache, f, src[f])
    \/ f \in job.emits /\ cache[f].solcConfig # job.solcConfig

-----------------------------------------------------------------------------
(* The jobs. *)

CreateCompilationJobFromFile(src, f) ==
  [solcConfig |-> setting[f], files |-> WithDependencies(src, f), emits |-> {f}]

(* One job out of several with the same config. *)
MergeJobs(jobs) ==
  [solcConfig |-> (CHOOSE j \in jobs : TRUE).solcConfig,
   files |-> UNION {j.files : j \in jobs}, emits |-> UNION {j.emits : j \in jobs}]

(* Jobs are merged when they have the same config object, not an equal one: *)
(* files share an entry of `compilers`, and each override is its own.      *)
SameCompiler(j, k) ==
  \/ j = k
  \/ /\ j.solcConfig = k.solcConfig
     /\ (j.emits \cup k.emits) \cap Overridden(setting) = {}

(* Those affected by the bug are merged in each connected component ... *)
CreateJobs(src) ==
  LET JobOf(f) == CreateCompilationJobFromFile(src, f)
      Buggy(f) == {g \in ConnectedComponent(src, f) : SameCompiler(JobOf(f), JobOf(g))}
  IN  {IF setting[f] \in Bug9573 THEN MergeJobs({JobOf(g) : g \in Buggy(f)})
       ELSE JobOf(f) : f \in ResolvedFiles(src)}

(* ... and the others across all of them, after the filter. *)
MergeCompilationJobsWithoutBug(jobs) ==
  {j \in jobs : j.solcConfig \in Bug9573} \cup
  {MergeJobs({k \in jobs : SameCompiler(j, k)}) :
     j \in {k \in jobs : k.solcConfig \notin Bug9573}}

NeededJobs(src, cache) == {j \in CreateJobs(src) : NeedsCompilation(j, cache, src)}

(* The cache that a run starting now works with. *)
StartingCache ==
  InvalidateCacheMissingArtifacts(ReadFromFile(source), ResolvedFiles(source))

-----------------------------------------------------------------------------
(* The task. *)

(* The graph cannot be built when an imported file is missing. *)
GraphResolves == \A f \in ResolvedFiles(source) : source[f] # Absent

BeginCompile(force) ==
  /\ run = Idle
  /\ GraphResolves
  /\ LET G == ResolvedFiles(source)
         jobs == IF force THEN CreateJobs(source) ELSE NeededJobs(source, StartingCache)
     IN  run' = [phase |-> "jobs", force |-> force, read |-> [f \in G |-> source[f]],
                 cache |-> StartingCache, jobs |-> MergeCompilationJobsWithoutBug(jobs),
                 emitted |-> {}, failed |-> FALSE]
  /\ settled' = TRUE
  /\ UNCHANGED <<disk, valid, tainted>>

(* An import cannot be resolved: the task throws before it does anything. *)
ThrowFileNotFound ==
  /\ run = Idle
  /\ ~GraphResolves
  /\ UNCHANGED <<disk, valid, run, tainted, settled>>

(* run.read as a function on all files *)
Read == [f \in Files |-> IF f \in DOMAIN run.read THEN run.read[f] ELSE Absent]

BuildInfo(j) == [config |-> j.solcConfig, input |-> [f \in j.files |-> run.read[f]]]

Emitted(jobs) == UNION {j.emits : j \in jobs}

(* The job that emits f *)
EmittedBy(jobs, f) == CHOOSE j \in jobs : f \in j.emits

(* The artifacts of the jobs *)
JobFqns(jobs) ==
  {p \in Fqns : p[1] \in Emitted(jobs) /\ p[2] \in ContractsOf(p[1], run.read[p[1]])}

(* Writes the artifacts A and the debug files D of the jobs. *)
SaveArtifactAndDebugFile(jobs, A, D) ==
  /\ artifact' = [p \in Fqns |->
       IF p \in A THEN OutputOf(Read, p[1], EmittedBy(jobs, p[1]).solcConfig) ELSE artifact[p]]
  /\ debugFile' = [p \in Fqns |->
       IF p \in D THEN BuildInfo(EmittedBy(jobs, p[1])) ELSE debugFile[p]]

SaveBuildInfo(jobs) == buildInfos' = buildInfos \cup {BuildInfo(j) : j \in jobs}

CompileJob(j) ==
  /\ run.phase = "jobs" /\ j \in run.jobs
  /\ SaveBuildInfo({j})
  /\ SaveArtifactAndDebugFile({j}, JobFqns({j}), JobFqns({j}))
  /\ run' = [run EXCEPT !.jobs = @ \ {j}, !.emitted = @ \cup {j}]
  /\ UNCHANGED <<source, setting, cacheFile, valid, tainted, settled>>

(* solc reports an error, or cannot be had: the other jobs go on. *)
FailJob(j) ==
  /\ run.phase = "jobs" /\ j \in run.jobs
  /\ run' = [run EXCEPT !.jobs = @ \ {j}, !.failed = TRUE]
  /\ UNCHANGED <<disk, valid, tainted, settled>>

(* The task throws: no entry is added and the cache file is not written. *)
ThrowCompileFailure ==
  /\ run.phase = "jobs" /\ run.jobs = {} /\ run.failed
  /\ run' = Idle
  /\ tainted' = tainted \cup Emitted(run.emitted)
  /\ settled' = FALSE
  /\ UNCHANGED <<disk, valid>>

(* The cache with the entries of the emitted files. *)
AddFiles ==
  [f \in Files |->
     IF f \in Emitted(run.emitted)
     THEN [contentHash |-> run.read[f],
           solcConfig |-> EmittedBy(run.emitted, f).solcConfig,
           artifacts |-> ContractsOf(f, run.read[f])]
     ELSE run.cache[f]]

FqnsOf(cache) == {p \in Fqns : cache[p[1]] # Absent /\ p[2] \in cache[p[1]].artifacts}

(* The files outside the graph whose artifacts were made with files that   *)
(* this run compiled again: their entries stay, and say nothing of that.   *)
LeftBehind ==
  {f \in Files \ DOMAIN run.read : \E n \in Names :
     artifact[<<f, n>>] # Absent /\ DOMAIN artifact[<<f, n>>].input \cap Emitted(run.emitted) # {}}

WriteCache ==
  /\ run.phase = "jobs" /\ run.jobs = {} /\ ~run.failed
  /\ valid' = valid \cup FqnsOf(AddFiles)
  /\ cacheFile' = AddFiles
  /\ run' = [run EXCEPT !.phase = "obsolete", !.cache = AddFiles]
  /\ tainted' = (tainted \ Emitted(run.emitted)) \cup LeftBehind
  /\ UNCHANGED <<source, setting, artifact, debugFile, buildInfos, settled>>

OnDisk == {p \in Fqns : artifact[p] # Absent}

(* removeObsoleteArtifacts throws when a valid artifact is missing. *)
ThrowArtifactNotFound ==
  /\ run.phase = "obsolete"
  /\ ~(valid \subseteq OnDisk)
  /\ run' = Idle
  /\ settled' = FALSE
  /\ UNCHANGED <<disk, valid, tainted>>

(* Removes the artifacts A and the debug files D. *)
RemoveArtifactFiles(A, D) ==
  /\ artifact' = [p \in Fqns |-> IF p \in A THEN Absent ELSE artifact[p]]
  /\ debugFile' = [p \in Fqns |-> IF p \in D THEN Absent ELSE debugFile[p]]

(* Mutant: keeps the build infos of this run. *)
UsedBuildInfosOfRun(debug) == {BuildInfo(j) : j \in run.emitted}

(* The build infos that some debug file names. *)
UsedBuildInfos(debug) == buildInfos \cap {debug[p] : p \in Fqns}

(* The build infos that no debug file names are removed last. *)
RemoveObsoleteArtifacts ==
  /\ run.phase = "obsolete"
  /\ valid \subseteq OnDisk
  /\ RemoveArtifactFiles(OnDisk \ valid, OnDisk \ valid)
  /\ buildInfos' = UsedBuildInfos(debugFile')
  /\ run' = Idle
  /\ UNCHANGED <<source, setting, cacheFile, valid, tainted, settled>>

-----------------------------------------------------------------------------
(* The process dies.  The writes of one file are atomic here, but any of   *)
(* those that the code starts together may have happened.                  *)

Dead == run' = Idle /\ valid' = {} /\ settled' = FALSE

(* Jobs run at the same time: those of J have saved their build info and   *)
(* any of their artifacts and debug files.                                 *)
CrashInJobs(J) ==
  /\ run.phase = "jobs"
  /\ SaveBuildInfo(J)
  /\ \E A, D \in SUBSET JobFqns(J) : SaveArtifactAndDebugFile(J, A, D)
  /\ Dead
  /\ tainted' = tainted \cup Emitted(run.emitted \cup J)
  /\ UNCHANGED <<source, setting, cacheFile>>

(* Some of the files that nobody owns have been removed ... *)
CrashInRemoval ==
  /\ run.phase = "obsolete" /\ valid \subseteq OnDisk
  /\ \E A \in SUBSET (OnDisk \ valid) : \E D \in SUBSET A : RemoveArtifactFiles(A, D)
  /\ Dead
  /\ UNCHANGED <<source, setting, cacheFile, buildInfos, tainted>>

(* ... or all of them, and some of the build infos. *)
CrashInBuildInfoRemoval ==
  /\ run.phase = "obsolete" /\ valid \subseteq OnDisk
  /\ RemoveArtifactFiles(OnDisk \ valid, OnDisk \ valid)
  /\ \E B \in SUBSET buildInfos : buildInfos' = B \cup UsedBuildInfos(debugFile')
  /\ Dead
  /\ UNCHANGED <<source, setting, cacheFile, tainted>>

-----------------------------------------------------------------------------
(* The users. *)

Edit(f, c) ==
  /\ source[f] # c
  /\ source' = [source EXCEPT ![f] = c]
  /\ settled' = FALSE
  /\ UNCHANGED <<setting, cacheFile, artifact, debugFile, buildInfos, valid, run, tainted>>

(* The config is loaded when the process starts. *)
NewProcess(s) ==
  /\ run = Idle
  /\ setting' = s
  /\ valid' = {}
  /\ settled' = (settled /\ s = setting)
  /\ UNCHANGED <<source, cacheFile, artifact, debugFile, buildInfos, run, tainted>>

DeleteArtifact(p) ==
  /\ run = Idle /\ p \in OnDisk
  /\ artifact' = [artifact EXCEPT ![p] = Absent]
  /\ settled' = FALSE
  /\ UNCHANGED <<source, setting, cacheFile, debugFile, buildInfos, valid, run, tainted>>

(* The task clean. *)
Clean ==
  /\ run = Idle
  /\ cacheFile' = [f \in Files |-> Absent]
  /\ artifact' = [p \in Fqns |-> Absent]
  /\ debugFile' = [p \in Fqns |-> Absent]
  /\ buildInfos' = {}
  /\ tainted' = {}
  /\ settled' = FALSE
  /\ UNCHANGED <<source, setting, valid, run>>

CompileInit ==
  /\ source \in Projects
  /\ setting \in Settings
  /\ cacheFile = [f \in Files |-> Absent]
  /\ artifact = [p \in Fqns |-> Absent]
  /\ debugFile = [p \in Fqns |-> Absent]
  /\ buildInfos = {}
  /\ valid = {}
  /\ run = Idle
  /\ tainted = {}
  /\ settled = FALSE
  /\ events = 0

TaskStep ==
  \/ \E j \in run.jobs : CompileJob(j) \/ FailJob(j)
  \/ ThrowCompileFailure
  \/ WriteCache
  \/ ThrowArtifactNotFound
  \/ RemoveObsoleteArtifacts

Failure ==
  \/ \E J \in SUBSET run.jobs : CrashInJobs(J)
  \/ CrashInRemoval
  \/ CrashInBuildInfoRemoval

User ==
  \/ \E f \in Files, c \in Maybe(Contents) : Edit(f, c)
  \/ \E s \in Settings : NewProcess(s)
  \/ \E p \in Fqns : DeleteArtifact(p)
  \/ Clean

CompileNext ==
  \/ ((\E force \in BOOLEAN : BeginCompile(force)) \/ ThrowFileNotFound) /\ UNCHANGED events
  \/ run # Idle /\ TaskStep /\ UNCHANGED events
  \/ events < MaxEvents /\ (User \/ (run # Idle /\ Failure)) /\ events' = events + 1

CompileSpec == CompileInit /\ [][CompileNext]_compileVars

-----------------------------------------------------------------------------

(* p's artifact and debug file are those of the content that was read. *)
Current(p) ==
  LET c == setting[p[1]]
  IN  /\ artifact[p] = OutputOf(Read, p[1], c)
      /\ debugFile[p] # Absent
      /\ debugFile[p].config = c
      /\ \A g \in WithDependencies(Read, p[1]) :
           g \in DOMAIN debugFile[p].input /\ debugFile[p].input[g] = run.read[g]

ReadFqns == {p \in Fqns : p[1] \in DOMAIN run.read /\ p[2] \in ContractsOf(p[1], run.read[p[1]])}

(* When a run has written the cache file, every artifact of the graph and  *)
(* its debug file are what the compiler makes of the sources it read,      *)
(* whatever it skipped because of the cache.  Two exceptions, until the    *)
(* file is compiled again or with --force: files whose artifacts were      *)
(* written by a run that failed or died before it wrote the cache file,    *)
(* and libraries that were not imported while a run compiled a dependency  *)
(* of theirs (LeftBehind).                                                 *)
ArtifactsCurrent ==
  run # Idle /\ run.phase = "obsolete" =>
    \A p \in ReadFqns : (p[1] \notin tainted \/ run.force) => Current(p)

(* A debug file always names a build info that is on disk, whatever        *)
(* crashes and removals happened: the build info is written before the     *)
(* debug files and removed after them.                                     *)
DebugFilesResolve ==
  \A p \in Fqns : debugFile[p] # Absent => debugFile[p] \in buildInfos

(* When nobody touched the disk since a run that completed began, the next *)
(* one has nothing to compile.                                             *)
NothingToCompile ==
  run = Idle /\ settled => NeededJobs(source, StartingCache) = {}

============================================================================
