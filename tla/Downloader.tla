----------------------------- MODULE Downloader -----------------------------
(***************************************************************************)
(* How compilation jobs that run at the same time get their compiler:      *)
(* TASK_COMPILE_SOLIDITY_GET_SOLC_BUILD of compile.ts and the class        *)
(* CompilerDownloader, one instance per platform, over the files of the    *)
(* compilers directory.  A job asks for the native compiler first and for  *)
(* the WASM one when the native one is known not to run.                   *)
(*                                                                         *)
(* Downloads hold the mutex of their platform; looking whether a compiler  *)
(* is there, and taking it, do not.  Module Semaphore is the mutex of the  *)
(* native downloader (Permits is 1), an instance of it the other one; the  *)
(* callers of both are the compilation jobs.                               *)
(***************************************************************************)
EXTENDS Semaphore

CONSTANTS
  Version,       \* Version[j] is the solc version of job j
  Published,     \* the versions that the server has from the start on
  Zipped,        \* versions whose build for Windows is a zip file
  Runnable,      \* versions whose native build runs on this machine
  MaxFaults      \* bound on failures of the network and the process

Jobs == Callers
Platforms == {"native", "wasm"}
Versions == {Version[j] : j \in Jobs}
Builds == Platforms \X Versions

ASSUME VersionAssumption == DOMAIN Version = Jobs
ASSUME FaultsAssumption == MaxFaults \in Nat

VARIABLES
  wasmCount, wasmTasks, wasmTicks, wasmHolders,   \* the mutex of the WASM downloader
  os,          \* os.platform(): "win32", or "linux" for the ones with file modes
  published,   \* the versions in the list of the server
  list,        \* list[p]: the list on disk
  file,        \* file[b]: what is at the download path of build b
  executable,  \* the builds whose file has mode 755
  extracted,   \* the zipped builds that were unpacked
  notWorking,  \* the builds with a .does.not.work file
  at,          \* at[j]: where job j is
  platform,    \* platform[j]: the downloader that job j uses
  faults,      \* not in the code: failures so far
  crashed      \* not in the code: a process died before it had verified a download

wasmVars == <<wasmCount, wasmTasks, wasmTicks, wasmHolders>>
mutexes == <<vars, wasmVars>>
files == <<list, file, executable, extracted, notWorking>>
outside == <<os, published>>
downloaderVars == <<mutexes, outside, files, at, platform, faults, crashed>>

WasmMutex == INSTANCE Semaphore
  WITH count <- wasmCount, tasks <- wasmTasks, ticks <- wasmTicks, holders <- wasmHolders

(* The list of compilers: young enough not to be downloaded again, and     *)
(* JSON, or not.                                                           *)
CompilerList == [fresh : BOOLEAN, readable : BOOLEAN, versions : SUBSET Versions]
NoList == [fresh |-> FALSE, readable |-> TRUE, versions |-> {}]
BrokenList == [fresh |-> TRUE, readable |-> FALSE, versions |-> {}]

(* A file is at the download path that is not yet verified, or not tried. *)
Unfinished == {"verify", "prepare", "check"}
Inside == {"lookup", "fetchList", "download"} \cup Unfinished
Places == {"new", "queued", "get", "using", "done", "failed"} \cup Inside

DownloaderTypeOK ==
  /\ os \in {"linux", "win32"}
  /\ published \subseteq Versions
  /\ list \in [Platforms -> CompilerList]
  /\ file \in [Builds -> {"none", "good", "corrupt"}]
  /\ executable \subseteq Builds
  /\ extracted \subseteq Builds
  /\ notWorking \subseteq Builds
  /\ TypeOK
  /\ WasmMutex!TypeOK
  /\ at \in [Jobs -> Places]
  /\ platform \in [Jobs -> Platforms]
  /\ faults \in Nat
  /\ crashed \in BOOLEAN

-----------------------------------------------------------------------------

Build(j) == <<platform[j], Version[j]>>

IsZipped(b) == os = "win32" /\ b[1] = "native" /\ b[2] \in Zipped

(* _getCompilerBuild: the list is there and has the version. *)
HasBuild(b) == b[2] \in list[b[1]].versions

(* A file is at _getCompilerBinaryPathFromBuild. *)
BinaryExists(b) == IF IsZipped(b) THEN b \in extracted ELSE file[b] # "none"

(* What is there is the compiler, unpacked from its zip file or as it was  *)
(* downloaded.                                                             *)
BinaryGood(b) == IF IsZipped(b) THEN b \in extracted ELSE file[b] = "good"

(* _checkNativeSolc: the binary can be run. *)
NativeSolcWorks(b) ==
  /\ b[2] \in Runnable
  /\ BinaryGood(b)
  /\ os = "linux" => b \in executable

Go(j, place) == at' = [at EXCEPT ![j] = place]

(* _mutex.use of the downloader of job j *)
Lock(j) ==
  IF platform[j] = "native" THEN Acquire(j) /\ UNCHANGED wasmVars
                            ELSE WasmMutex!Acquire(j) /\ UNCHANGED vars

Unlock(j) ==
  IF platform[j] = "native" THEN Release(j) /\ UNCHANGED wasmVars
                            ELSE WasmMutex!Release(j) /\ UNCHANGED vars

Has(j) == j \in IF platform[j] = "native" THEN holders ELSE wasmHolders

(* Inside the mutex, an error is thrown: use() releases and rethrows. *)
Throw(j) == Unlock(j) /\ Go(j, "failed")

-----------------------------------------------------------------------------

(* _readCompilerList does not throw. *)
Readable(j) == list[platform[j]].readable

(* isCompilerDownloaded, without the mutex *)
IsCompilerDownloaded(j) ==
  /\ at[j] = "new"
  /\ \/ ~Readable(j) /\ Go(j, "failed") /\ UNCHANGED mutexes
     \/ /\ Readable(j) /\ HasBuild(Build(j)) /\ BinaryExists(Build(j))
        /\ Go(j, "get")
        /\ UNCHANGED mutexes
     \/ /\ Readable(j) /\ ~(HasBuild(Build(j)) /\ BinaryExists(Build(j)))
        /\ Go(j, "queued") /\ Lock(j)
  /\ UNCHANGED <<outside, files, platform, faults, crashed>>

Enter(j) ==
  /\ at[j] = "queued" /\ Has(j)
  /\ Go(j, "lookup")
  /\ UNCHANGED <<outside, files, mutexes, platform, faults, crashed>>

(* The list is downloaded when it misses the version and is not fresh; one *)
(* that cannot be read throws before its age is looked at.                 *)
Lookup(j) ==
  /\ at[j] = "lookup"
  /\ \/ HasBuild(Build(j)) /\ Go(j, "download") /\ UNCHANGED mutexes
     \/ /\ Readable(j) /\ ~HasBuild(Build(j)) /\ ~list[platform[j]].fresh
        /\ Go(j, "fetchList")
        /\ UNCHANGED mutexes
     \/ /\ ~HasBuild(Build(j)) /\ (Readable(j) => list[platform[j]].fresh)
        /\ Throw(j)
  /\ UNCHANGED <<outside, files, platform, faults, crashed>>

DownloadCompilerList(j) ==
  /\ at[j] = "fetchList"
  /\ list' = [list EXCEPT ![platform[j]] =
                [fresh |-> TRUE, readable |-> TRUE, versions |-> published]]
  /\ IF Version[j] \in published THEN Go(j, "download") /\ UNCHANGED mutexes ELSE Throw(j)
  /\ UNCHANGED <<outside, file, executable, extracted, notWorking, platform, faults, crashed>>

(* The list has no checksum: what arrives instead of it stays, and throws. *)
DownloadBrokenList(j) ==
  /\ at[j] = "fetchList"
  /\ faults < MaxFaults /\ faults' = faults + 1
  /\ list' = [list EXCEPT ![platform[j]] = BrokenList]
  /\ Throw(j)
  /\ UNCHANGED <<outside, file, executable, extracted, notWorking, platform, crashed>>

(* The file is replaced, also when another job has put it there before. *)
DownloadCompiler(j) ==
  /\ at[j] = "download"
  /\ \/ file' = [file EXCEPT ![Build(j)] = "good"] /\ UNCHANGED faults
     \/ /\ faults < MaxFaults
        /\ file' = [file EXCEPT ![Build(j)] = "corrupt"]
        /\ faults' = faults + 1
  /\ executable' = executable \ {Build(j)}
  /\ Go(j, "verify")
  /\ UNCHANGED <<outside, list, extracted, notWorking, mutexes, platform, crashed>>

(* The server cannot be reached: nothing is written. *)
DownloadFails(j) ==
  /\ at[j] \in {"fetchList", "download"}
  /\ faults < MaxFaults
  /\ faults' = faults + 1
  /\ Throw(j)
  /\ UNCHANGED <<outside, files, platform, crashed>>

(* Mutant: the file stays although its checksum is wrong. *)
VerifyCompilerDownloadKeep(j) ==
  /\ at[j] = "verify"
  /\ IF file[Build(j)] = "good" THEN Go(j, "prepare") /\ UNCHANGED mutexes ELSE Throw(j)
  /\ UNCHANGED <<outside, files, platform, faults, crashed>>

(* Mutant: the wrong checksum leaves the mutex locked. *)
VerifyCompilerDownloadStuck(j) ==
  /\ at[j] = "verify"
  /\ IF file[Build(j)] = "good"
     THEN Go(j, "prepare") /\ UNCHANGED file
     ELSE Go(j, "failed") /\ file' = [file EXCEPT ![Build(j)] = "none"]
  /\ UNCHANGED <<outside, list, executable, extracted, notWorking, mutexes, platform, faults, crashed>>

(* A file with the wrong checksum is removed. *)
VerifyCompilerDownload(j) ==
  /\ at[j] = "verify"
  /\ IF file[Build(j)] = "good"
     THEN Go(j, "prepare") /\ UNCHANGED <<file, mutexes>>
     ELSE Throw(j) /\ file' = [file EXCEPT ![Build(j)] = "none"]
  /\ UNCHANGED <<outside, list, executable, extracted, notWorking, platform, faults, crashed>>

(* Mutant: the trial run comes before the binary is made executable. *)
PreparedLate(b) == IF IsZipped(b) THEN <<executable, extracted \cup {b}>> ELSE <<executable, extracted>>

(* chmod, or unzip: what is executable and what is unpacked afterwards. *)
Prepared(b) ==
  <<IF os = "linux" THEN executable \cup {b} ELSE executable,
    IF IsZipped(b) THEN extracted \cup {b} ELSE extracted>>

(* _postProcessCompilerDownload: chmod or unzip ... *)
PostProcessCompilerDownload(j) ==
  /\ at[j] = "prepare"
  /\ IF platform[j] = "wasm"
     THEN Go(j, "get") /\ Unlock(j) /\ UNCHANGED <<executable, extracted>>
     ELSE /\ executable' = Prepared(Build(j))[1]
          /\ extracted' = Prepared(Build(j))[2]
          /\ Go(j, "check")
          /\ UNCHANGED mutexes
  /\ UNCHANGED <<outside, list, file, notWorking, platform, faults, crashed>>

(* ... or an error while unzipping, before anything is unpacked ... *)
UnzipFails(j) ==
  /\ at[j] = "prepare" /\ IsZipped(Build(j))
  /\ faults < MaxFaults /\ faults' = faults + 1
  /\ Throw(j)
  /\ UNCHANGED <<outside, files, platform, crashed>>

(* ... and a trial run, whose failure is remembered on disk. *)
CheckNativeSolc(j) ==
  /\ at[j] = "check"
  /\ notWorking' = IF NativeSolcWorks(Build(j)) THEN notWorking
                   ELSE notWorking \cup {Build(j)}
  /\ Go(j, "get") /\ Unlock(j)
  /\ UNCHANGED <<outside, list, file, executable, extracted, platform, faults, crashed>>

(* getCompiler, without the mutex: an assertion fails when the compiler is *)
(* not there; the WASM downloader is next when the native one cannot run.  *)
GetCompiler(j) ==
  LET b == Build(j) IN
  /\ at[j] = "get"
  /\ \/ ~(HasBuild(b) /\ BinaryExists(b)) /\ Go(j, "failed") /\ UNCHANGED platform
     \/ /\ HasBuild(b) /\ BinaryExists(b) /\ b \notin notWorking
        /\ Go(j, "using")
        /\ UNCHANGED platform
     \/ /\ HasBuild(b) /\ BinaryExists(b) /\ b \in notWorking
        /\ platform' = [platform EXCEPT ![j] = "wasm"]
        /\ Go(j, "new")
  /\ UNCHANGED <<outside, files, mutexes, faults, crashed>>

(* The compiler is run: a file that is not a working compiler fails.  *)
RunCompiler(j) ==
  LET b == Build(j) IN
  /\ at[j] = "using"
  /\ Go(j, IF BinaryGood(b) /\ (b[1] = "wasm" \/ NativeSolcWorks(b))
           THEN "done" ELSE "failed")
  /\ UNCHANGED <<outside, files, mutexes, platform, faults, crashed>>

-----------------------------------------------------------------------------

AllNew ==
  /\ count' = 1 /\ tasks' = <<>> /\ ticks' = 0 /\ holders' = {}
  /\ wasmCount' = 1 /\ wasmTasks' = <<>> /\ wasmTicks' = 0 /\ wasmHolders' = {}
  /\ at' = [j \in Jobs |-> "new"]
  /\ platform' = [j \in Jobs |-> "native"]

(* The process dies and the user starts another one. *)
Crash ==
  /\ faults < MaxFaults /\ faults' = faults + 1
  /\ crashed' = (crashed \/ \E j \in Jobs : at[j] \in Unfinished)
  /\ AllNew
  /\ UNCHANGED <<outside, files>>

Ended == \A j \in Jobs : at[j] \in {"done", "failed"}

(* Everything was compiled or failed, and the user starts another run:     *)
(* with the files as they are, when the lists are no longer fresh, or      *)
(* after hardhat clean --global.                                           *)
NextRun ==
  /\ Ended
  /\ AllNew
  /\ \/ UNCHANGED <<files, crashed>>
     \/ /\ list' = [p \in Platforms |-> [list[p] EXCEPT !.fresh = FALSE]]
        /\ UNCHANGED <<file, executable, extracted, notWorking, crashed>>
     \/ /\ list' = [p \in Platforms |-> NoList]
        /\ file' = [b \in Builds |-> "none"]
        /\ executable' = {} /\ extracted' = {} /\ notWorking' = {}
        /\ crashed' = FALSE
  /\ UNCHANGED <<outside, faults>>

(* A new version of solc comes out. *)
Publish ==
  /\ published # Versions
  /\ published' = Versions
  /\ UNCHANGED <<mutexes, os, files, at, platform, faults, crashed>>

DownloaderInit ==
  /\ os \in {"linux", "win32"}
  /\ published = Published \cap Versions
  /\ list = [p \in Platforms |-> NoList]
  /\ file = [b \in Builds |-> "none"]
  /\ executable = {} /\ extracted = {} /\ notWorking = {}
  /\ Init
  /\ WasmMutex!Init
  /\ at = [j \in Jobs |-> "new"]
  /\ platform = [j \in Jobs |-> "native"]
  /\ faults = 0
  /\ crashed = FALSE

JobStep(j) ==
  \/ IsCompilerDownloaded(j)
  \/ Enter(j)
  \/ Lookup(j)
  \/ DownloadCompilerList(j)
  \/ DownloadBrokenList(j)
  \/ DownloadCompiler(j)
  \/ DownloadFails(j)
  \/ VerifyCompilerDownload(j)
  \/ PostProcessCompilerDownload(j)
  \/ UnzipFails(j)
  \/ CheckNativeSolc(j)
  \/ GetCompiler(j)
  \/ RunCompiler(j)

(* The calls of _sched that wait for the next tick *)
MutexTick ==
  /\ (Tick /\ UNCHANGED wasmVars) \/ (WasmMutex!Tick /\ UNCHANGED vars)
  /\ UNCHANGED <<outside, files, at, platform, faults, crashed>>

DownloaderNext == (\E j \in Jobs : JobStep(j)) \/ MutexTick \/ Crash \/ NextRun \/ Publish

(* Every promise that a job awaits settles, since downloads have a         *)
(* timeout, and the event loop runs what is queued for the next tick.      *)
DownloaderFairness ==
  WF_downloaderVars(MutexTick) /\ \A j \in Jobs : WF_downloaderVars(JobStep(j))

DownloaderSpec == DownloaderInit /\ [][DownloaderNext]_downloaderVars /\ DownloaderFairness

-----------------------------------------------------------------------------

Resting(b) == \A j \in Jobs : at[j] \in Unfinished => Build(j) # b

(* Unless a job has just downloaded it and not yet verified and tried it,  *)
(* or a process died at that point, every compiler on disk has its         *)
(* checksum verified and, when it is native, was made executable and       *)
(* tried: jobs that then find it may use it as it is, whatever downloads   *)
(* failed or were repeated before.                                         *)
RestingCompilersVerified ==
  ~crashed => \A b \in Builds :
    Resting(b) /\ BinaryExists(b) =>
      /\ BinaryGood(b)
      /\ b[1] = "native" => NativeSolcWorks(b) \/ b \in notWorking

(* A native compiler that runs on this machine is never marked as one that *)
(* does not, which would make all later runs use the slow one.             *)
WorkingCompilersNotMarked ==
  \A b \in notWorking : b[2] \notin Runnable

(* Every job ends with its compiler run or with an error: no error path    *)
(* keeps the mutex, and the WASM fallback does not loop.                   *)
EveryJobEnds ==
  \A j \in Jobs : at[j] = "new" ~> at[j] \in {"done", "failed"}

=============================================================================
