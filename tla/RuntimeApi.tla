----------------------------- MODULE RuntimeApi -----------------------------
(***************************************************************************)
(* The CUDA Runtime API layer (rouge-cuda/src/runtime_api.cpp and          *)
(* runtime_register.cpp) on top of the Driver API: the registered kernel   *)
(* stubs, the modules found in fat binaries or named by ROUGE_CUDA_PTX,    *)
(* the stack of launch configurations, and the last error of each host     *)
(* thread.                                                                 *)
(***************************************************************************)
EXTENDS DriverApi

CONSTANTS Stubs,           \* addresses of kernel stubs
          KernelNames,
          FatBinaries,     \* sequences of images found in a fat binary
          PtxFiles,        \* the images named by ROUGE_CUDA_PTX, in order
          Configs,         \* launch configurations [grid, sharedMem]
          NoModule,        \* not the address of a driver module
          MaxModules,      \* bound: runtime modules loaded
          MaxPushed        \* bound: configurations on the stack

ASSUME RuntimeAssumption ==
  /\ PtxFiles \in Seq(Images) /\ FatBinaries \subseteq Seq(Images)
  /\ NoModule \notin Addresses
  /\ \A c \in Configs : c.sharedMem \in Nat

VARIABLES stubs,           \* stub_names()
          runtimeModules,  \* runtime_modules()
          configStack,     \* config_stack(), one for the process
          lastError,       \* tls_last_error of each host thread
          unasked,         \* has a call of the host thread failed since it last
                           \* asked for its error? (observation)
          launching        \* the <<<>>> each host thread is in: what it pushed,
                           \* and what it has popped (observation)

registryVars == <<stubs, runtimeModules, configStack, launching>>
errorVars == <<lastError, unasked>>
runtimeVars == <<registryVars, errorVars>>

NotLaunching == [phase |-> "none"]

RuntimeInit ==
  /\ stubs = << >> /\ runtimeModules = << >> /\ configStack = << >>
  /\ lastError = [t \in HostThreads |-> "success"]
  /\ unasked = [t \in HostThreads |-> FALSE]
  /\ launching = [t \in HostThreads |-> NotLaunching]

-----------------------------------------------------------------------------
(* Errors.                                                                 *)
\* Mutant of MapDriver: the driver's code is passed on as it is.
SameCode(r) == r

\* map_driver
MapDriver(r) ==
  CASE r = "success" -> "success"
    [] r = "out of memory" -> "memory allocation"
    [] r = "invalid value" -> "invalid value"
    [] r = "invalid handle" -> "invalid resource handle"
    [] OTHER -> "unknown"

\* Every call of the runtime but the launch stores its outcome.
Report(t, e) == /\ lastError' = [lastError EXCEPT ![t] = e]
                /\ unasked' = [unasked EXCEPT ![t] = @ \/ e # "success"]

\* Calls that only answer, or refuse with whatever code they have for it: the
\* device calls (cudaSetDevice, cudaDeviceSynchronize ...) and the queries of
\* attributes and occupancy.
DeviceCall(t, e) == Report(t, e) /\ UNCHANGED <<driverVars, registryVars>>
QueryCall(t, e) == Report(t, e) /\ UNCHANGED <<driverVars, registryVars>>

cudaMalloc(t) ==
  \E r \in {"success", "out of memory"} :
    /\ cuMemAlloc(r) /\ Report(t, MapDriver(r)) /\ UNCHANGED registryVars

cudaFree(t, a) ==
  \E r \in {"success", "invalid value"} :
    /\ cuMemFree(a, r) /\ Report(t, MapDriver(r)) /\ UNCHANGED registryVars

cudaMallocHost(t) ==
  \E r \in {"success", "out of memory"} :
    /\ cuMemHostAlloc(r) /\ Report(t, MapDriver(r)) /\ UNCHANGED registryVars

cudaFreeHost(t, a) ==
  cuMemFreeHost(a) /\ Report(t, "success") /\ UNCHANGED registryVars

cudaMemcpy(t, a, v) ==
  cuMemcpyHtoD(a, v) /\ Report(t, "success") /\ UNCHANGED registryVars

cudaGetLastError(t) ==
  /\ lastError' = [lastError EXCEPT ![t] = "success"]
  /\ unasked' = [unasked EXCEPT ![t] = FALSE]
  /\ UNCHANGED <<driverVars, registryVars>>

-----------------------------------------------------------------------------
(* Registration.                                                           *)
RegistrationUnchanged == UNCHANGED <<driverVars, errorVars, configStack, launching>>

\* Texts of the fat binary that do not parse are passed over, the others are
\* kept in their order.
cudaRegisterFatBinary(images) ==
  LET good == { k \in DOMAIN images : images[k].parses }
  IN  /\ Len(runtimeModules) + Len(images) <= MaxModules
      /\ \E kept \in [1 .. Cardinality(good) -> good] :
           /\ \A i, j \in DOMAIN kept : i < j => kept[i] < kept[j]
           /\ runtimeModules' = runtimeModules \o [i \in DOMAIN kept |-> images[kept[i]]]
      /\ UNCHANGED stubs /\ RegistrationUnchanged

cudaRegisterFunction(stub, name) ==
  /\ stubs' = With(stubs, stub, name)
  /\ UNCHANGED runtimeModules /\ RegistrationUnchanged

cudaUnregisterFunction(stub) ==
  /\ stubs' = Without(stubs, {stub})
  /\ UNCHANGED runtimeModules /\ RegistrationUnchanged

-----------------------------------------------------------------------------
(* kernel<<<grid, block, sharedMem>>>(...) is a push of the configuration, *)
(* a pop of it in the stub, and cudaLaunchKernel.                          *)
ConfigUnchanged == UNCHANGED <<driverVars, errorVars, stubs, runtimeModules>>

PushCallConfiguration(t, c) ==
  /\ launching[t].phase = "none" /\ Len(configStack) < MaxPushed
  /\ configStack' = Append(configStack, c)
  /\ launching' = [launching EXCEPT ![t] = [phase |-> "pushed", wanted |-> c]]
  /\ ConfigUnchanged

PopCallConfiguration(t) ==
  /\ launching[t].phase = "pushed"
  /\ configStack # << >>
  /\ configStack' = SubSeq(configStack, 1, Len(configStack) - 1)
  /\ launching' = [launching EXCEPT ![t] =
                     [phase |-> "popped", wanted |-> @.wanted,
                      config |-> configStack[Len(configStack)]]]
  /\ ConfigUnchanged

\* load_ptx_modules: files are read in order up to the first that does not
\* parse; the ones before it stay loaded.
GoodPrefix == { n \in 0 .. Len(PtxFiles) : \A m \in 1 .. n : PtxFiles[m].parses }
LoadedFiles == SubSeq(PtxFiles, 1, CHOOSE n \in GoodPrefix : n + 1 \notin GoodPrefix)
LoadSucceeds == LoadedFiles = PtxFiles /\ PtxFiles # << >>

\* find_kernel: the first runtime module that has a kernel of that name.
Holders(mods, name) == { n \in DOMAIN mods : FunctionIndex(mods[n], name) # 0 }
FirstHolder(mods, name) ==
  mods[CHOOSE n \in Holders(mods, name) : \A k \in Holders(mods, name) : n <= k]

\* launch_registered up to the copying of the parameters.  With shared memory
\* asked for, the launch runs all the same and an error is returned at its end.
\* The outcome is not stored as the host thread's last error.
LaunchRegistered(t, stub) ==
  /\ launching[t].phase = "popped"
  /\ LET loads == stub \in DOMAIN stubs /\ runtimeModules = << >>
         mods == IF loads THEN LoadedFiles ELSE runtimeModules
         runs == /\ stub \in DOMAIN stubs
                 /\ loads => LoadSucceeds
                 /\ Holders(mods, stubs[stub]) # {}
     IN  /\ runtimeModules' = mods
         /\ IF runs
            THEN LET image == FirstHolder(mods, stubs[stub])
                 IN  Launch(t, image, FunctionIndex(image, stubs[stub]), NoModule)
            ELSE UNCHANGED running
         /\ unasked' = [unasked EXCEPT ![t] = @ \/ ~runs]
  /\ launching' = [launching EXCEPT ![t] = NotLaunching]
  /\ UNCHANGED <<memory, globalBases, crashed, stubs, configStack, lastError>>
  /\ LaunchUnchanged

-----------------------------------------------------------------------------
vars == <<driverVars, runtimeVars>>

Init == DriverInit /\ RuntimeInit

\* The calls of the Driver API.
DriverCall(t) ==
  /\ Calls(t) /\ UNCHANGED runtimeVars
  /\ \/ cuCtxCreate(t)
     \/ \E c \in {"none", "context"} : cuCtxSetCurrent(t, c) \/ cuCtxDestroy(t, c)
     \/ cuStreamCreate
     \/ \E a \in Addresses : cuStreamDestroy(a)
     \/ \E a, b \in Addresses : cuMemcpyDtoD(a, b)
     \/ \E image \in Images, r \in {"success", "invalid value"} :
          cuModuleLoadData(image, r)
     \/ \E m \in Addresses, r \in {"success", "invalid value"} : cuModuleUnload(m, r)
     \/ \E m \in Addresses, r \in {"success", "invalid value", "invalid handle"} :
          \/ \E name \in KernelNames : cuModuleGetFunction(m, name, r)
          \/ \E s \in Symbols : cuModuleGetGlobal(m, s, r)
     \/ \E f \in Addresses, r \in {"accepted", "invalid value", "invalid handle"} :
          cuLaunchKernel(t, f, r)

\* The calls of the Runtime API.
RuntimeCall(t) ==
  /\ Calls(t)
  /\ \/ \E e \in {"success", "invalid value"} : DeviceCall(t, e) \/ QueryCall(t, e)
     \/ cudaMalloc(t) \/ cudaMallocHost(t) \/ cudaGetLastError(t)
     \/ \E a \in Addresses : cudaFree(t, a) \/ cudaFreeHost(t, a)
     \/ \E a \in Addresses, v \in Contents : cudaMemcpy(t, a, v)
     \/ \E images \in FatBinaries : cudaRegisterFatBinary(images)
     \/ \E stub \in Stubs : \/ \E name \in KernelNames : cudaRegisterFunction(stub, name)
                            \/ cudaUnregisterFunction(stub)
                            \/ LaunchRegistered(t, stub)
     \/ \E c \in Configs : PushCallConfiguration(t, c)
     \/ PopCallConfiguration(t)

Next == \E t \in HostThreads :
          \/ DriverCall(t)
          \/ RuntimeCall(t)
          \/ LaunchStep(t) /\ UNCHANGED runtimeVars

Spec == Init /\ [][Next]_vars

-----------------------------------------------------------------------------
(* Properties.                                                             *)
Bases == UNION { [s -> Addresses] : s \in SUBSET Symbols }

\* Every variable has its type.
TypeOK ==
  /\ heap \subseteq Addresses /\ memory \in [Addresses -> Contents]
  /\ allocations \subseteq Addresses /\ untracked \subseteq Addresses
  /\ DOMAIN modules \subseteq Addresses
  /\ \A m \in DOMAIN modules : modules[m] \in Images
  /\ DOMAIN functions \subseteq Addresses
  /\ \A f \in DOMAIN functions :
       functions[f].module \in Addresses /\ functions[f].index \in Nat \ {0}
  /\ DOMAIN globalStorage \subseteq Addresses \X Symbols
  /\ \A ms \in DOMAIN globalStorage : globalStorage[ms] \in Addresses
  /\ current \in [HostThreads -> {"none", "context"}]
  /\ \A t \in HostThreads :
       running[t].phase \in {"idle", "marshal", "executing", "ending"}
  /\ globalBases \in Bases /\ crashed \in BOOLEAN
  /\ DOMAIN stubs \subseteq Stubs /\ \A s \in DOMAIN stubs : stubs[s] \in KernelNames
  /\ runtimeModules \in Seq(Images) /\ configStack \in Seq(Configs)
  /\ lastError \in [HostThreads -> {"success", "memory allocation", "invalid value",
                                    "invalid resource handle", "unknown"}]
  /\ unasked \in [HostThreads -> BOOLEAN]

StorageBlocks == { globalStorage[ms] : ms \in DOMAIN globalStorage }

\* Every block of the heap belongs to exactly one thing the layer has handed
\* out: no call frees what another thing lives in, forgets a block, or lets
\* the storage of a global outlive its module (the bookkeeping of
\* cuMemFree, cuModuleUnload and cuModuleGetGlobal).
OneOwner ==
  LET owners == <<allocations, untracked, DOMAIN modules, DOMAIN functions, StorageBlocks>>
  IN  /\ UNION { owners[i] : i \in 1 .. 5 } = heap
      /\ \A i, j \in 1 .. 5 : i # j => owners[i] \cap owners[j] = {}
      /\ \A x, y \in DOMAIN globalStorage :
           globalStorage[x] = globalStorage[y] => x = y
      /\ \A ms \in DOMAIN globalStorage : ms[1] \in DOMAIN modules

\* Whatever handle a launch is given, and whatever module has come to live at
\* its module's address since, the kernel that is started is one its image has
\* (the bounds check of cuLaunchKernel).
LaunchInRange ==
  \A t \in HostThreads :
    running[t] # Idle => running[t].index \in DOMAIN running[t].image.kernels

\* The globals of the loaded modules behave as cells of their own, zero at
\* first, changed by writes alone (module unloading and storage on demand).
GlobalCells ==
  [m \in DOMAIN modules |->
     [s \in modules[m].globals |->
        IF <<m, s>> \in DOMAIN globalStorage THEN memory[globalStorage[<<m, s>>]] ELSE 0]]

Globals == INSTANCE DeviceGlobals
             WITH Keys <- Addresses, cell <- GlobalCells, shown <- DOMAIN globalStorage

GlobalsSpec == Globals!Spec

\* The error of a failed call stays until the host thread asks for it with
\* cudaGetLastError: a later call that succeeds does not wipe it out, and the
\* refusal of a launch is stored too.
StickyError == \A t \in HostThreads : unasked[t] => lastError[t] # "success"

\* The configuration a launch pops is the one its host thread has pushed.
ConfigOfItsOwn ==
  \A t \in HostThreads :
    launching[t].phase = "popped" => launching[t].config = launching[t].wanted

\* While a kernel executes, the symbols it names are those of its own module.
BasesOfItsOwn ==
  \A t \in HostThreads :
    running[t].phase = "executing" => globalBases = BasesOf(running[t].module)
=============================================================================
