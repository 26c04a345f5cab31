------------------------- MODULE RuntimeApi_proofs -------------------------
(***************************************************************************)
(* The bookkeeping of the CUDA layer, for every heap, every set of images  *)
(* and every number of host threads.                                       *)
(***************************************************************************)
EXTENDS RuntimeApi, FiniteSetTheorems, WellFoundedInduction, TLAPS

-----------------------------------------------------------------------------
(* The steps by what they do to the state the properties are about.        *)
ownVars == <<heap, allocations, untracked, modules, functions, globalStorage>>
stateVars == <<ownVars, memory, running, globalBases, runtimeModules>>

\* The calls that hand out blocks or take them back.
HandsOver ==
  \/ \E r : cuMemAlloc(r) \/ cuMemHostAlloc(r)
  \/ \E a \in Addresses : \E r : \/ cuMemFree(a, r) \/ cuMemFreeHost(a)
                                \/ cuModuleUnload(a, r)
  \/ \E image \in Images : \E r : cuModuleLoadData(image, r)
  \/ \E m \in Addresses : \E r :
       \/ \E name \in KernelNames : cuModuleGetFunction(m, name, r)
       \/ \E s \in Symbols : cuModuleGetGlobal(m, s, r)

\* The calls that write to memory.
Copies ==
  \E a \in Addresses : \E v :
    /\ a \in DataBlocks
    /\ v \in Contents \/ \E b \in Addresses : v = memory[b]
    /\ memory' = [memory EXCEPT ![a] = v]

Call(t) ==
  \/ HandsOver /\ UNCHANGED <<running, globalBases, runtimeModules>>
  \/ Copies /\ UNCHANGED <<ownVars, running, globalBases, runtimeModules>>
  \/ (\E f \in Addresses : \E r : cuLaunchKernel(t, f, r)) /\ UNCHANGED runtimeModules
  \/ \E stub \in Stubs : LaunchRegistered(t, stub)
  \/ \E images \in FatBinaries : cudaRegisterFatBinary(images)
  \/ UNCHANGED stateVars

LEMMA StepKinds ==
  ASSUME [Next]_vars
  PROVE  \/ \E t \in HostThreads : Calls(t) /\ Call(t)
         \/ \E t \in HostThreads : LaunchStep(t) /\ UNCHANGED <<ownVars, runtimeModules>>
         \/ UNCHANGED stateVars
<1>1. ASSUME NEW t \in HostThreads, DriverCall(t)
      PROVE  Call(t)
  <2>0. UNCHANGED runtimeModules
    BY <1>1 DEF DriverCall, runtimeVars, registryVars
  <2>1. CASE cuCtxCreate(t) \/ \E c \in {"none", "context"} :
                                  cuCtxSetCurrent(t, c) \/ cuCtxDestroy(t, c)
    BY <2>0, <2>1 DEF cuCtxCreate, cuCtxSetCurrent, cuCtxDestroy, CtxUnchanged,
                      ctxVars, launchVars, ownVars, stateVars, Call
  <2>2. ASSUME cuStreamCreate \/ \E a \in Addresses : cuStreamDestroy(a)
        PROVE  HandsOver /\ UNCHANGED <<running, globalBases>>
    BY <2>2 DEF cuStreamCreate, cuStreamDestroy, cuMemHostAlloc, cuMemFreeHost,
                MemUnchanged, launchVars, HandsOver
  <2>3. ASSUME NEW a \in Addresses, NEW b \in Addresses, cuMemcpyDtoD(a, b)
        PROVE  Copies /\ UNCHANGED <<ownVars, running, globalBases>>
    BY <2>3 DEF cuMemcpyDtoD, MemUnchanged, launchVars, ownVars, Copies
  <2>4. ASSUME \/ \E image \in Images, r \in {"success", "invalid value"} :
                    cuModuleLoadData(image, r)
               \/ \E m \in Addresses, r \in {"success", "invalid value"} :
                    cuModuleUnload(m, r)
               \/ \E m \in Addresses, r \in {"success", "invalid value", "invalid handle"} :
                    \/ \E name \in KernelNames : cuModuleGetFunction(m, name, r)
                    \/ \E s \in Symbols : cuModuleGetGlobal(m, s, r)
        PROVE  HandsOver /\ UNCHANGED <<running, globalBases>>
    <3>1. HandsOver
      BY <2>4 DEF HandsOver
    <3>2. UNCHANGED <<running, globalBases>>
      BY <2>4 DEF cuModuleLoadData, cuModuleUnload, cuModuleGetFunction,
                  cuModuleGetGlobal, ModUnchanged, launchVars
    <3> QED
      BY <3>1, <3>2
  <2>5. CASE \E f \in Addresses, r \in {"accepted", "invalid value", "invalid handle"} :
               cuLaunchKernel(t, f, r)
    BY <2>0, <2>5 DEF Call
  <2> QED
    BY <1>1, <2>0, <2>1, <2>2, <2>3, <2>4, <2>5 DEF DriverCall, Call
<1>2. ASSUME NEW t \in HostThreads, RuntimeCall(t)
      PROVE  Call(t)
  <2>1. ASSUME \/ cudaMalloc(t) \/ cudaMallocHost(t)
               \/ \E a \in Addresses : cudaFree(t, a) \/ cudaFreeHost(t, a)
        PROVE  HandsOver /\ UNCHANGED <<running, globalBases, runtimeModules>>
    <3>1. HandsOver
      BY <2>1 DEF cudaMalloc, cudaMallocHost, cudaFree, cudaFreeHost, HandsOver
    <3>2. UNCHANGED <<running, globalBases, runtimeModules>>
      BY <2>1 DEF cudaMalloc, cudaMallocHost, cudaFree, cudaFreeHost, cuMemAlloc,
                  cuMemHostAlloc, cuMemFree, cuMemFreeHost, MemUnchanged, launchVars,
                  registryVars
    <3> QED
      BY <3>1, <3>2
  <2>2. ASSUME NEW a \in Addresses, NEW v \in Contents, cudaMemcpy(t, a, v)
        PROVE  Copies /\ UNCHANGED <<ownVars, running, globalBases, runtimeModules>>
    BY <2>2 DEF cudaMemcpy, cuMemcpyHtoD, MemUnchanged, launchVars, registryVars, ownVars,
                Copies
  <2>3. CASE \/ \E e \in {"success", "invalid value"} : DeviceCall(t, e) \/ QueryCall(t, e)
             \/ cudaGetLastError(t)
    BY <2>3 DEF DeviceCall, QueryCall, cudaGetLastError, driverVars, ctxVars, launchVars,
                registryVars, ownVars, stateVars, Call
  <2>4. CASE \E stub \in Stubs : \/ \E name \in KernelNames : cudaRegisterFunction(stub, name)
                                 \/ cudaUnregisterFunction(stub)
    BY <2>4 DEF cudaRegisterFunction, cudaUnregisterFunction, RegistrationUnchanged,
                driverVars, ctxVars, launchVars, ownVars, stateVars, Call
  <2>5. CASE (\E c \in Configs : PushCallConfiguration(t, c)) \/ PopCallConfiguration(t)
    BY <2>5 DEF PushCallConfiguration, PopCallConfiguration, ConfigUnchanged,
                driverVars, ctxVars, launchVars, ownVars, stateVars, Call
  <2> QED
    BY <1>2, <2>1, <2>2, <2>3, <2>4, <2>5 DEF RuntimeCall, Call
<1>3. ASSUME NEW t \in HostThreads, LaunchStep(t), UNCHANGED runtimeVars
      PROVE  UNCHANGED <<ownVars, runtimeModules>>
  BY <1>3 DEF LaunchStep, LaunchRefused, execute_kernel, KernelAccess, LaunchEnd,
              LaunchUnchanged, ctxVars, ownVars, runtimeVars, registryVars
<1>4. CASE UNCHANGED vars
  BY <1>4 DEF vars, driverVars, ctxVars, launchVars, runtimeVars, registryVars, ownVars,
              stateVars
<1>5. \A t \in HostThreads : DriverCall(t) \/ RuntimeCall(t) => Calls(t)
  BY DEF DriverCall, RuntimeCall
<1> QED
  BY <1>1, <1>2, <1>3, <1>4, <1>5 DEF Next

-----------------------------------------------------------------------------
(* Who owns the blocks of the heap.                                        *)

LEMMA StepHandsOver ==
  ASSUME [Next]_vars
  PROVE  HandsOver \/ UNCHANGED ownVars
<1>1. \A t, f, r : cuLaunchKernel(t, f, r) => UNCHANGED ownVars
  BY DEF cuLaunchKernel, LaunchUnchanged, ctxVars, ownVars
<1>2. \A t, stub : LaunchRegistered(t, stub) => UNCHANGED ownVars
  BY DEF LaunchRegistered, LaunchUnchanged, ctxVars, ownVars
<1>3. \A images : cudaRegisterFatBinary(images) => UNCHANGED ownVars
  BY DEF cudaRegisterFatBinary, RegistrationUnchanged, driverVars, ctxVars, ownVars
<1> QED
  BY StepKinds, <1>1, <1>2, <1>3 DEF Call, stateVars

\* OneOwner with its pairs written out.
Owned ==
  /\ heap = allocations \cup untracked \cup DOMAIN modules \cup DOMAIN functions
            \cup StorageBlocks
  /\ allocations \cap untracked = {} /\ allocations \cap DOMAIN modules = {}
  /\ allocations \cap DOMAIN functions = {} /\ allocations \cap StorageBlocks = {}
  /\ untracked \cap DOMAIN modules = {} /\ untracked \cap DOMAIN functions = {}
  /\ untracked \cap StorageBlocks = {} /\ DOMAIN modules \cap DOMAIN functions = {}
  /\ DOMAIN modules \cap StorageBlocks = {} /\ DOMAIN functions \cap StorageBlocks = {}
  /\ \A x, y \in DOMAIN globalStorage : globalStorage[x] = globalStorage[y] => x = y
  /\ \A ms \in DOMAIN globalStorage : ms[1] \in DOMAIN modules

LEMMA OwnedIsOneOwner == Owned <=> OneOwner
  BY DEF Owned, OneOwner

LEMMA InitOwned == Init => Owned
  BY DEF Init, DriverInit, Owned, StorageBlocks

LEMMA StepOwned ==
  ASSUME Owned, [Next]_vars
  PROVE  Owned'
<1> USE DEF Owned
<1>1. CASE UNCHANGED ownVars
  BY <1>1 DEF StorageBlocks, ownVars
<1>2. ASSUME NEW r, cuMemAlloc(r) \/ cuMemHostAlloc(r)
      PROVE  Owned'
  <2>1. UNCHANGED <<modules, functions, globalStorage>> /\ UNCHANGED StorageBlocks
    BY <1>2 DEF cuMemAlloc, cuMemHostAlloc, MemUnchanged, StorageBlocks
  <2>2. CASE UNCHANGED <<heap, allocations, untracked>>
    BY <2>1, <2>2
  <2>3. ASSUME NEW a \in Fresh, heap' = heap \cup {a},
               \/ allocations' = allocations \cup {a} /\ UNCHANGED untracked
               \/ untracked' = untracked \cup {a} /\ UNCHANGED allocations
        PROVE  Owned'
    <3>1. a \notin heap
      BY <2>3 DEF Fresh
    <3> QED
      BY <2>1, <2>3, <3>1
  <2> QED
    BY <1>2, <2>2, <2>3 DEF cuMemAlloc, cuMemHostAlloc
<1>3. ASSUME NEW a, NEW r, cuMemFree(a, r) \/ cuMemFreeHost(a)
      PROVE  Owned'
  <2>1. UNCHANGED <<modules, functions, globalStorage>> /\ UNCHANGED StorageBlocks
    BY <1>3 DEF cuMemFree, cuMemFreeHost, MemUnchanged, StorageBlocks
  <2>2. CASE cuMemFree(a, r)
    BY <2>1, <2>2 DEF cuMemFree, IsAllocation
  <2>3. CASE cuMemFreeHost(a)
    BY <2>1, <2>3 DEF cuMemFreeHost
  <2> QED
    BY <1>3, <2>2, <2>3
<1>4. ASSUME NEW image, NEW r, cuModuleLoadData(image, r)
      PROVE  Owned'
  <2>1. UNCHANGED <<allocations, untracked, functions, globalStorage>>
    BY <1>4 DEF cuModuleLoadData, ModUnchanged
  <2>2. CASE UNCHANGED <<heap, modules>>
    BY <2>1, <2>2 DEF StorageBlocks
  <2>3. ASSUME NEW a \in Fresh, heap' = heap \cup {a}, modules' = With(modules, a, image)
        PROVE  Owned'
    <3>1. DOMAIN modules' = DOMAIN modules \cup {a}
      BY <2>3 DEF With
    <3> QED
      BY <2>1, <2>3, <3>1 DEF Fresh, StorageBlocks
  <2> QED
    BY <1>4, <2>2, <2>3 DEF cuModuleLoadData
<1>5. ASSUME NEW m, NEW name, NEW r, cuModuleGetFunction(m, name, r)
      PROVE  Owned'
  <2>1. UNCHANGED <<allocations, untracked, modules, globalStorage>>
    BY <1>5 DEF cuModuleGetFunction, ModUnchanged
  <2>2. CASE UNCHANGED <<heap, functions>>
    BY <2>1, <2>2 DEF StorageBlocks
  <2>3. ASSUME NEW a \in Fresh, heap' = heap \cup {a}, NEW handle,
               functions' = With(functions, a, handle)
        PROVE  Owned'
    <3>1. DOMAIN functions' = DOMAIN functions \cup {a}
      BY <2>3 DEF With
    <3> QED
      BY <2>1, <2>3, <3>1 DEF Fresh, StorageBlocks
  <2> QED
    BY <1>5, <2>2, <2>3 DEF cuModuleGetFunction
<1>6. ASSUME NEW m, NEW s, NEW r, cuModuleGetGlobal(m, s, r)
      PROVE  Owned'
  <2>1. UNCHANGED <<allocations, untracked, modules, functions>>
    BY <1>6 DEF cuModuleGetGlobal, ModUnchanged
  <2>2. CASE UNCHANGED <<heap, globalStorage>>
    BY <2>1, <2>2 DEF StorageBlocks
  <2>3. ASSUME NEW a \in Fresh, m \in DOMAIN modules, <<m, s>> \notin DOMAIN globalStorage,
               heap' = heap \cup {a}, globalStorage' = With(globalStorage, <<m, s>>, a)
        PROVE  Owned'
    <3>1. /\ DOMAIN globalStorage' = DOMAIN globalStorage \cup {<<m, s>>}
          /\ globalStorage'[<<m, s>>] = a
          /\ \A x \in DOMAIN globalStorage : globalStorage'[x] = globalStorage[x]
      BY <2>3 DEF With
    <3>2. StorageBlocks' = StorageBlocks \cup {a}
      BY <3>1 DEF StorageBlocks
    <3>3. a \notin StorageBlocks
      BY <2>3 DEF Fresh
    <3>4. \A x, y \in DOMAIN globalStorage' :
             globalStorage'[x] = globalStorage'[y] => x = y
      BY <3>1, <3>3 DEF StorageBlocks
    <3>5. \A x \in DOMAIN globalStorage' : x[1] \in DOMAIN modules'
      BY <2>1, <2>3, <3>1
    <3> QED
      BY <2>1, <2>3, <3>2, <3>4, <3>5 DEF Fresh
  <2> QED
    BY <1>6, <2>2, <2>3 DEF cuModuleGetGlobal
<1>7. ASSUME NEW m, NEW r, cuModuleUnload(m, r)
      PROVE  Owned'
  <2>1. UNCHANGED <<allocations, untracked, functions>>
    BY <1>7 DEF cuModuleUnload, ModUnchanged
  <2>2. CASE UNCHANGED <<modules, globalStorage, heap>>
    BY <2>1, <2>2 DEF StorageBlocks
  <2>3. CASE /\ m \in DOMAIN modules
             /\ modules' = Without(modules, {m})
             /\ globalStorage' = Without(globalStorage, StorageOf(m))
             /\ heap' = heap \ ({m} \cup { globalStorage[ms] : ms \in StorageOf(m) })
    <3> DEFINE dropped == { globalStorage[ms] : ms \in StorageOf(m) }
    <3>1. /\ DOMAIN modules' = DOMAIN modules \ {m}
          /\ DOMAIN globalStorage' = DOMAIN globalStorage \ StorageOf(m)
          /\ \A x \in DOMAIN globalStorage' : globalStorage'[x] = globalStorage[x]
      BY <2>3 DEF Without
    <3>2. StorageBlocks' = StorageBlocks \ dropped
      BY <3>1 DEF StorageBlocks, StorageOf
    <3>3. dropped \subseteq StorageBlocks
      BY DEF StorageOf, StorageBlocks
    <3>4. \A ms \in DOMAIN globalStorage' : ms[1] \in DOMAIN modules'
      BY <3>1 DEF StorageOf
    <3>5. \A x, y \in DOMAIN globalStorage' :
             globalStorage'[x] = globalStorage'[y] => x = y
      BY <3>1
    <3>6. heap' = heap \ ({m} \cup dropped)
      BY <2>3
    <3> HIDE DEF dropped
    <3>7. heap' = allocations' \cup untracked' \cup DOMAIN modules' \cup DOMAIN functions'
                  \cup StorageBlocks'
      BY <2>1, <2>3, <3>1, <3>2, <3>3, <3>6
    <3> QED
      BY <2>1, <3>1, <3>2, <3>4, <3>5, <3>7
  <2> QED
    BY <1>7, <2>2, <2>3 DEF cuModuleUnload
<1> QED
  BY <1>1, <1>2, <1>3, <1>4, <1>5, <1>6, <1>7, StepHandsOver DEF HandsOver

(* Every block of the heap belongs to exactly one thing the layer has      *)
(* handed out, whatever calls are made in whatever order.                  *)
THEOREM HeapIsOwned == Spec => []OneOwner
<1>1. Spec => []Owned
  BY InitOwned, StepOwned, PTL DEF Spec
<1> QED
  BY <1>1, OwnedIsOneOwner, PTL


-----------------------------------------------------------------------------
(* What CHOOSE finds: the lowest and the highest number of a set.          *)
LEMMA LowestExists ==
  ASSUME NEW S \in SUBSET Nat, S # {}
  PROVE  \E x \in S : \A y \in S : x <= y
<1> DEFINE R == OpToRel(<, Nat)
<1>1. IsWellFoundedOn(R, Nat)
  BY NatLessThanWellFounded
<1>2. \A x, y \in Nat : <<y, x>> \in R <=> y < x
  BY DEF OpToRel
<1> HIDE DEF R
<1>3. PICK x \in S : \A y \in S : ~(<<y, x>> \in R)
  BY <1>1, WFMin
<1>4. ASSUME NEW y \in S
      PROVE  x <= y
  <2>1. x \in Nat /\ y \in Nat
    OBVIOUS
  <2>2. ~(y < x)
    BY <1>2, <1>3, <2>1
  <2> QED
    BY <2>1, <2>2
<1> QED
  BY <1>4

LEMMA HighestExists ==
  ASSUME NEW n \in Nat, NEW S \in SUBSET (0 .. n), S # {}
  PROVE  \E x \in S : \A y \in S : y <= x
<1> DEFINE T == { n - x : x \in S }
<1>1. T \in SUBSET Nat /\ T # {}
  <2>1. \A x \in S : n - x \in Nat
    OBVIOUS
  <2> QED
    BY <2>1
<1>2. PICK t \in T : \A u \in T : t <= u
  BY <1>1, LowestExists
<1>3. PICK x \in S : t = n - x
  OBVIOUS
<1>4. \A y \in S : n - x <= n - y
  BY <1>2, <1>3
<1> QED
  BY <1>4

LEMMA IndexInRange ==
  ASSUME NEW image \in Images, NEW name, FunctionIndex(image, name) # 0
  PROVE  FunctionIndex(image, name) \in DOMAIN image.kernels
<1> DEFINE found == { i \in DOMAIN image.kernels : image.kernels[i].name = name }
<1>1. image.kernels \in Seq(Kernels)
  BY ImagesAssumption
<1>2. found \in SUBSET (0 .. Len(image.kernels)) /\ found # {} /\ Len(image.kernels) \in Nat
  BY <1>1 DEF FunctionIndex
<1>3. \E i \in found : \A j \in found : j <= i
  BY <1>1, <1>2, HighestExists
<1> QED
  BY <1>2, <1>3 DEF FunctionIndex

LEMMA HolderHasIt ==
  ASSUME NEW mods \in Seq(Images), NEW name, Holders(mods, name) # {}
  PROVE  /\ FirstHolder(mods, name) \in Images
         /\ FunctionIndex(FirstHolder(mods, name), name)
              \in DOMAIN FirstHolder(mods, name).kernels
<1>1. Holders(mods, name) \in SUBSET Nat /\ Holders(mods, name) \subseteq DOMAIN mods
  BY DEF Holders
<1>2. \E n \in Holders(mods, name) : \A k \in Holders(mods, name) : n <= k
  BY <1>1, LowestExists
<1>3. PICK n \in Holders(mods, name) : FirstHolder(mods, name) = mods[n]
  BY <1>2 DEF FirstHolder
<1>4. mods[n] \in Images /\ FunctionIndex(mods[n], name) # 0
  BY <1>1, <1>3 DEF Holders
<1> QED
  BY <1>3, <1>4, IndexInRange

LEMMA LoadedFilesAreImages == LoadedFiles \in Seq(Images)
<1>1. PtxFiles \in Seq(Images) /\ Len(PtxFiles) \in Nat
  BY RuntimeAssumption
<1>2. GoodPrefix \in SUBSET (0 .. Len(PtxFiles)) /\ 0 \in GoodPrefix
  BY <1>1 DEF GoodPrefix
<1>3. PICK n \in GoodPrefix : \A m \in GoodPrefix : m <= n
  BY <1>1, <1>2, HighestExists
<1>4. n + 1 \notin GoodPrefix
  BY <1>1, <1>2, <1>3
<1>5. PICK k \in GoodPrefix : LoadedFiles = SubSeq(PtxFiles, 1, k)
  BY <1>4 DEF LoadedFiles
<1> QED
  BY <1>1, <1>2, <1>5

-----------------------------------------------------------------------------
(* The kernel a launch runs.                                               *)
Launches == [phase : {"marshal", "executing", "ending"}, image : Images, index : Nat,
             module : Addresses \cup {NoModule}]

Typed ==
  /\ running \in [HostThreads -> {Idle} \cup Launches]
  /\ \A m \in DOMAIN modules : m \in Addresses /\ modules[m] \in Images
  /\ runtimeModules \in Seq(Images)

Ranged == Typed /\ LaunchInRange

LEMMA IdleIsNoLaunch == Idle \notin Launches /\ \A r \in Launches : r.phase # "idle"
  BY DEF Idle, Launches

LEMMA NextPhase ==
  ASSUME NEW r \in Launches, NEW p \in {"marshal", "executing", "ending"}
  PROVE  /\ [r EXCEPT !.phase = p] \in Launches
         /\ [r EXCEPT !.phase = p].phase = p
         /\ [r EXCEPT !.phase = p].image = r.image
         /\ [r EXCEPT !.phase = p].index = r.index
         /\ [r EXCEPT !.phase = p].module = r.module
  BY DEF Launches

LEMMA LaunchIsRanged ==
  ASSUME Ranged, NEW t \in HostThreads, NEW image \in Images, NEW i \in DOMAIN image.kernels,
         NEW m \in Addresses \cup {NoModule}, Launch(t, image, i, m)
  PROVE  running' \in [HostThreads -> {Idle} \cup Launches] /\ LaunchInRange'
<1>1. image.kernels \in Seq(Kernels)
  BY ImagesAssumption
<1>2. i \in Nat
  BY <1>1
<1> DEFINE new == [phase |-> "marshal", image |-> image, index |-> i, module |-> m]
<1>3. new \in Launches /\ new.image = image /\ new.index = i
  BY <1>2 DEF Launches
<1>4. running' = [running EXCEPT ![t] = new]
  BY DEF Launch
<1> HIDE DEF new
<1> QED
  BY <1>3, <1>4 DEF Ranged, Typed, LaunchInRange

LEMMA InitRanged == Init => Ranged
  BY DEF Init, DriverInit, RuntimeInit, Ranged, Typed, LaunchInRange

\* The modules stay images whatever is loaded and unloaded.
LEMMA HandOverRanged ==
  ASSUME Ranged, HandsOver, UNCHANGED <<running, runtimeModules>>
  PROVE  Ranged'
<1>1. (\A m \in DOMAIN modules' : m \in Addresses /\ modules'[m] \in Images) => Ranged'
  BY DEF Ranged, Typed, LaunchInRange
<1>2. CASE UNCHANGED modules
  BY <1>1, <1>2 DEF Ranged, Typed
<1>3. ASSUME NEW a \in Addresses, NEW image \in Images, modules' = With(modules, a, image)
      PROVE  Ranged'
  BY <1>1, <1>3 DEF With, Ranged, Typed
<1>4. ASSUME NEW m, modules' = Without(modules, {m})
      PROVE  Ranged'
  BY <1>1, <1>4 DEF Without, Ranged, Typed
<1>5. \A r : cuMemAlloc(r) \/ cuMemHostAlloc(r) => UNCHANGED modules
  BY DEF cuMemAlloc, cuMemHostAlloc, MemUnchanged
<1>6. \A a, r : cuMemFree(a, r) \/ cuMemFreeHost(a) => UNCHANGED modules
  BY DEF cuMemFree, cuMemFreeHost, MemUnchanged
<1>7. \A m, r : cuModuleUnload(m, r) => UNCHANGED modules \/ modules' = Without(modules, {m})
  BY DEF cuModuleUnload
<1>8. \A m, s, r : cuModuleGetFunction(m, s, r) \/ cuModuleGetGlobal(m, s, r)
                     => UNCHANGED modules
  BY DEF cuModuleGetFunction, cuModuleGetGlobal
<1>9. \A image, r : cuModuleLoadData(image, r) =>
        UNCHANGED modules \/ \E a \in Addresses : modules' = With(modules, a, image)
  BY DEF cuModuleLoadData, Fresh
<1> QED
  BY <1>2, <1>3, <1>4, <1>5, <1>6, <1>7, <1>8, <1>9 DEF HandsOver

LEMMA LaunchStepRanged ==
  ASSUME Ranged, NEW t \in HostThreads, LaunchStep(t), UNCHANGED <<ownVars, runtimeModules>>
  PROVE  Ranged'
<1>1. running[t] \in {Idle} \cup Launches
  BY DEF Ranged, Typed
<1>2. \/ running' = [running EXCEPT ![t] = Idle]
      \/ /\ running[t].phase \in {"marshal", "executing"}
         /\ \E p \in {"executing", "ending"} : running' = [running EXCEPT ![t].phase = p]
  BY DEF LaunchStep, LaunchRefused, execute_kernel, KernelAccess, LaunchEnd
<1>3. CASE running' = [running EXCEPT ![t] = Idle]
  BY <1>3 DEF Ranged, Typed, LaunchInRange, ownVars
<1>4. ASSUME running[t].phase \in {"marshal", "executing"},
             NEW p \in {"executing", "ending"}, running' = [running EXCEPT ![t].phase = p]
      PROVE  Ranged'
  <2> DEFINE new == [running[t] EXCEPT !.phase = p]
  <2>1. running[t] \in Launches
    BY <1>1, <1>4 DEF Idle
  <2>2. new \in Launches /\ new.image = running[t].image /\ new.index = running[t].index
    BY <1>4, <2>1 DEF Launches
  <2>3. running' = [running EXCEPT ![t] = new]
    BY <1>4
  <2> HIDE DEF new
  <2>4. running' \in [HostThreads -> {Idle} \cup Launches]
    BY <2>2, <2>3 DEF Ranged, Typed
  <2>5. running[t] # Idle
    BY <2>1, IdleIsNoLaunch
  <2>6. LaunchInRange'
    BY <2>2, <2>3, <2>5 DEF Ranged, Typed, LaunchInRange
  <2> QED
    BY <2>4, <2>6 DEF Ranged, Typed, ownVars
<1> QED
  BY <1>2, <1>3, <1>4

LEMMA StepRanged ==
  ASSUME Ranged, [Next]_vars
  PROVE  Ranged'
<1>1. CASE UNCHANGED stateVars
  BY <1>1 DEF Ranged, Typed, LaunchInRange, stateVars, ownVars
<1>2. CASE HandsOver /\ UNCHANGED <<running, globalBases, runtimeModules>>
  BY <1>2, HandOverRanged
<1>3. CASE Copies /\ UNCHANGED <<ownVars, running, globalBases, runtimeModules>>
  BY <1>3 DEF Ranged, Typed, LaunchInRange, ownVars
<1>4. ASSUME NEW t \in HostThreads, NEW f \in Addresses, NEW r, cuLaunchKernel(t, f, r),
             UNCHANGED runtimeModules
      PROVE  Ranged'
  <2>1. UNCHANGED modules
    BY <1>4 DEF cuLaunchKernel, LaunchUnchanged, ctxVars
  <2>2. CASE UNCHANGED running
    BY <1>4, <2>1, <2>2 DEF Ranged, Typed, LaunchInRange
  <2>3. CASE ~UNCHANGED running
    <3> DEFINE m == functions[f].module
    <3>1. /\ m \in DOMAIN modules /\ functions[f].index \in DOMAIN modules[m].kernels
          /\ Launch(t, modules[m], functions[f].index, m)
      BY <1>4, <2>3 DEF cuLaunchKernel, KernelExists
    <3>2. m \in Addresses /\ modules[m] \in Images
      BY <3>1 DEF Ranged, Typed
    <3>3. running' \in [HostThreads -> {Idle} \cup Launches] /\ LaunchInRange'
      BY <3>1, <3>2, LaunchIsRanged
    <3> QED
      BY <1>4, <2>1, <3>3 DEF Ranged, Typed
  <2> QED
    BY <2>2, <2>3
<1>5. ASSUME NEW t \in HostThreads, NEW stub \in Stubs, LaunchRegistered(t, stub)
      PROVE  Ranged'
  <2> DEFINE loads == stub \in DOMAIN stubs /\ runtimeModules = << >>
             mods == IF loads THEN LoadedFiles ELSE runtimeModules
             image == FirstHolder(mods, stubs[stub])
             index == FunctionIndex(image, stubs[stub])
  <2>1. UNCHANGED modules /\ runtimeModules' = mods
    BY <1>5 DEF LaunchRegistered, LaunchUnchanged, ctxVars
  <2>2. mods \in Seq(Images)
    BY LoadedFilesAreImages DEF Ranged, Typed
  <2>3. CASE UNCHANGED running
    BY <2>1, <2>2, <2>3 DEF Ranged, Typed, LaunchInRange
  <2>4. CASE ~UNCHANGED running
    <3>1. Holders(mods, stubs[stub]) # {} /\ Launch(t, image, index, NoModule)
      BY <1>5, <2>4 DEF LaunchRegistered
    <3>2. image \in Images /\ index \in DOMAIN image.kernels
      BY <2>2, <3>1, HolderHasIt
    <3> HIDE DEF mods, image, index
    <3>3. running' \in [HostThreads -> {Idle} \cup Launches] /\ LaunchInRange'
      BY <3>1, <3>2, LaunchIsRanged
    <3> QED
      BY <2>1, <2>2, <3>3 DEF Ranged, Typed
  <2> QED
    BY <2>3, <2>4
<1>6. ASSUME NEW images \in FatBinaries, cudaRegisterFatBinary(images)
      PROVE  Ranged'
  <2>1. UNCHANGED <<modules, running>>
    BY <1>6 DEF cudaRegisterFatBinary, RegistrationUnchanged, driverVars, ctxVars, launchVars
  <2>2. images \in Seq(Images)
    BY RuntimeAssumption
  <2> DEFINE good == { k \in DOMAIN images : images[k].parses }
  <2>3. Cardinality(good) \in Nat
    <3>1. good \subseteq 1 .. Len(images) /\ Len(images) \in Nat
      BY <2>2
    <3>2. IsFiniteSet(1 .. Len(images))
      BY <3>1, FS_Interval
    <3>3. IsFiniteSet(good)
      BY <3>1, <3>2, FS_Subset
    <3> HIDE DEF good
    <3> QED
      BY <3>3, FS_CardinalityType
  <2>4. PICK kept \in [1 .. Cardinality(good) -> good] :
          runtimeModules' = runtimeModules \o [k \in DOMAIN kept |-> images[kept[k]]]
    BY <1>6 DEF cudaRegisterFatBinary
  <2> DEFINE more == [k \in DOMAIN kept |-> images[kept[k]]]
  <2>5. more \in Seq(Images)
    BY <2>2, <2>3
  <2>6. runtimeModules' = runtimeModules \o more /\ runtimeModules \in Seq(Images)
    BY <2>4 DEF Ranged, Typed
  <2> HIDE DEF more
  <2>7. runtimeModules' \in Seq(Images)
    BY <2>5, <2>6
  <2> QED
    BY <2>1, <2>7 DEF Ranged, Typed, LaunchInRange
<1> QED
  BY <1>1, <1>2, <1>3, <1>4, <1>5, <1>6, StepKinds, LaunchStepRanged DEF Call

(* Whatever handle a launch is given, the kernel it starts is one of the   *)
(* image it takes it from, although handles outlive their modules and      *)
(* addresses are used again.                                               *)
THEOREM LaunchesAreInRange == Spec => []LaunchInRange
<1>1. Spec => []Ranged
  BY InitRanged, StepRanged, PTL DEF Spec
<1>2. Ranged => LaunchInRange
  BY DEF Ranged
<1> QED
  BY <1>1, <1>2, PTL

-----------------------------------------------------------------------------
(* The globals of the loaded modules, with one host thread.                *)
Stored ==
  /\ memory \in [Addresses -> Contents] /\ heap \subseteq Addresses
  /\ \A ms \in DOMAIN globalStorage :
       ms \in Addresses \X Symbols /\ ms[2] \in modules[ms[1]].globals

Sound == Owned /\ Ranged /\ Stored /\ BasesOfItsOwn

\* What the program sees of the symbol s of module m.
CellOf(m, s) ==
  IF <<m, s>> \in DOMAIN globalStorage THEN memory[globalStorage[<<m, s>>]] ELSE 0

LEMMA CellsByModule ==
  GlobalCells = [m \in DOMAIN modules |-> [s \in modules[m].globals |-> CellOf(m, s)]]
  BY DEF GlobalCells, CellOf

\* The steps that change neither a module, nor which globals have storage, nor
\* what is in that storage.
LEMMA SameCells ==
  ASSUME UNCHANGED <<modules, globalStorage>>,
         \A ms \in DOMAIN globalStorage :
           memory'[globalStorage[ms]] = memory[globalStorage[ms]]
  PROVE  UNCHANGED <<GlobalCells, DOMAIN globalStorage>>
<1>1. \A m, s : CellOf(m, s)' = CellOf(m, s)
  BY DEF CellOf
<1> QED
  BY <1>1, CellsByModule DEF GlobalCells, CellOf

\* A write to the storage of a global is a write to its cell, and to no other.
LEMMA StoreIsWrite ==
  ASSUME Owned, Stored, UNCHANGED <<modules, globalStorage>>,
         NEW a \in Addresses, NEW v \in Contents, memory' = [memory EXCEPT ![a] = v],
         NEW ms \in DOMAIN globalStorage, globalStorage[ms] = a
  PROVE  Globals!Next
<1>1. PICK m \in Addresses, s \in Symbols : ms = <<m, s>>
  BY DEF Stored
<1>2. m \in DOMAIN modules /\ s \in modules[m].globals
  BY <1>1 DEF Owned, Stored
<1>3. \A n, u : CellOf(n, u)' = IF n = m /\ u = s THEN v ELSE CellOf(n, u)
  <2> SUFFICES ASSUME NEW n, NEW u
               PROVE  CellOf(n, u)' = IF n = m /\ u = s THEN v ELSE CellOf(n, u)
    OBVIOUS
  <2>1. CASE <<n, u>> \notin DOMAIN globalStorage
    BY <1>1, <2>1 DEF CellOf
  <2>2. CASE <<n, u>> \in DOMAIN globalStorage /\ <<n, u>> = ms
    BY <1>1, <2>2 DEF CellOf, Stored
  <2>3. CASE <<n, u>> \in DOMAIN globalStorage /\ <<n, u>> # ms
    <3>1. globalStorage[<<n, u>>] # a
      BY <2>3 DEF Owned
    <3> QED
      BY <1>1, <2>3, <3>1 DEF CellOf, Stored
  <2> QED
    BY <2>1, <2>2, <2>3
<1>4. GlobalCells' = [n \in DOMAIN modules |->
                        [u \in modules[n].globals |->
                           IF n = m /\ u = s THEN v ELSE CellOf(n, u)]]
  BY <1>3 DEF GlobalCells, CellOf
<1>5. GlobalCells' = [GlobalCells EXCEPT ![m][s] = v]
  BY <1>2, <1>4, CellsByModule
<1> QED
  BY <1>1, <1>5 DEF Globals!Next, Globals!Write

\* Handing out and taking back blocks, one call at a time.
LEMMA MemoryCallShows ==
  ASSUME Sound, NEW a, NEW r,
         cuMemAlloc(r) \/ cuMemHostAlloc(r) \/ cuMemFree(a, r) \/ cuMemFreeHost(a)
  PROVE  Stored' /\ UNCHANGED <<GlobalCells, DOMAIN globalStorage>>
<1>1. UNCHANGED <<modules, globalStorage, memory>>
  BY DEF cuMemAlloc, cuMemHostAlloc, cuMemFree, cuMemFreeHost, MemUnchanged
<1>2. heap' \subseteq Addresses
  BY DEF cuMemAlloc, cuMemHostAlloc, cuMemFree, cuMemFreeHost, Fresh, Sound, Stored
<1> QED
  BY <1>1, <1>2, SameCells DEF Sound, Stored

LEMMA LoadIsLoad ==
  ASSUME Sound, NEW image \in Images, NEW r, cuModuleLoadData(image, r)
  PROVE  Stored' /\ [Globals!Next]_<<GlobalCells, DOMAIN globalStorage>>
<1>1. UNCHANGED <<globalStorage, memory>>
  BY DEF cuModuleLoadData
<1>2. CASE UNCHANGED <<heap, modules>>
  BY <1>1, <1>2, SameCells DEF Sound, Stored
<1>3. ASSUME NEW a \in Fresh, heap' = heap \cup {a}, modules' = With(modules, a, image)
      PROVE  Stored' /\ Globals!Next
  <2>1. a \in Addresses /\ a \notin DOMAIN modules
    BY <1>3 DEF Fresh, Sound, Owned
  <2>2. /\ DOMAIN modules' = DOMAIN modules \cup {a}
        /\ modules'[a] = image
        /\ \A m \in DOMAIN modules : modules'[m] = modules[m]
    BY <1>3, <2>1 DEF With
  <2>3. Stored'
    BY <1>1, <1>3, <2>1, <2>2 DEF Sound, Owned, Stored
  <2>4. \A s : <<a, s>> \notin DOMAIN globalStorage
    BY <2>1 DEF Sound, Owned
  <2>5. \A m, s : CellOf(m, s)' = CellOf(m, s)
    BY <1>1 DEF CellOf
  <2>6. \A s : CellOf(a, s) = 0
    BY <2>4 DEF CellOf
  <2>7. GlobalCells' = [m \in DOMAIN modules' |-> [s \in modules'[m].globals |-> CellOf(m, s)]]
    BY <2>5 DEF GlobalCells, CellOf
  <2>8. image.globals \in SUBSET Symbols
    BY ImagesAssumption
  <2>9. GlobalCells' = [m \in DOMAIN GlobalCells \cup {a} |->
                          IF m = a THEN [s \in image.globals |-> 0] ELSE GlobalCells[m]]
    BY <2>1, <2>2, <2>6, <2>7, CellsByModule
  <2>10. Globals!Load(a)
    BY <1>1, <2>1, <2>8, <2>9, CellsByModule DEF Globals!Load, Globals!Loaded
  <2> QED
    BY <2>1, <2>3, <2>10 DEF Globals!Next
<1> QED
  BY <1>2, <1>3 DEF cuModuleLoadData

LEMMA UnloadIsUnload ==
  ASSUME Sound, NEW m \in Addresses, NEW r, cuModuleUnload(m, r)
  PROVE  Stored' /\ [Globals!Next]_<<GlobalCells, DOMAIN globalStorage>>
<1>1. UNCHANGED memory
  BY DEF cuModuleUnload
<1>2. CASE UNCHANGED <<modules, globalStorage, heap>>
  BY <1>1, <1>2, SameCells DEF Sound, Stored
<1>3. CASE /\ m \in DOMAIN modules
           /\ modules' = Without(modules, {m})
           /\ globalStorage' = Without(globalStorage, StorageOf(m))
           /\ heap' = heap \ ({m} \cup { globalStorage[ms] : ms \in StorageOf(m) })
  <2>1. /\ DOMAIN modules' = DOMAIN modules \ {m}
        /\ \A n \in DOMAIN modules' : modules'[n] = modules[n]
    BY <1>3 DEF Without
  <2>2. /\ DOMAIN globalStorage' = { ms \in DOMAIN globalStorage : ms[1] # m }
        /\ \A ms \in DOMAIN globalStorage' : globalStorage'[ms] = globalStorage[ms]
    BY <1>3 DEF Without, StorageOf
  <2>3. Stored'
    BY <1>1, <1>3, <2>1, <2>2 DEF Sound, Owned, Stored
  <2>4. \A n, s : n # m => CellOf(n, s)' = CellOf(n, s)
    BY <1>1, <2>2 DEF CellOf
  <2>5. GlobalCells' = [n \in DOMAIN modules \ {m} |->
                          [s \in modules[n].globals |-> CellOf(n, s)]]
    BY <2>1, <2>4 DEF GlobalCells, CellOf
  <2>6. GlobalCells' = [n \in DOMAIN GlobalCells \ {m} |-> GlobalCells[n]]
    BY <2>5, CellsByModule
  <2>7. Globals!Unload(m)
    BY <1>3, <2>2, <2>6, CellsByModule DEF Globals!Unload, Globals!Loaded
  <2> QED
    BY <2>3, <2>7 DEF Globals!Next
<1> QED
  BY <1>2, <1>3 DEF cuModuleUnload

LEMMA GetGlobalIsShow ==
  ASSUME Sound, NEW m \in Addresses, NEW s \in Symbols, NEW r, cuModuleGetGlobal(m, s, r)
  PROVE  Stored' /\ [Globals!Next]_<<GlobalCells, DOMAIN globalStorage>>
<1>1. UNCHANGED modules
  BY DEF cuModuleGetGlobal
<1>2. CASE UNCHANGED <<heap, memory, globalStorage>>
  BY <1>1, <1>2, SameCells DEF Sound, Stored
<1>3. ASSUME NEW a \in Fresh, m \in DOMAIN modules, s \in modules[m].globals,
             <<m, s>> \notin DOMAIN globalStorage, heap' = heap \cup {a},
             memory' = Zeroed(a), globalStorage' = With(globalStorage, <<m, s>>, a)
      PROVE  Stored' /\ Globals!Next
  <2>1. a \in Addresses /\ a \notin StorageBlocks
    BY <1>3 DEF Fresh, Sound, Owned
  <2>2. /\ DOMAIN globalStorage' = DOMAIN globalStorage \cup {<<m, s>>}
        /\ globalStorage'[<<m, s>>] = a
        /\ \A ms \in DOMAIN globalStorage : globalStorage'[ms] = globalStorage[ms]
    BY <1>3 DEF With
  <2>3. /\ memory' \in [Addresses -> Contents] /\ memory'[a] = 0
        /\ \A b \in Addresses : b # a => memory'[b] = memory[b]
    BY <1>3, <2>1, ContentsAssumption DEF Zeroed, Sound, Stored
  <2>4. Stored'
    BY <1>1, <1>3, <2>1, <2>2, <2>3 DEF Sound, Stored
  <2>5. \A ms \in DOMAIN globalStorage : globalStorage[ms] \in Addresses
                                         /\ globalStorage[ms] # a
    BY <2>1 DEF Sound, Owned, Stored, StorageBlocks
  <2>6. \A n, u : CellOf(n, u)' = CellOf(n, u)
    BY <1>3, <2>2, <2>3, <2>5 DEF CellOf
  <2>7. UNCHANGED GlobalCells
    BY <1>1, <2>6, CellsByModule DEF GlobalCells, CellOf
  <2>8. Globals!Show(m, s)
    BY <1>3, <2>2, <2>7, CellsByModule DEF Globals!Show, Globals!Loaded
  <2> QED
    BY <2>4, <2>8 DEF Globals!Next
<1> QED
  BY <1>2, <1>3 DEF cuModuleGetGlobal

LEMMA GetFunctionShows ==
  ASSUME Sound, NEW m, NEW name, NEW r, cuModuleGetFunction(m, name, r)
  PROVE  Stored' /\ UNCHANGED <<GlobalCells, DOMAIN globalStorage>>
<1>1. UNCHANGED <<modules, globalStorage, memory>>
  BY DEF cuModuleGetFunction
<1>2. heap' \subseteq Addresses
  BY DEF cuModuleGetFunction, Fresh, Sound, Stored
<1> QED
  BY <1>1, <1>2, SameCells DEF Sound, Stored

LEMMA HandOverRefines ==
  ASSUME Sound, HandsOver
  PROVE  Stored' /\ [Globals!Next]_<<GlobalCells, DOMAIN globalStorage>>
  BY MemoryCallShows, LoadIsLoad, UnloadIsUnload, GetGlobalIsShow, GetFunctionShows
     DEF HandsOver

\* One value into one block.
LEMMA StoreRefines ==
  ASSUME Sound, UNCHANGED ownVars, NEW a \in Addresses, NEW v \in Contents,
         memory' = [memory EXCEPT ![a] = v]
  PROVE  Stored' /\ [Globals!Next]_<<GlobalCells, DOMAIN globalStorage>>
<1>1. UNCHANGED <<heap, modules, globalStorage>>
  BY DEF ownVars
<1>2. Stored'
  BY <1>1 DEF Sound, Stored
<1>3. ASSUME NEW ms \in DOMAIN globalStorage, globalStorage[ms] = a
      PROVE  Globals!Next
  <2>1. Owned /\ Stored
    BY DEF Sound
  <2> QED
    BY <1>1, <1>3, <2>1, StoreIsWrite
<1>4. CASE \A ms \in DOMAIN globalStorage : globalStorage[ms] # a
  <2>1. \A ms \in DOMAIN globalStorage : globalStorage[ms] \in Addresses
    BY DEF Sound, Owned, Stored, StorageBlocks
  <2>2. \A ms \in DOMAIN globalStorage :
          memory'[globalStorage[ms]] = memory[globalStorage[ms]]
    BY <1>4, <2>1 DEF Sound, Stored
  <2>3. UNCHANGED <<GlobalCells, DOMAIN globalStorage>>
    BY <1>1, <2>2, SameCells
  <2> QED
    BY <1>2, <2>3
<1> QED
  BY <1>2, <1>3, <1>4

LEMMA StillShows ==
  ASSUME Sound, UNCHANGED <<ownVars, memory>>
  PROVE  Stored' /\ UNCHANGED <<GlobalCells, DOMAIN globalStorage>>
  BY SameCells DEF Sound, Stored, ownVars

\* A kernel stores into the storage that its module had when it started.
LEMMA KernelRefines ==
  ASSUME Sound, NEW t \in HostThreads, LaunchStep(t), UNCHANGED <<ownVars, runtimeModules>>
  PROVE  Stored' /\ [Globals!Next]_<<GlobalCells, DOMAIN globalStorage>>
<1>1. CASE UNCHANGED memory
  BY <1>1, StillShows
<1>2. CASE ~UNCHANGED memory
  <2> DEFINE k == KernelOf(t)
             m == running[t].module
  <2>1. /\ running[t].phase = "executing" /\ k.touches \in DOMAIN globalBases
        /\ k.stores # NoStore
        /\ memory' = [memory EXCEPT ![globalBases[k.touches]] = k.stores]
    BY <1>2 DEF LaunchStep, LaunchRefused, execute_kernel, KernelAccess, LaunchEnd
  <2>2. running[t] \in Launches
    BY <2>1, IdleIsNoLaunch DEF Sound, Ranged, Typed, Idle
  <2>3. k.stores \in Contents
    <3>1. running[t].index \in DOMAIN running[t].image.kernels
      BY <2>2, IdleIsNoLaunch DEF Sound, Ranged, LaunchInRange
    <3>2. running[t].image.kernels \in Seq(Kernels)
      BY <2>2, ImagesAssumption DEF Launches
    <3>3. k \in Kernels
      BY <3>1, <3>2 DEF KernelOf
    <3> QED
      BY <2>1, <3>3 DEF Kernels
  <2>4. globalBases = BasesOf(m)
    BY <2>1 DEF Sound, BasesOfItsOwn
  <2>5. PICK ms \in DOMAIN globalStorage :
          ms[1] = m /\ ms[2] = k.touches /\ globalBases[k.touches] = globalStorage[<<m, k.touches>>]
    BY <2>1, <2>4 DEF BasesOf, StorageOf
  <2>6. ms = <<m, k.touches>>
    BY <2>5 DEF Sound, Stored
  <2>7. globalStorage[ms] \in Addresses
    BY DEF Sound, Owned, Stored, StorageBlocks
  <2> QED
    BY <2>1, <2>3, <2>5, <2>6, <2>7, StoreRefines
<1> QED
  BY <1>1, <1>2

LEMMA StepRefines ==
  ASSUME Sound, [Next]_vars
  PROVE  Stored' /\ [Globals!Next]_<<GlobalCells, DOMAIN globalStorage>>
<1>1. CASE HandsOver
  BY <1>1, HandOverRefines
<1>2. CASE Copies /\ UNCHANGED ownVars
  <2>0. PICK a \in Addresses : \E v : /\ v \in Contents \/ \E b \in Addresses : v = memory[b]
                                      /\ memory' = [memory EXCEPT ![a] = v]
    BY <1>2 DEF Copies
  <2>1. PICK v : /\ v \in Contents \/ \E b \in Addresses : v = memory[b]
                 /\ memory' = [memory EXCEPT ![a] = v]
    BY <2>0
  <2>2. v \in Contents
    BY <2>1 DEF Sound, Stored
  <2> QED
    BY <1>2, <2>1, <2>2, StoreRefines
<1>3. CASE UNCHANGED <<ownVars, memory>>
  BY <1>3, StillShows
<1>4. ASSUME NEW t \in HostThreads, LaunchStep(t), UNCHANGED <<ownVars, runtimeModules>>
      PROVE  Stored' /\ [Globals!Next]_<<GlobalCells, DOMAIN globalStorage>>
  BY <1>4, KernelRefines
<1>5. \A t, f, r : cuLaunchKernel(t, f, r) => UNCHANGED <<ownVars, memory>>
  BY DEF cuLaunchKernel, LaunchUnchanged, ctxVars, ownVars
<1>6. \A t, stub : LaunchRegistered(t, stub) => UNCHANGED <<ownVars, memory>>
  BY DEF LaunchRegistered, LaunchUnchanged, ctxVars, ownVars
<1>7. \A images : cudaRegisterFatBinary(images) => UNCHANGED <<ownVars, memory>>
  BY DEF cudaRegisterFatBinary, RegistrationUnchanged, driverVars, ctxVars, ownVars
<1> QED
  BY <1>1, <1>2, <1>3, <1>4, <1>5, <1>6, <1>7, StepKinds DEF Call, stateVars

\* With one host thread nothing changes the bases while a kernel executes.
LEMMA StepBases ==
  ASSUME Sound, NEW h, HostThreads = {h}, [Next]_vars
  PROVE  BasesOfItsOwn'
<1>1. CASE running'[h].phase # "executing"
  BY <1>1 DEF BasesOfItsOwn
<1>2. CASE UNCHANGED <<running, globalBases, globalStorage>>
  BY <1>2 DEF Sound, BasesOfItsOwn, BasesOf, StorageOf
<1>3. ASSUME Calls(h), Call(h)
      PROVE  running'[h].phase # "executing"
  <2>1. running[h] = Idle /\ h \in DOMAIN running
    BY <1>3 DEF Calls, Sound, Ranged, Typed
  <2>2. \A f, r : cuLaunchKernel(h, f, r) => \/ UNCHANGED running
                                             \/ \E image, i, m : Launch(h, image, i, m)
    BY DEF cuLaunchKernel
  <2>3. \A stub : LaunchRegistered(h, stub) => \/ UNCHANGED running
                                               \/ \E image, i, m : Launch(h, image, i, m)
    BY DEF LaunchRegistered
  <2>4. \A images : cudaRegisterFatBinary(images) => UNCHANGED running
    BY DEF cudaRegisterFatBinary, RegistrationUnchanged, driverVars, launchVars
  <2>5. CASE UNCHANGED running
    BY <2>1, <2>5 DEF Idle
  <2>6. ASSUME NEW image, NEW i, NEW m, Launch(h, image, i, m)
        PROVE  running'[h].phase # "executing"
    BY <2>1, <2>6 DEF Launch
  <2> QED
    BY <1>3, <2>2, <2>3, <2>4, <2>5, <2>6 DEF Call, stateVars
<1>4. ASSUME LaunchStep(h), UNCHANGED <<ownVars, runtimeModules>>
      PROVE  BasesOfItsOwn'
  <2>1. CASE execute_kernel(h)
    <3>1. running[h] \in Launches /\ h \in DOMAIN running
      BY <2>1 DEF execute_kernel, Idle, Sound, Ranged, Typed
    <3>2. running'[h].module = running[h].module
      BY <2>1, <3>1 DEF execute_kernel, Launches
    <3>3. UNCHANGED globalStorage /\ globalBases' = BasesOf(running[h].module)
      BY <1>4, <2>1 DEF execute_kernel, ownVars
    <3> QED
      BY <3>2, <3>3 DEF BasesOfItsOwn, BasesOf, StorageOf
  <2>2. CASE LaunchRefused(h) \/ KernelAccess(h) \/ LaunchEnd(h)
    <3>1. running[h] \in {Idle} \cup Launches /\ h \in DOMAIN running
      BY DEF Sound, Ranged, Typed
    <3>2. running'[h] = Idle \/ running'[h] = [running[h] EXCEPT !.phase = "ending"]
      BY <2>2, <3>1 DEF LaunchRefused, KernelAccess, LaunchEnd
    <3>3. running'[h].phase # "executing"
      BY <3>1, <3>2 DEF Idle, Launches
    <3> QED
      BY <1>1, <3>3
  <2> QED
    BY <1>4, <2>1, <2>2 DEF LaunchStep
<1>5. CASE UNCHANGED stateVars
  BY <1>2, <1>5 DEF stateVars, ownVars
<1> QED
  BY <1>1, <1>3, <1>4, <1>5, StepKinds

(* With one host thread the globals of the loaded modules behave as        *)
(* DeviceGlobals says, for every heap and all images: a cell per module    *)
(* and symbol, zero when the module is loaded, changed by writes alone.    *)
THEOREM GlobalsAreCells ==
  ASSUME NEW h, HostThreads = {h}
  PROVE  Spec => GlobalsSpec
<1>1. Init => Sound /\ Globals!Init
  <2>1. Init => Stored /\ BasesOfItsOwn
    BY ContentsAssumption DEF Init, DriverInit, Stored, BasesOfItsOwn, Idle
  <2>2. Init => Globals!Init
    BY DEF Init, DriverInit, Globals!Init, GlobalCells
  <2> QED
    BY <2>1, <2>2, InitOwned, InitRanged DEF Sound
<1>2. Sound /\ [Next]_vars => Sound'
  BY StepOwned, StepRanged, StepRefines, StepBases DEF Sound
<1>3. Sound /\ [Next]_vars => [Globals!Next]_<<GlobalCells, DOMAIN globalStorage>>
  BY StepRefines
<1> QED
  BY <1>1, <1>2, <1>3, PTL DEF Spec, GlobalsSpec, Globals!Spec, Globals!globalVars
=============================================================================
