----------------------------- MODULE DriverApi -----------------------------
(***************************************************************************)
(* The state the CUDA Driver API layer keeps (rouge-cuda/src/driver_api.cpp*)
(* and rouge_internal.h) and the calls that change it, when no real CUDA   *)
(* library is forwarded to.  Everything the layer hands out is a block of  *)
(* the process heap: device memory, pinned memory, the parsed module, the  *)
(* function handle, the storage of a module's globals.  The handle of a    *)
(* thing is the address of its block, and a freed block may be handed out  *)
(* again, so a handle may come to mean something else.                     *)
(*                                                                         *)
(* An image is a PTX text: whether it parses, its kernels in order and its *)
(* module-scope .global symbols.  Of a kernel the model keeps the symbol   *)
(* it touches, what it stores there (NoStore: it only loads), and how its  *)
(* run ends: "returns", "unsupported" (an instruction the interpreter does *)
(* not know, met after the access) or "dynamic" (refused at once, for its  *)
(* dynamic .shared).                                                       *)
(***************************************************************************)
EXTENDS Naturals, Sequences, FiniteSets

CONSTANTS HostThreads,
          Addresses,       \* the blocks of the heap
          Images,
          Symbols,         \* names of module globals
          NoSymbol,
          Contents,        \* what a block may hold; 0 is zeroed memory
          NoStore,
          MaxHandles       \* bound: function handles taken (never freed)

Kernels == [name : STRING, touches : Symbols \cup {NoSymbol},
            stores : Contents \cup {NoStore},
            ends : {"returns", "unsupported", "dynamic"}]

ASSUME ImagesAssumption ==
  \A i \in Images : /\ i.parses \in BOOLEAN
                    /\ i.kernels \in Seq(Kernels)
                    /\ i.globals \subseteq Symbols

ASSUME ContentsAssumption == 0 \in Contents /\ Contents \subseteq Nat

VARIABLES heap,            \* blocks malloc has given out
          memory,          \* what each block holds
          allocations,     \* ctx().allocations
          modules,         \* ctx().modules: address -> image
          functions,       \* ctx().functions: address -> [module, index]
          globalStorage,   \* ctx().globalStorage: <<module, symbol>> -> block
          untracked,       \* pinned memory and stream tokens
          current,         \* tls_current of each host thread
          running,         \* the launch each host thread is in
          globalBases,     \* g_global_bases, one for the process
          crashed          \* address zero was dereferenced

ctxVars == <<allocations, modules, functions, globalStorage, untracked>>
launchVars == <<running, globalBases, crashed>>
driverVars == <<heap, memory, ctxVars, current, launchVars>>

Idle == [phase |-> "idle"]
NoBases == << >>

With(f, a, v) == [x \in DOMAIN f \cup {a} |-> IF x = a THEN v ELSE f[x]]
Without(f, gone) == [x \in DOMAIN f \ gone |-> f[x]]

DriverInit ==
  /\ heap = {} /\ memory \in [Addresses -> {0}]
  /\ allocations = {} /\ untracked = {}
  /\ modules = << >> /\ functions = << >> /\ globalStorage = << >>
  /\ current = [t \in HostThreads |-> "none"]
  /\ running = [t \in HostThreads |-> Idle]
  /\ globalBases = NoBases
  /\ crashed = FALSE

\* The host threads that can make a call.
Calls(t) == ~crashed /\ running[t] = Idle

\* Blocks malloc may return.
Fresh == Addresses \ heap

-----------------------------------------------------------------------------
(* Contexts: one dummy context, current or not per host thread.            *)
CtxUnchanged == UNCHANGED <<heap, memory, ctxVars, launchVars>>

cuCtxCreate(t) == /\ current' = [current EXCEPT ![t] = "context"]
                  /\ CtxUnchanged

cuCtxSetCurrent(t, c) == /\ current' = [current EXCEPT ![t] = c]
                         /\ CtxUnchanged

cuCtxDestroy(t, c) ==
  /\ current' = [current EXCEPT ![t] = IF @ = c THEN "none" ELSE @]
  /\ CtxUnchanged

-----------------------------------------------------------------------------
(* Memory.  An action's r is the result the call returns.                  *)
MemUnchanged == UNCHANGED <<modules, functions, globalStorage, current, launchVars>>

cuMemAlloc(r) ==
  /\ \/ /\ r = "success"
        /\ \E a \in Fresh : /\ heap' = heap \cup {a}
                            /\ allocations' = allocations \cup {a}
     \/ /\ r = "out of memory"
        /\ UNCHANGED <<heap, allocations>>
  /\ UNCHANGED <<memory, untracked>> /\ MemUnchanged

\* Mutant of IsAllocation: any block is taken for device memory.
AnyBlock(a) == a \in heap

\* Does the layer know the address as one of its device allocations?
IsAllocation(a) == a \in allocations

cuMemFree(a, r) ==
  /\ \/ /\ r = "success" /\ IsAllocation(a)
        /\ allocations' = allocations \ {a}
        /\ heap' = heap \ {a}
     \/ /\ r = "invalid value" /\ ~IsAllocation(a)
        /\ UNCHANGED <<heap, allocations>>
  /\ UNCHANGED <<memory, untracked>> /\ MemUnchanged

\* Pinned memory and streams: plain blocks that are not recorded anywhere.
cuMemHostAlloc(r) ==
  /\ \/ /\ r = "success"
        /\ \E a \in Fresh : /\ heap' = heap \cup {a}
                            /\ untracked' = untracked \cup {a}
     \/ /\ r = "out of memory"
        /\ UNCHANGED <<heap, untracked>>
  /\ UNCHANGED <<memory, allocations>> /\ MemUnchanged

cuStreamCreate == cuMemHostAlloc("success")

\* Handing over anything but such a block is undefined: free() does not look.
cuMemFreeHost(a) ==
  /\ a \in untracked
  /\ untracked' = untracked \ {a}
  /\ heap' = heap \ {a}
  /\ UNCHANGED <<memory, allocations>> /\ MemUnchanged

cuStreamDestroy(a) == cuMemFreeHost(a)

\* What a program may hold a data pointer to.  (A pointer into the storage of
\* an unloaded module dangles, which is documented.)
DataBlocks == allocations \cup untracked
              \cup { globalStorage[ms] : ms \in DOMAIN globalStorage }

cuMemcpyHtoD(a, v) ==
  /\ a \in DataBlocks
  /\ memory' = [memory EXCEPT ![a] = v]
  /\ UNCHANGED <<heap, allocations, untracked>> /\ MemUnchanged

cuMemcpyDtoD(a, b) ==
  /\ a \in DataBlocks /\ b \in DataBlocks
  /\ memory' = [memory EXCEPT ![a] = memory[b]]
  /\ UNCHANGED <<heap, allocations, untracked>> /\ MemUnchanged

-----------------------------------------------------------------------------
(* Modules.                                                                *)
ModUnchanged == UNCHANGED <<allocations, untracked, current, launchVars>>

cuModuleLoadData(image, r) ==
  /\ \/ /\ r = "success" /\ image.parses
        /\ \E a \in Fresh : /\ heap' = heap \cup {a}
                            /\ modules' = With(modules, a, image)
     \/ /\ r = "invalid value" /\ ~image.parses
        /\ UNCHANGED <<heap, modules>>
  /\ UNCHANGED <<memory, functions, globalStorage>> /\ ModUnchanged

\* Mutant of StorageOf: unloading forgets the storage of the globals.
NoStorage(m) == {}

\* The storage entries that cuModuleUnload drops along with the module.
StorageOf(m) == { ms \in DOMAIN globalStorage : ms[1] = m }

cuModuleUnload(m, r) ==
  /\ \/ /\ r = "success" /\ m \in DOMAIN modules
        /\ modules' = Without(modules, {m})
        /\ globalStorage' = Without(globalStorage, StorageOf(m))
        /\ heap' = heap \ ({m} \cup { globalStorage[ms] : ms \in StorageOf(m) })
     \/ /\ r = "invalid value" /\ m \notin DOMAIN modules
        /\ UNCHANGED <<modules, globalStorage, heap>>
  /\ UNCHANGED <<memory, functions>> /\ ModUnchanged

\* functionIndex: where the image has a kernel of that name (0: nowhere; of
\* two kernels with one name, the later).
FunctionIndex(image, name) ==
  LET found == { i \in DOMAIN image.kernels : image.kernels[i].name = name }
  IN  IF found = {} THEN 0 ELSE CHOOSE i \in found : \A j \in found : j <= i

cuModuleGetFunction(m, name, r) ==
  /\ \/ /\ r = "success" /\ m \in DOMAIN modules
        /\ FunctionIndex(modules[m], name) # 0
        /\ Cardinality(DOMAIN functions) < MaxHandles
        /\ \E a \in Fresh :
             /\ heap' = heap \cup {a}
             /\ functions' =
                  With(functions, a,
                       [module |-> m, index |-> FunctionIndex(modules[m], name)])
     \/ /\ \/ r = "invalid handle" /\ m \notin DOMAIN modules
           \/ /\ r = "invalid value" /\ m \in DOMAIN modules
              /\ FunctionIndex(modules[m], name) = 0
        /\ UNCHANGED <<heap, functions>>
  /\ UNCHANGED <<memory, modules, globalStorage>> /\ ModUnchanged

\* Mutant of Zeroed: the storage keeps what the block held.
NotZeroed(a) == memory

\* store.assign(nbytes, 0)
Zeroed(a) == [memory EXCEPT ![a] = 0]

\* The storage is made at the first request and found again at the next.
cuModuleGetGlobal(m, s, r) ==
  /\ \/ /\ r = "success" /\ m \in DOMAIN modules /\ s \in modules[m].globals
        /\ \/ /\ <<m, s>> \in DOMAIN globalStorage
              /\ UNCHANGED <<heap, memory, globalStorage>>
           \/ /\ <<m, s>> \notin DOMAIN globalStorage
              /\ \E a \in Fresh :
                   /\ heap' = heap \cup {a}
                   /\ memory' = Zeroed(a)
                   /\ globalStorage' = With(globalStorage, <<m, s>>, a)
     \/ /\ \/ r = "invalid handle" /\ m \notin DOMAIN modules
           \/ /\ r = "invalid value" /\ m \in DOMAIN modules
              /\ s \notin modules[m].globals
        /\ UNCHANGED <<heap, memory, globalStorage>>
  /\ UNCHANGED <<modules, functions>> /\ ModUnchanged

-----------------------------------------------------------------------------
(* Launching.  A launch holds the calling host thread until the kernel has *)
(* ended; its phases are visible to the other host threads.                *)
LaunchUnchanged == UNCHANGED <<heap, ctxVars, current>>

\* Mutant of KernelExists: the bounds check is missing.
AnyKernel(image, i) == TRUE

\* Is i the index of a kernel of the image?
KernelExists(image, i) == i \in DOMAIN image.kernels

Launch(t, image, i, m) ==
  running' = [running EXCEPT ![t] = [phase |-> "marshal", image |-> image,
                                     index |-> i, module |-> m]]

\* cuLaunchKernel up to the copying of the parameters.
cuLaunchKernel(t, f, r) ==
  /\ LET known == f \in DOMAIN functions
         loaded == known /\ functions[f].module \in DOMAIN modules
         exists == loaded /\ KernelExists(modules[functions[f].module],
                                          functions[f].index)
     IN  \/ /\ r = "accepted" /\ exists
            /\ Launch(t, modules[functions[f].module], functions[f].index,
                      functions[f].module)
         \/ /\ \/ r = "invalid handle" /\ ~loaded
               \/ r = "invalid value" /\ loaded /\ ~exists
            /\ UNCHANGED running
  /\ UNCHANGED <<memory, globalBases, crashed>> /\ LaunchUnchanged

\* The bases a launch hands to execute_kernel: the module's globals that have
\* storage.  The Runtime API path (module NoModule) hands over none.
BasesOf(m) == [ s \in { ms[2] : ms \in StorageOf(m) } |-> globalStorage[<<m, s>>] ]

KernelOf(t) == running[t].image.kernels[running[t].index]

\* A null or misfit kernel parameter, or a kernel with dynamic .shared: the
\* launch is refused before anything of it has run.
LaunchRefused(t) ==
  /\ ~crashed /\ running[t].phase = "marshal"
  /\ running' = [running EXCEPT ![t] = Idle]
  /\ UNCHANGED <<memory, globalBases, crashed>> /\ LaunchUnchanged

execute_kernel(t) ==
  /\ ~crashed /\ running[t].phase = "marshal"
  /\ KernelOf(t).ends # "dynamic"
  /\ globalBases' = BasesOf(running[t].module)
  /\ running' = [running EXCEPT ![t].phase = "executing"]
  /\ UNCHANGED <<memory, crashed>> /\ LaunchUnchanged

\* The kernel's access to a module global: the symbol is looked up in
\* g_global_bases; a symbol that is not there is a register that reads zero.
KernelAccess(t) ==
  /\ ~crashed /\ running[t].phase = "executing"
  /\ LET k == KernelOf(t)
     IN  /\ \/ /\ k.touches = NoSymbol
               /\ UNCHANGED <<memory, crashed>>
            \/ /\ k.touches \in DOMAIN globalBases
               /\ memory' = IF k.stores = NoStore THEN memory
                            ELSE [memory EXCEPT ![globalBases[k.touches]] = k.stores]
               /\ UNCHANGED crashed
            \/ /\ k.touches \in Symbols \ DOMAIN globalBases
               /\ crashed' = TRUE
               /\ UNCHANGED memory
  /\ running' = [running EXCEPT ![t].phase = "ending"]
  /\ UNCHANGED globalBases /\ LaunchUnchanged

\* execute_kernel's return, with success or on an unsupported instruction.
LaunchEnd(t) ==
  /\ ~crashed /\ running[t].phase = "ending"
  /\ globalBases' = NoBases
  /\ running' = [running EXCEPT ![t] = Idle]
  /\ UNCHANGED <<memory, crashed>> /\ LaunchUnchanged

LaunchStep(t) ==
  LaunchRefused(t) \/ execute_kernel(t) \/ KernelAccess(t) \/ LaunchEnd(t)
=============================================================================
