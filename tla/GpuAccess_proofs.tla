------------------------- MODULE GpuAccess_proofs ---------------------------
(***************************************************************************)
(* Theorems about the use of the GPU, for every finite set of processes,   *)
(* every object and every timeout: whatever opens, refusals, failures,     *)
(* signals and deaths overlap, one process holds the device, nothing is    *)
(* left behind, and what it writes into RAMIN arrives there.               *)
(***************************************************************************)
EXTENDS GpuAccess, FiniteSetTheorems, SequenceTheorems, TLAPS

(* The part of the invariant that does not mention the programs.  A        *)
(* process in open or release has neither descriptor nor mapping, the one  *)
(* that waits for its setup has a context, and nothing has failed for good *)
(* while somebody holds the device.                                        *)
DeviceTypes ==
  /\ available \in Int
  /\ context \in BOOLEAN /\ broken \in BOOLEAN
  /\ call \in [Procs -> Calls]
  /\ looks \in [Procs -> 1 .. Looks]
  /\ file \subseteq Procs
  /\ maps \in [Procs -> SUBSET Segments]

Accounted == available = 1 - Cardinality(Counted) - (IF broken THEN 1 ELSE 0)

NotYet == \A p \in Procs :
  call[p] \in OpenCalls \cup ReleaseCalls \cup {"error"}
    => p \notin file /\ maps[p] = {}

SetupHasContext == \A p \in Procs : call[p] = "setup" => context

HoldersSound == \A p \in Procs : Holds(p) => ~broken

DInv ==
  /\ DeviceTypes /\ Accounted /\ OneOwner /\ ContextLives
  /\ NotYet /\ SetupHasContext /\ HoldersSound

-----------------------------------------------------------------------------
LEMMA CountedFinite ==
  Counted \subseteq Procs /\ IsFiniteSet(Counted) /\ Cardinality(Counted) \in Nat
<1>1. Counted \subseteq Procs
  BY DEF Counted
<1>2. QED  BY <1>1, DeviceAssumption, FS_Subset, FS_CardinalityType

(* Steps after which the same processes count.                             *)
LEMMA SameCount ==
  ASSUME Accounted, Counted' = Counted,
         UNCHANGED <<available, broken>>
  PROVE  Accounted'
BY DEF Accounted

LEMMA OneMore ==
  ASSUME DeviceTypes, Accounted, NEW p \in Procs, p \notin Counted,
         Counted' = Counted \cup {p},
         available' = available - 1, UNCHANGED broken
  PROVE  Accounted'
<1>1. Cardinality(Counted') = Cardinality(Counted) + 1
  BY CountedFinite, FS_AddElement
<1>2. QED  BY <1>1, CountedFinite DEF Accounted, DeviceTypes

LEMMA OneLess ==
  ASSUME DeviceTypes, Accounted, NEW p \in Counted,
         Counted' = Counted \ {p},
         \/ available' = available + 1 /\ UNCHANGED broken
         \/ UNCHANGED available /\ ~broken /\ broken'
  PROVE  Accounted'
<1>1. Cardinality(Counted') = Cardinality(Counted) - 1
  BY CountedFinite, FS_RemoveElement
<1>2. QED  BY <1>1, CountedFinite DEF Accounted, DeviceTypes

-----------------------------------------------------------------------------
(* Only an open that finds the device with nobody and unbroken is let in.  *)
LEMMA TakeStep ==
  ASSUME DInv, NEW p \in Procs, OpenTake(p), p \notin file, maps[p] = {}
  PROVE  DInv'
<1> USE DEF DInv
<1>0. p \notin Counted /\ Counted' = Counted \cup {p}
  BY DEF OpenTake, Enter, Counted, Holds, DeviceTypes, ReleaseCalls
<1>1. DeviceTypes'
  BY DEF OpenTake, Enter, DeviceTypes, Calls, OpenCalls
<1>2. Accounted'
  BY <1>0, OneMore DEF OpenTake
<1>3. CASE available = 1
  <2>1. Cardinality(Counted) = 0 /\ ~broken
    BY <1>3, CountedFinite DEF Accounted, DeviceTypes
  <2>2. Counted = {}
    BY <2>1, CountedFinite, FS_EmptySet
  <2>3. \A q \in Procs : Holds(q)' => q = p
    BY <2>2, <1>0 DEF Counted
  <2>4. OneOwner' /\ HoldersSound'
    BY <2>1, <2>3 DEF OpenTake, OneOwner, HoldersSound
  <2>5. QED
    BY <1>1, <1>2, <1>3, <2>4
    DEF OpenTake, Enter, ContextLives, NotYet, SetupHasContext, DeviceTypes
<1>4. CASE available # 1
  <2>1. \A q \in Procs : Holds(q)' <=> Holds(q)
    BY <1>4 DEF OpenTake, Enter, Holds, DeviceTypes, ReleaseCalls
  <2>2. OneOwner' /\ HoldersSound'
    BY <2>1 DEF OpenTake, OneOwner, HoldersSound
  <2>3. QED
    BY <1>1, <1>2, <1>4, <2>2
    DEF OpenTake, Enter, ContextLives, NotYet, SetupHasContext, DeviceTypes
<1>5. QED  BY <1>3, <1>4

LEMMA RefuseStep ==
  ASSUME DInv, NEW p \in Procs, OpenRefuse(p)
  PROVE  DInv'
<1> USE DEF DInv
<1>0. /\ \A q \in Procs : Holds(q)' <=> Holds(q)
      /\ p \notin file /\ maps[p] = {}
  BY DEF OpenRefuse, Enter, Holds, DeviceTypes, ReleaseCalls, NotYet, OpenCalls
<1>1. p \in Counted /\ Counted' = Counted \ {p}
  BY <1>0 DEF OpenRefuse, Enter, Counted, Holds, DeviceTypes, ReleaseCalls
<1>2. DeviceTypes'
  BY DEF OpenRefuse, Enter, DeviceTypes, Calls, Returns
<1>3. Accounted'
  BY <1>1, OneLess DEF OpenRefuse
<1>4. OneOwner' /\ HoldersSound'
  BY <1>0 DEF OpenRefuse, OneOwner, HoldersSound
<1>5. QED
  BY <1>0, <1>2, <1>3, <1>4
  DEF OpenRefuse, Enter, ContextLives, NotYet, SetupHasContext, DeviceTypes

(* The holder goes on holding: what is asked of it after the step, and of  *)
(* the others nothing, for they hold nothing.                              *)
LEMMA HolderStep ==
  ASSUME DInv, NEW p \in Procs, Holds(p), Holds(p)', DeviceTypes',
         \A q \in Procs \ {p} : /\ call'[q] = call[q]
                                /\ q \in file' <=> q \in file
                                /\ maps'[q] = maps[q],
         UNCHANGED <<available, broken>>,
         call'[p] \in OpenCalls \cup ReleaseCalls \cup {"error"}
           => p \notin file' /\ maps'[p] = {},
         p \in file' \/ maps'[p] # {} \/ call'[p] = "setup" => context'
  PROVE  DInv'
<1> USE DEF DInv
<1>1. \A q \in Procs : Holds(q)' <=> Holds(q)
  BY DEF Holds
<1>2. \A q \in Procs \ {p} : ~Holds(q)
  BY DEF OneOwner
<1>3. \A q \in Procs :
        Holds(q)' \/ call'[q] = "refuse" <=> Holds(q) \/ call[q] = "refuse"
  BY <1>1
<1>4. Counted' = Counted
  BY <1>3 DEF Counted
<1>5. Accounted'
  BY <1>4, SameCount
<1>6. OneOwner' /\ HoldersSound'
  BY <1>1 DEF OneOwner, HoldersSound
<1>7. ContextLives' /\ SetupHasContext'
  BY <1>2 DEF ContextLives, SetupHasContext, Holds
<1>8. NotYet'
  BY DEF NotYet
<1>9. QED  BY <1>5, <1>6, <1>7, <1>8

(* The holder stops holding, by its release or by failing for good.        *)
LEMMA LastStep ==
  ASSUME DInv, NEW p \in Procs, Holds(p), DeviceTypes',
         p \notin file, maps[p] = {}, UNCHANGED <<file, maps>>,
         \A q \in Procs \ {p} : call'[q] = call[q],
         call'[p] \in {"none", "error"},
         \/ available' = available + 1 /\ UNCHANGED broken
         \/ UNCHANGED available /\ broken'
  PROVE  DInv'
<1> USE DEF DInv
<1>1. \A q \in Procs \ {p} : ~Holds(q)
  BY DEF OneOwner
<1>2. \A q \in Procs : ~Holds(q)'
  BY <1>1 DEF Holds, ReleaseCalls
<1>3. p \in Counted /\ Counted' = Counted \ {p}
  BY <1>1, <1>2 DEF Counted
<1>4. Accounted'
  BY <1>3, OneLess DEF HoldersSound
<1>5. OneOwner' /\ HoldersSound' /\ ContextLives'
  BY <1>2 DEF OneOwner, HoldersSound, ContextLives, Holds
<1>6. NotYet' /\ SetupHasContext'
  BY <1>1, <1>2 DEF NotYet, SetupHasContext, Holds, ReleaseCalls
<1>7. QED  BY <1>4, <1>5, <1>6

LEMMA ReturnedStep ==
  ASSUME DInv, NEW p \in Procs, call[p] \in Returns, Enter(p, "none"),
         UNCHANGED <<available, context, broken, looks, file, maps>>
  PROVE  DInv'
<1> USE DEF DInv
<1>1. \A q \in Procs : /\ Holds(q)' <=> Holds(q)
                       /\ call'[q] = "refuse" <=> call[q] = "refuse"
  BY DEF Enter, Holds, DeviceTypes, ReleaseCalls, Returns
<1>2. Counted' = Counted
  BY <1>1 DEF Counted
<1>3. Accounted' /\ OneOwner' /\ HoldersSound'
  BY <1>1, <1>2, SameCount DEF OneOwner, HoldersSound
<1>4. DeviceTypes'
  BY DEF Enter, DeviceTypes, Calls
<1>5. QED
  BY <1>3, <1>4
  DEF Enter, ContextLives, NotYet, SetupHasContext, DeviceTypes, OpenCalls,
      ReleaseCalls

(* One turn of the wait stays, is done, or gives up.                       *)
LEMMA LookStep ==
  ASSUME DeviceTypes, NEW p \in Procs, NEW met, NEW done, NEW timedOut,
         FifoLook(p, met, done, timedOut), done \in Calls, timedOut \in Calls
  PROVE  /\ call' \in [Procs -> Calls] /\ looks' \in [Procs -> 1 .. Looks]
         /\ call'[p] \in {call[p], done, timedOut}
         /\ \A q \in Procs \ {p} : call'[q] = call[q]
BY DeviceAssumption DEF FifoLook, Enter, DeviceTypes

LEMMA AllocateStep ==
  ASSUME DInv, NEW p \in Procs, Allocate(p)
  PROVE  DInv'
<1> USE DEF DInv
<1>1. Holds(p) /\ p \notin file /\ maps[p] = {}
  BY DEF Allocate, Holds, NotYet, OpenCalls
<1>2. DeviceTypes'
  BY DEF Allocate, Enter, DeviceTypes, Calls, OpenCalls, Returns
<1>3. CASE call'[p] = "setup"
  <2>1. UNCHANGED <<available, broken, file, maps>> /\ context'
    BY <1>3 DEF Allocate, Enter, DeviceTypes
  <2>2. Holds(p)'
    BY <1>3 DEF Holds
  <2>3. \A q \in Procs \ {p} : call'[q] = call[q]
    BY DEF Allocate, Enter, DeviceTypes
  <2>4. QED  BY <1>1, <1>2, <1>3, <2>1, <2>2, <2>3, HolderStep
<1>4. CASE call'[p] = "error"
  <2>1. UNCHANGED <<available, file, maps>> /\ broken'
    BY <1>4 DEF Allocate, Enter, DeviceTypes
  <2>2. \A q \in Procs \ {p} : call'[q] = call[q]
    BY DEF Allocate, Enter, DeviceTypes
  <2>3. QED  BY <1>1, <1>2, <1>4, <2>1, <2>2, LastStep
<1>5. QED  BY <1>3, <1>4 DEF Allocate, Enter, DeviceTypes

LEMMA SetupStep ==
  ASSUME DInv, NEW p \in Procs, SetupLook(p)
  PROVE  DInv'
<1> USE DEF DInv
<1>1. Holds(p) /\ p \notin file /\ maps[p] = {} /\ context
  BY DEF SetupLook, Holds, NotYet, OpenCalls, SetupHasContext
<1>2. /\ call' \in [Procs -> Calls] /\ looks' \in [Procs -> 1 .. Looks]
      /\ call'[p] \in {"setup", "ok", "error"}
      /\ \A q \in Procs \ {p} : call'[q] = call[q]
  BY LookStep DEF SetupLook, Calls, Returns
<1>3. DeviceTypes'
  BY <1>2 DEF SetupLook, DeviceTypes
<1>4. CASE call'[p] = "error"
  BY <1>1, <1>2, <1>3, <1>4, LastStep DEF SetupLook
<1>5. CASE call'[p] = "setup"
  <2>1. Holds(p)'
    BY <1>5 DEF Holds
  <2>2. QED  BY <1>1, <1>2, <1>3, <1>5, <2>1, HolderStep DEF SetupLook
<1>6. CASE call'[p] = "ok"
  <2>1. Holds(p)'
    BY <1>6 DEF SetupLook, Holds
  <2>2. QED
    BY <1>1, <1>2, <1>3, <1>6, <2>1, HolderStep
    DEF SetupLook, OpenCalls, ReleaseCalls
<1>7. QED  BY <1>2, <1>4, <1>5, <1>6

LEMMA MmapStep ==
  ASSUME DInv, NEW p \in Procs, NEW segment \in Segments, Mmap(p, segment)
  PROVE  DInv'
<1> USE DEF DInv
<1>1. DeviceTypes'
  BY DEF Mmap, DeviceTypes
<1>2. Holds(p) /\ Holds(p)'
  BY DEF Mmap, Holds
<1>3. context' /\ call[p] \notin OpenCalls \cup ReleaseCalls \cup {"error"}
  BY DEF Mmap, ContextLives, NotYet
<1>4. QED
  BY <1>1, <1>2, <1>3, HolderStep DEF Mmap, DeviceTypes

(* Giving up references frees nothing while one is left.                   *)
LEMMA DropStep ==
  ASSUME DInv, NEW p \in Procs, NEW segments, call[p] = "none",
         Drop(p, {p}, segments) \/ Drop(p, {}, segments)
  PROVE  DInv'
<1> USE DEF DInv
<1>1. DeviceTypes'
  BY DEF Drop, Enter, DeviceTypes, Calls, ReleaseCalls
<1>2. \A q \in Procs \ {p} : /\ call'[q] = call[q]
                             /\ q \in file' <=> q \in file
                             /\ maps'[q] = maps[q]
  BY DEF Drop, Enter, DeviceTypes
<1>3. CASE Holds(p)
  <2>1. Holds(p)'
    BY <1>3 DEF Drop, Enter, Holds, DeviceTypes, ReleaseCalls
  <2>2. p \in file' \/ maps'[p] # {} => call'[p] = "none" /\ context'
    BY <1>3 DEF Drop, Enter, ContextLives, DeviceTypes
  <2>3. call'[p] \in {"none", "free"}
    BY DEF Drop, Enter, DeviceTypes
  <2>4. QED
    BY <1>1, <1>2, <1>3, <2>1, <2>2, <2>3, HolderStep
    DEF Drop, OpenCalls, ReleaseCalls
<1>4. CASE ~Holds(p)
  <2>1. UNCHANGED <<available, context, broken, looks, file, maps, call>>
    BY <1>4 DEF Drop, Enter, Holds, DeviceTypes
  <2>2. QED
    BY <2>1
    DEF DeviceTypes, Accounted, Counted, OneOwner, Holds, ContextLives, NotYet,
        SetupHasContext, HoldersSound
<1>5. QED  BY <1>3, <1>4

LEMMA FreeStep ==
  ASSUME DInv, NEW p \in Procs, ReleaseFree(p)
  PROVE  DInv'
<1> USE DEF DInv
<1>1. DeviceTypes'
  BY DEF ReleaseFree, Enter, DeviceTypes, Calls, ReleaseCalls
<1>2. Holds(p) /\ Holds(p)' /\ call'[p] = "giveBack"
  BY DEF ReleaseFree, Enter, Holds, DeviceTypes, ReleaseCalls
<1>3. p \notin file /\ maps[p] = {}
  BY DEF ReleaseFree, NotYet, ReleaseCalls
<1>4. QED
  BY <1>1, <1>2, <1>3, HolderStep DEF ReleaseFree, Enter, DeviceTypes

LEMMA GiveBackStep ==
  ASSUME DInv, NEW p \in Procs, ReleaseGiveBack(p)
  PROVE  DInv'
<1> USE DEF DInv
<1>1. DeviceTypes'
  BY DEF ReleaseGiveBack, Enter, DeviceTypes, Calls
<1>2. Holds(p) /\ p \notin file /\ maps[p] = {}
  BY DEF ReleaseGiveBack, Holds, NotYet, ReleaseCalls
<1>3. QED
  BY <1>1, <1>2, LastStep DEF ReleaseGiveBack, Enter, DeviceTypes

-----------------------------------------------------------------------------
(* What the place of a program says of its hold on the device.             *)
PlacedAt(p) ==
  /\ call[p] \in OpenCalls \cup Returns => pc[p] = At("init", 5)
  /\ pc[p].at = "init" => call[p] \notin ReleaseCalls
  /\ pc[p] = Idle \/ (pc[p].at = "init" /\ pc[p].n <= 5 /\ call[p] # "ok")
       => p \notin file /\ maps[p] = {}

Placed == \A p \in Procs : PlacedAt(p)

LibTypes ==
  /\ pc \in [Procs -> PCs]
  /\ saved \in [Procs -> PCs]
  /\ \A p \in Procs : saved[p] = Idle \/ saved[p].at = "undo"
  /\ armed \subseteq Procs
  /\ fb \subseteq Procs
  /\ direct \in 0 .. MaxDirect

GpuTypes ==
  /\ fifo \in Seq(Commands) /\ engine \in Seq(Commands)
  /\ ramin \in [Words -> Writers]
  /\ vram \in [Offsets -> Writers]

IInv == DInv /\ Placed /\ LibTypes /\ GpuTypes

LEMMA InitIInv == Init => IInv
<1> SUFFICES ASSUME Init PROVE IInv  OBVIOUS
<1> USE DEF Init, DeviceInit
<1>1. \A p \in Procs : ~Holds(p)
  BY DEF Holds, ReleaseCalls
<1>2. Counted = {}
  BY <1>1 DEF Counted
<1>3. Accounted
  BY <1>2, FS_EmptySet DEF Accounted
<1>4. DeviceTypes
  <2>1. looks \in [Procs -> 1 .. Looks]
    BY DeviceAssumption
  <2>2. call \in [Procs -> Calls] /\ maps \in [Procs -> SUBSET Segments]
    BY DEF Calls
  <2>3. context \in BOOLEAN /\ broken \in BOOLEAN
    OBVIOUS
  <2>4. available \in Int
    OBVIOUS
  <2>5. file \subseteq Procs
    OBVIOUS
  <2>6. QED  BY <2>1, <2>2, <2>3, <2>4, <2>5 DEF DeviceTypes
<1>5. DInv
  BY <1>1, <1>3, <1>4
  DEF DInv, OneOwner, ContextLives, NotYet, SetupHasContext, HoldersSound
<1>6. Placed
  BY DEF Placed, PlacedAt, OpenCalls, ReleaseCalls, Returns, Idle, At
<1>7. LibTypes
  BY LibAssumption DEF LibTypes, PCs
<1>8. GpuTypes
  BY DEF GpuTypes, Writers
<1>9. QED  BY <1>5, <1>6, <1>7, <1>8 DEF IInv

(* Where a program's steps lead.                                           *)
LEMMA Places ==
  /\ Idle \in PCs
  /\ \A n \in 1 .. 12 : At("init", n) \in PCs
  /\ \A n \in 1 .. 9 : At("undo", n) \in PCs
  /\ \A u \in Uses : \A n \in 1 .. Len(Object) : At(u, n) \in PCs
  /\ \A x \in PCs : x.at = "init" => x.n \in 1 .. 12 /\ x = At("init", x.n)
  /\ \A x \in PCs : x.at = "undo" => x.n \in 1 .. 9 /\ x = At("undo", x.n)
  /\ \A x \in PCs : x.at \in Uses => x.n \in 1 .. Len(Object)
  /\ Idle.at = "idle"
  /\ \A a, n : At(a, n).at = a /\ At(a, n).n = n
BY DEF PCs, Idle, At, Uses

LEMMA FailPlaces == \A n \in 1 .. 12 : FailsTo[n] \in 1 .. 9
BY DEF FailsTo

LEMMA OpenRsxIsFifth == \A n \in 1 .. 12 : InitSteps[n] = "open rsx" => n = 5
<1> TAKE n \in 1 .. 12
<1>1. n \in {1, 2, 3, 4, 5, 6, 7, 8, 9, 10, 11, 12}
  OBVIOUS
<1>2. /\ InitSteps[1] = "open fb" /\ InitSteps[2] = "screen info"
      /\ InitSteps[3] = "on" /\ InitSteps[4] = "vsync"
      /\ InitSteps[6] = "context info" /\ InitSteps[7] = "xram"
      /\ InitSteps[8] = "vram" /\ InitSteps[9] = "fifo"
      /\ InitSteps[10] = "ctrl" /\ InitSteps[11] = "reports"
      /\ InitSteps[12] = "exclusive"
  BY DEF InitSteps
<1>3. QED  BY <1>1, <1>2

-----------------------------------------------------------------------------
LEMMA DeviceSame ==
  ASSUME DInv, UNCHANGED deviceVars
  PROVE  DInv'
BY DEF deviceVars, DInv, DeviceTypes, Accounted, Counted, OneOwner, Holds,
       ContextLives, NotYet, SetupHasContext, HoldersSound

LEMMA KernelKeepsDevice ==
  ASSUME DInv, KernelStep
  PROVE  DInv'
<1>1. CASE Fetch \/ Execute
  BY <1>1, DeviceSame DEF Fetch, Execute
<1>2. ASSUME NEW p \in Procs,
             \/ OpenRefuse(p) \/ Allocate(p) \/ SetupLook(p)
             \/ ReleaseFree(p) \/ ReleaseGiveBack(p)
      PROVE  DInv'
  BY <1>2, RefuseStep, AllocateStep, SetupStep, FreeStep, GiveBackStep
<1>3. QED  BY <1>1, <1>2 DEF KernelStep

LEMMA ProgramsKeepDevice ==
  ASSUME IInv, Next, ~(KernelStep /\ UNCHANGED libVars)
  PROVE  DInv'
<1> USE DEF IInv
<1>1. PICK p \in Procs :
        \/ Start(p) \/ Look(p) \/ OpenFb(p) \/ On(p) \/ OpenRsx(p)
        \/ MapResource(p) \/ Exclusive(p) \/ Returned(p)
        \/ ReadLine(p) \/ WaitFetched(p) \/ Patch(p) \/ WriteLine(p)
        \/ WaitWritten(p)
        \/ Undo(p) \/ Return(p) \/ Sigint(p) \/ Kill(p)
  BY DEF Next
<1>2. CASE \/ Start(p) \/ Look(p) \/ OpenFb(p) \/ On(p) \/ Exclusive(p)
           \/ ReadLine(p) \/ WaitFetched(p) \/ Patch(p) \/ WriteLine(p)
           \/ WaitWritten(p) \/ Sigint(p)
  BY <1>2, DeviceSame
  DEF Start, Look, OpenFb, On, Exclusive, ExclusiveMayFail, ReadLine, Push,
      WaitFetched, Patch, WriteLine, WaitWritten, Sigint
<1>3. CASE OpenRsx(p)
  <2>1. pc[p].at = "init" /\ pc[p].n = 5
    BY <1>3, Places, OpenRsxIsFifth DEF OpenRsx, InitAt, LibTypes
  <2>2. call[p] = "none"
    BY <1>3 DEF OpenRsx, OpenTake
  <2>3. p \notin file /\ maps[p] = {}
    BY <2>1, <2>2 DEF Placed, PlacedAt
  <2>4. QED  BY <1>3, <2>3, TakeStep DEF OpenRsx
<1>4. CASE MapResource(p)
  <2>1. InitSteps[pc[p].n] \in Segments
    BY <1>4 DEF MapResource, InitAt
  <2>2. QED  BY <1>4, <2>1, MmapStep, DeviceSame DEF MapResource
<1>5. CASE Returned(p)
  BY <1>5, ReturnedStep DEF Returned
<1>6. CASE Undo(p)
  BY <1>6, DropStep, DeviceSame DEF Undo
<1>7. CASE Return(p) \/ Kill(p)
  BY <1>7, DropStep, DeviceSame DEF Return, Kill, Exit
<1>8. QED  BY <1>1, <1>2, <1>3, <1>4, <1>5, <1>6, <1>7

LEMMA KernelKeepsGpu ==
  ASSUME GpuTypes, KernelStep
  PROVE  GpuTypes'
<1> USE DEF GpuTypes
<1>1. CASE Fetch
  <2>1. Head(fifo) \in Commands /\ Tail(fifo) \in Seq(Commands)
    BY <1>1 DEF Fetch
  <2>2. QED  BY <1>1, <2>1 DEF Fetch
<1>2. CASE Execute
  <2>1. Head(engine) \in Commands /\ Tail(engine) \in Seq(Commands)
    BY <1>2 DEF Execute
  <2>2. vram' \in [Offsets -> Writers]
    <3>1. CASE Head(engine).op = "read"
      <4>1. Head(engine).line \in Lines
        BY <2>1, <3>1 DEF Commands
      <4>2. QED  BY <1>2, <3>1, <4>1 DEF Execute, Words
    <3>2. QED  BY <1>2, <3>1 DEF Execute
  <2>3. ramin' \in [Words -> Writers]
    BY <1>2 DEF Execute, Words
  <2>4. QED  BY <1>2, <2>1, <2>2, <2>3 DEF Execute
<1>3. ASSUME NEW p \in Procs,
             \/ OpenRefuse(p) \/ Allocate(p) \/ SetupLook(p)
             \/ ReleaseFree(p) \/ ReleaseGiveBack(p)
      PROVE  GpuTypes'
  <2>1. UNCHANGED <<engine, ramin, vram>>
    BY <1>3
    DEF OpenRefuse, Allocate, SetupLook, ReleaseFree, ReleaseGiveBack, gpuVars
  <2>2. fifo' \in {fifo, <<>>, <<[op |-> "setup"]>>}
    BY <1>3
    DEF OpenRefuse, Allocate, SetupLook, ReleaseFree, ReleaseGiveBack, gpuVars
  <2>3. [op |-> "setup"] \in Commands
    BY DEF Commands
  <2>4. <<>> \in Seq(Commands) /\ <<[op |-> "setup"]>> \in Seq(Commands)
    BY <2>3
  <2>5. fifo' \in Seq(Commands)
    BY <2>2, <2>4
  <2>6. QED  BY <2>1, <2>5
<1>4. QED  BY <1>1, <1>2, <1>3 DEF KernelStep

LEMMA ProgramsKeepGpu ==
  ASSUME IInv, Next, ~(KernelStep /\ UNCHANGED libVars)
  PROVE  GpuTypes'
<1> USE DEF IInv, GpuTypes
<1>1. PICK p \in Procs :
        \/ Start(p) \/ Look(p) \/ OpenFb(p) \/ On(p) \/ OpenRsx(p)
        \/ MapResource(p) \/ Exclusive(p) \/ Returned(p)
        \/ ReadLine(p) \/ WaitFetched(p) \/ Patch(p) \/ WriteLine(p)
        \/ WaitWritten(p)
        \/ Undo(p) \/ Return(p) \/ Sigint(p) \/ Kill(p)
  BY DEF Next
<1>2. CASE ReadLine(p) \/ WriteLine(p)
  <2>1. pc[p].n \in 1 .. Len(Object)
    BY <1>2, Places DEF ReadLine, WriteLine, UseAt, LibTypes, Uses
  <2>2. Word(p) \in Words
    BY <2>1, LibAssumption DEF Word
  <2>3. Word(p)[1] \in Lines
    BY <2>2 DEF Words
  <2>4. \A op \in {"read", "write"} :
          [op |-> op, line |-> Word(p)[1]] \in Commands
    BY <2>3 DEF Commands
  <2>5. PICK op \in {"read", "write"} :
          fifo' = Append(fifo, [op |-> op, line |-> Word(p)[1]])
    BY <1>2 DEF ReadLine, WriteLine, Push
  <2>6. fifo' \in Seq(Commands)
    BY <2>4, <2>5
  <2>7. QED  BY <1>2, <2>6 DEF ReadLine, WriteLine, Push
<1>3. CASE Patch(p)
  BY <1>3 DEF Patch, Writers
<1>4. CASE ~(ReadLine(p) \/ WriteLine(p) \/ Patch(p))
  <2>1. UNCHANGED gpuVars
    BY <1>1, <1>4
    DEF Start, Look, OpenFb, On, OpenRsx, OpenTake, MapResource, Mmap,
        Exclusive, ExclusiveMayFail, Returned, WaitFetched, WaitWritten, Undo,
        Drop, Return, Exit, Sigint, Kill
  <2>2. QED  BY <2>1 DEF gpuVars
<1>5. QED  BY <1>2, <1>3, <1>4

-----------------------------------------------------------------------------
LEMMA DirectBound ==
  MaxDirect \in Nat /\ 0 \in 0 .. MaxDirect /\
  \A d \in 0 .. MaxDirect : /\ d < MaxDirect => d + 1 \in 0 .. MaxDirect
                            /\ d > 0 => d - 1 \in 0 .. MaxDirect
<1>1. MaxDirect \in Nat
  BY LibAssumption
<1>2. QED  BY <1>1

LEMMA LibTypesStep ==
  ASSUME IInv, Next
  PROVE  LibTypes'
<1> USE DEF IInv, LibTypes
<1>1. CASE KernelStep /\ UNCHANGED libVars
  BY <1>1 DEF libVars
<1>2. ASSUME NEW p \in Procs, Start(p)  PROVE  LibTypes'
  BY <1>2, Places DEF Start, Jump
<1>3. ASSUME NEW p \in Procs, pc[p].at = "init", Passes(p), pc[p].n # 12,
             UNCHANGED saved,
             armed' \subseteq Procs, fb' \subseteq Procs,
             direct' \in 0 .. MaxDirect
      PROVE  LibTypes'
  BY <1>3, Places DEF Passes, Jump
<1>4. ASSUME NEW p \in Procs, pc[p].at = "init", Fails(p), UNCHANGED saved,
             armed' \subseteq Procs, fb' \subseteq Procs,
             direct' \in 0 .. MaxDirect
      PROVE  LibTypes'
  BY <1>4, Places, FailPlaces DEF Fails, Jump
<1>5. ASSUME NEW p \in Procs, InitAt(p, Segments \cup
               {"screen info", "vsync", "context info", "open fb", "on"})
      PROVE  pc[p].at = "init" /\ pc[p].n # 12
  <2>1. InitSteps[12] = "exclusive"
    BY DEF InitSteps
  <2>2. QED  BY <1>5, <2>1 DEF InitAt, Segments
<1>6. ASSUME NEW p \in Procs, Look(p) \/ OpenFb(p) \/ On(p) \/ MapResource(p)
      PROVE  LibTypes'
  <2>1. pc[p].at = "init" /\ pc[p].n # 12
    BY <1>5, <1>6 DEF Look, OpenFb, On, MapResource, InitAt
  <2>2. direct' \in 0 .. MaxDirect
    BY <1>6, DirectBound DEF Look, OpenFb, On, MapResource
  <2>3. /\ Passes(p) \/ Fails(p)
        /\ UNCHANGED saved /\ armed' \subseteq Procs /\ fb' \subseteq Procs
    BY <1>6 DEF Look, OpenFb, On, MapResource
  <2>4. QED  BY <1>3, <1>4, <2>1, <2>2, <2>3
<1>7. ASSUME NEW p \in Procs, OpenRsx(p)  PROVE  LibTypes'
  BY <1>7 DEF OpenRsx, libVars
<1>8. ASSUME NEW p \in Procs, Returned(p)  PROVE  LibTypes'
  <2>1. pc[p] = At("init", 5)
    BY <1>8 DEF Returned, Placed, PlacedAt
  <2>2. pc[p].at = "init" /\ pc[p].n = 5
    BY <2>1, Places
  <2>3. QED  BY <1>3, <1>4, <1>8, <2>2 DEF Returned
<1>9. ASSUME NEW p \in Procs, Exclusive(p)  PROVE  LibTypes'
  <2>1. CASE Jump(p, At("read", 1)) /\ armed' = armed \cup {p}
    <3>1. At("read", 1) \in PCs
      BY Places, LibAssumption DEF Uses
    <3>2. QED  BY <1>9, <2>1, <3>1 DEF Exclusive, Jump
  <2>2. CASE Fails(p) /\ UNCHANGED armed
    BY <1>4, <1>9, <2>2 DEF Exclusive, InitAt
  <2>3. QED  BY <1>9, <2>1, <2>2 DEF Exclusive
<1>10. ASSUME NEW p \in Procs,
              \/ ReadLine(p) \/ WaitFetched(p) \/ Patch(p) \/ WriteLine(p)
              \/ WaitWritten(p)
       PROVE  LibTypes'
  <2>1. pc[p].n \in 1 .. Len(Object)
    BY <1>10, Places
    DEF ReadLine, WaitFetched, Patch, WriteLine, WaitWritten, UseAt, Uses
  <2>2. PICK to \in PCs : Jump(p, to)
    <3>1. \A u \in Uses : At(u, pc[p].n) \in PCs
      BY <2>1, Places
    <3>2. pc[p].n < Len(Object) => At("read", pc[p].n + 1) \in PCs
      BY <2>1, Places, LibAssumption DEF Uses
    <3>3. At("undo", 1) \in PCs
      BY Places
    <3>4. QED
      BY <1>10, <3>1, <3>2, <3>3
      DEF ReadLine, WaitFetched, Patch, WriteLine, WaitWritten, Push, Uses
  <2>3. UNCHANGED <<saved, armed, fb, direct>>
    BY <1>10
    DEF ReadLine, WaitFetched, Patch, WriteLine, WaitWritten, Push
  <2>4. QED  BY <2>2, <2>3 DEF Jump
<1>11. ASSUME NEW p \in Procs, Undo(p)  PROVE  LibTypes'
  <2>1. pc[p].n \in 1 .. 9 /\ pc[p].n # 9
    <3>1. UndoSteps[9] = "return"
      BY DEF UndoSteps
    <3>2. QED  BY <1>11, <3>1, Places DEF Undo
  <2>2. At("undo", pc[p].n + 1) \in PCs
    BY <2>1, Places
  <2>3. fb' \subseteq Procs /\ direct' \in 0 .. MaxDirect
    <3>1. CASE Off(p) /\ UNCHANGED fb
      BY <3>1, DirectBound DEF Off
    <3>2. CASE CloseFb(p)
      BY <3>2, DirectBound DEF CloseFb
    <3>3. CASE UNCHANGED <<fb, direct>>
      BY <3>3
    <3>4. QED  BY <1>11, <3>1, <3>2, <3>3 DEF Undo
  <2>4. QED  BY <1>11, <2>2, <2>3 DEF Undo, Jump
<1>12. ASSUME NEW p \in Procs, Exit(p)  PROVE  LibTypes'
  <2>1. fb' \subseteq Procs /\ direct' \in 0 .. MaxDirect
    BY <1>12, DirectBound DEF Exit, CloseFb
  <2>2. QED  BY <1>12, <2>1, Places DEF Exit, Jump
<1>13. ASSUME NEW p \in Procs, Return(p) \/ Kill(p)  PROVE  LibTypes'
  <2>1. CASE Exit(p)
    BY <1>12, <2>1
  <2>2. CASE ~Exit(p)
    <3>1. /\ pc' = [pc EXCEPT ![p] = saved[p]]
          /\ saved' = [saved EXCEPT ![p] = Idle]
          /\ UNCHANGED <<armed, fb, direct>>
      BY <1>13, <2>2 DEF Return, Kill, Jump
    <3>2. Idle \in PCs
      BY Places
    <3>3. QED  BY <3>1, <3>2
  <2>3. QED  BY <2>1, <2>2
<1>14. ASSUME NEW p \in Procs, Sigint(p)  PROVE  LibTypes'
  <2>1. /\ pc' = [pc EXCEPT ![p] = At("undo", 1)]
        /\ \/ saved' = [saved EXCEPT ![p] = pc[p]] /\ pc[p].at = "undo"
           \/ UNCHANGED saved
        /\ armed' \subseteq Procs
        /\ UNCHANGED <<fb, direct>>
    BY <1>14 DEF Sigint, Jump
  <2>2. At("undo", 1) \in PCs
    BY Places
  <2>3. QED  BY <2>1, <2>2
<1>15. QED
  BY <1>1, <1>2, <1>6, <1>7, <1>8, <1>9, <1>10, <1>11, <1>13, <1>14 DEF Next

-----------------------------------------------------------------------------
(* A step of p leaves the other programs where they are.                   *)
LEMMA OthersPlaced ==
  ASSUME Placed, NEW p \in Procs, PlacedAt(p)',
         \A q \in Procs \ {p} : /\ call'[q] = call[q] /\ pc'[q] = pc[q]
                                /\ q \in file' <=> q \in file
                                /\ maps'[q] = maps[q]
  PROVE  Placed'
BY DEF Placed, PlacedAt

LEMMA KernelPlaced ==
  ASSUME IInv, KernelStep, UNCHANGED libVars
  PROVE  Placed'
<1> USE DEF IInv, DInv, libVars
<1>1. CASE Fetch \/ Execute
  BY <1>1 DEF Fetch, Execute, deviceVars, Placed, PlacedAt
<1>2. ASSUME NEW p \in Procs, OpenRefuse(p) \/ Allocate(p)
      PROVE  Placed'
  <2>1. PlacedAt(p) /\ p \notin file /\ maps[p] = {}
    BY <1>2 DEF OpenRefuse, Allocate, Placed, NotYet, OpenCalls
  <2>2. /\ call'[p] \in {"error", "setup"}
        /\ \A q \in Procs \ {p} : call'[q] = call[q]
        /\ UNCHANGED <<file, maps, pc>>
    BY <1>2 DEF OpenRefuse, Allocate, Enter, DeviceTypes
  <2>3. PlacedAt(p)'
    BY <1>2, <2>1, <2>2, Places
    DEF PlacedAt, OpenRefuse, Allocate, OpenCalls, ReleaseCalls, Returns
  <2>4. QED  BY <2>2, <2>3, OthersPlaced
<1>3. ASSUME NEW p \in Procs, SetupLook(p)  PROVE  Placed'
  <2>1. PlacedAt(p) /\ pc[p] = At("init", 5) /\ p \notin file /\ maps[p] = {}
    BY <1>3 DEF SetupLook, Placed, PlacedAt, NotYet, OpenCalls
  <2>2. /\ call'[p] \in {"setup", "ok", "error"}
        /\ \A q \in Procs \ {p} : call'[q] = call[q]
    BY <1>3, LookStep DEF SetupLook, Calls, Returns
  <2>3. /\ UNCHANGED <<maps, pc>>
        /\ file' = IF call'[p] = "ok" THEN file \cup {p} ELSE file
    BY <1>3 DEF SetupLook
  <2>4. PlacedAt(p)'
    BY <2>1, <2>2, <2>3, Places DEF PlacedAt, ReleaseCalls
  <2>5. QED  BY <2>2, <2>3, <2>4, OthersPlaced
<1>4. ASSUME NEW p \in Procs, ReleaseFree(p) \/ ReleaseGiveBack(p)
      PROVE  Placed'
  <2>1. pc[p].at # "init" /\ p \notin file /\ maps[p] = {}
    BY <1>4
    DEF ReleaseFree, ReleaseGiveBack, Placed, PlacedAt, NotYet, ReleaseCalls
  <2>2. /\ call'[p] \in {"giveBack", "none"}
        /\ \A q \in Procs \ {p} : call'[q] = call[q]
        /\ UNCHANGED <<file, maps, pc>>
    BY <1>4 DEF ReleaseFree, ReleaseGiveBack, Enter, DeviceTypes
  <2>3. PlacedAt(p)'
    BY <2>1, <2>2 DEF PlacedAt, OpenCalls, ReleaseCalls, Returns
  <2>4. QED  BY <2>2, <2>3, OthersPlaced
<1>5. QED  BY <1>1, <1>2, <1>3, <1>4 DEF KernelStep

(* A jump of p while it is in no call of the device.                       *)
LEMMA JumpPlaced ==
  ASSUME Placed, LibTypes, NEW p \in Procs, NEW to, Jump(p, to),
         call[p] = "none", UNCHANGED <<call, file, maps>>,
         to = Idle \/ (to.at = "init" /\ to.n <= 5)
           => p \notin file /\ maps[p] = {}
  PROVE  Placed'
<1>1. pc'[p] = to /\ \A q \in Procs \ {p} : pc'[q] = pc[q]
  BY DEF Jump, LibTypes
<1>2. PlacedAt(p)'
  BY <1>1 DEF PlacedAt, OpenCalls, ReleaseCalls, Returns
<1>3. QED  BY <1>1, <1>2, OthersPlaced

(* Where the jumps of the programs lead.                                   *)
LEMMA JumpTargets ==
  /\ \A a, n : At(a, n).at = a /\ At(a, n).n = n
  /\ \A a, n : a # "idle" => At(a, n) # Idle
BY DEF At, Idle

LEMMA ProgramsPlaced ==
  ASSUME IInv, Next, ~(KernelStep /\ UNCHANGED libVars)
  PROVE  Placed'
<1> USE DEF IInv
<1>1. ASSUME NEW p \in Procs, Start(p)  PROVE  Placed'
  <2>1. p \notin file /\ maps[p] = {}
    BY <1>1 DEF Start, Placed, PlacedAt
  <2>2. QED  BY <1>1, <2>1, JumpPlaced DEF Start, deviceVars
<1>2. ASSUME NEW p \in Procs, Look(p) \/ OpenFb(p) \/ On(p)
      PROVE  Placed'
  <2>1. /\ pc[p].at = "init" /\ pc[p].n \in 1 .. 12 /\ pc[p].n # 5
        /\ pc[p] # At("init", 5)
    <3>1. InitSteps[5] = "open rsx"
      BY DEF InitSteps
    <3>2. pc[p].at = "init" /\ pc[p].n \in 1 .. 12
      BY <1>2, Places DEF Look, OpenFb, On, InitAt, LibTypes
    <3>3. pc[p].n # 5
      BY <1>2, <3>1 DEF Look, OpenFb, On, InitAt
    <3>4. At("init", 5).n = 5
      BY DEF At
    <3>5. QED  BY <3>2, <3>3, <3>4
  <2>2. call[p] = "none"
    BY <2>1 DEF Placed, PlacedAt, DInv, DeviceTypes, Calls
  <2>3. PICK to : /\ Jump(p, to)
                  /\ \/ to.at = "init" /\ to.n = pc[p].n + 1 /\ to # Idle
                     \/ to.at = "undo" /\ to # Idle
    <3>1. Passes(p) \/ Fails(p)
      BY <1>2 DEF Look, OpenFb, On
    <3>2. CASE Passes(p)
      BY <3>2, JumpTargets DEF Passes
    <3>3. CASE Fails(p)
      BY <3>3, JumpTargets DEF Fails
    <3>4. QED  BY <3>1, <3>2, <3>3
  <2>4. to = Idle \/ (to.at = "init" /\ to.n <= 5)
          => p \notin file /\ maps[p] = {}
    BY <2>1, <2>2, <2>3 DEF Placed, PlacedAt
  <2>5. UNCHANGED <<call, file, maps>>
    BY <1>2 DEF Look, OpenFb, On, deviceVars
  <2>6. QED  BY <2>2, <2>3, <2>4, <2>5, JumpPlaced
<1>3. ASSUME NEW p \in Procs, OpenRsx(p)  PROVE  Placed'
  <2>1. /\ pc[p] = At("init", 5) /\ p \notin file /\ maps[p] = {}
    <3>1. pc[p].at = "init" /\ pc[p].n = 5
      BY <1>3, Places, OpenRsxIsFifth DEF OpenRsx, InitAt, LibTypes
    <3>2. call[p] = "none"
      BY <1>3 DEF OpenRsx, OpenTake
    <3>3. QED  BY <3>1, <3>2, Places DEF Placed, PlacedAt, LibTypes
  <2>2. /\ call'[p] \in {"allocate", "refuse"}
        /\ \A q \in Procs \ {p} : call'[q] = call[q]
        /\ UNCHANGED <<pc, file, maps>>
    BY <1>3 DEF OpenRsx, OpenTake, Enter, libVars, DInv, DeviceTypes
  <2>3. PlacedAt(p)'
    BY <2>1, <2>2, Places DEF PlacedAt, OpenCalls, ReleaseCalls, Returns
  <2>4. QED  BY <2>2, <2>3, OthersPlaced
<1>4. ASSUME NEW p \in Procs, Returned(p)  PROVE  Placed'
  <2>1. PlacedAt(p) /\ pc[p] = At("init", 5)
    BY <1>4 DEF Returned, Placed, PlacedAt
  <2>2. /\ call'[p] = "none"
        /\ \A q \in Procs \ {p} : call'[q] = call[q] /\ pc'[q] = pc[q]
        /\ UNCHANGED <<file, maps>>
    BY <1>4
    DEF Returned, Enter, Passes, Fails, Jump, LibTypes, DInv, DeviceTypes
  <2>3. pc'[p] \in {At("init", 6), At("undo", FailsTo[5])}
    BY <1>4, <2>1, Places DEF Returned, Passes, Fails, Jump, LibTypes
  <2>4. PlacedAt(p)'
    BY <2>2, <2>3, Places DEF PlacedAt, OpenCalls, ReleaseCalls, Returns
  <2>5. QED  BY <2>2, <2>4, OthersPlaced
<1>5. ASSUME NEW p \in Procs, MapResource(p) \/ Exclusive(p)
      PROVE  Placed'
  <2>1. /\ pc[p].at = "init" /\ pc[p].n \in 6 .. 12
        /\ pc[p] # At("init", 5)
    <3>1. /\ InitSteps[1] = "open fb" /\ InitSteps[2] = "screen info"
          /\ InitSteps[3] = "on" /\ InitSteps[4] = "vsync"
          /\ InitSteps[5] = "open rsx"
      BY DEF InitSteps
    <3>2. pc[p].n \in 1 .. 12 /\ pc[p].at = "init"
      BY <1>5, Places DEF MapResource, Exclusive, InitAt, LibTypes
    <3>3. pc[p].n \notin {1, 2, 3, 4, 5}
      BY <1>5, <3>1, <3>2 DEF MapResource, Exclusive, InitAt, Segments
    <3>4. QED  BY <3>2, <3>3, Places
  <2>2. call[p] = "none"
    BY <2>1 DEF Placed, PlacedAt, DInv, DeviceTypes, Calls
  <2>3. PICK to : /\ Jump(p, to) /\ to # Idle
                  /\ ~(to.at = "init" /\ to.n <= 5)
    <3>1. Passes(p) \/ Fails(p) \/ Jump(p, At("read", 1))
      BY <1>5 DEF MapResource, Exclusive
    <3>2. CASE Passes(p)
      BY <2>1, <3>2, JumpTargets DEF Passes
    <3>3. CASE Fails(p)
      BY <3>3, JumpTargets DEF Fails
    <3>4. CASE Jump(p, At("read", 1))
      BY <3>4, JumpTargets
    <3>5. QED  BY <3>1, <3>2, <3>3, <3>4
  <2>4. /\ pc'[p] = to
        /\ \A q \in Procs \ {p} : pc'[q] = pc[q]
        /\ UNCHANGED <<call, file>>
        /\ \A q \in Procs \ {p} : maps'[q] = maps[q]
    <3>1. /\ pc'[p] = to
          /\ \A q \in Procs \ {p} : pc'[q] = pc[q]
      BY <2>3 DEF Jump, LibTypes
    <3>2. UNCHANGED <<call, file>>
      BY <1>5
      DEF MapResource, Mmap, Exclusive, ExclusiveMayFail, deviceVars
    <3>3. \A q \in Procs \ {p} : maps'[q] = maps[q]
      BY <1>5
      DEF MapResource, Mmap, Exclusive, ExclusiveMayFail, deviceVars, DInv,
          DeviceTypes
    <3>4. QED  BY <3>1, <3>2, <3>3
  <2>5. PlacedAt(p)'
    BY <2>2, <2>3, <2>4 DEF PlacedAt, OpenCalls, ReleaseCalls, Returns
  <2>6. QED  BY <2>4, <2>5, OthersPlaced
<1>6. ASSUME NEW p \in Procs,
             \/ ReadLine(p) \/ WaitFetched(p) \/ Patch(p) \/ WriteLine(p)
             \/ WaitWritten(p) \/ Sigint(p)
      PROVE  Placed'
  <2>1. call[p] = "none" /\ UNCHANGED <<call, file, maps>>
    BY <1>6
    DEF ReadLine, WaitFetched, Patch, WriteLine, WaitWritten, Push, UseAt,
        Sigint, deviceVars
  <2>2. PICK to : Jump(p, to) /\ to.at \in Uses \cup {"undo"}
    <3>1. CASE ReadLine(p)
      BY <3>1, JumpTargets DEF ReadLine, Push, Uses
    <3>2. CASE WaitFetched(p)
      BY <3>2, JumpTargets DEF WaitFetched, Uses
    <3>3. CASE Patch(p)
      BY <3>3, JumpTargets DEF Patch, Uses
    <3>4. CASE WriteLine(p)
      BY <3>4, JumpTargets DEF WriteLine, Push, Uses
    <3>5. CASE WaitWritten(p)
      BY <3>5, JumpTargets DEF WaitWritten, Uses
    <3>6. CASE Sigint(p)
      BY <3>6, JumpTargets DEF Sigint
    <3>7. QED  BY <1>6, <3>1, <3>2, <3>3, <3>4, <3>5, <3>6
  <2>3. to # Idle /\ to.at # "init"
    BY <2>2, Places DEF Uses
  <2>4. QED  BY <2>1, <2>2, <2>3, JumpPlaced
<1>7. ASSUME NEW p \in Procs, Undo(p)  PROVE  Placed'
  <2>1. /\ call'[p] \in {"none", "free"} /\ pc'[p].at = "undo"
        /\ \A q \in Procs \ {p} :
             /\ call'[q] = call[q] /\ pc'[q] = pc[q]
             /\ q \in file' <=> q \in file
             /\ maps'[q] = maps[q]
    <3>1. call[p] = "none" /\ Jump(p, At("undo", pc[p].n + 1))
      BY <1>7 DEF Undo
    <3>2. pc'[p].at = "undo" /\ \A q \in Procs \ {p} : pc'[q] = pc[q]
      BY <3>1, JumpTargets DEF Jump, LibTypes
    <3>3. \/ \E fs \in {{}, {p}}, ss \in SUBSET Segments : Drop(p, fs, ss)
          \/ UNCHANGED deviceVars
      <4>1. CASE UndoSteps[pc[p].n] \in Segments
        BY <1>7, <4>1 DEF Undo
      <4>2. CASE UndoSteps[pc[p].n] \notin Segments
        BY <1>7, <4>2 DEF Undo
      <4>3. QED  BY <4>1, <4>2
    <3>4. /\ call'[p] \in {"none", "free"}
          /\ \A q \in Procs \ {p} :
               /\ call'[q] = call[q]
               /\ q \in file' <=> q \in file
               /\ maps'[q] = maps[q]
      <4>1. CASE UNCHANGED deviceVars
        BY <3>1, <4>1 DEF deviceVars
      <4>2. ASSUME NEW fs \in {{}, {p}}, NEW ss \in SUBSET Segments,
                   Drop(p, fs, ss)
            PROVE  <3>4!1 /\ <3>4!2
        BY <3>1, <4>2 DEF Drop, Enter, DInv, DeviceTypes
      <4>3. QED  BY <3>3, <4>1, <4>2
    <3>5. QED  BY <3>2, <3>4
  <2>2. PlacedAt(p)'
    BY <2>1, Places DEF PlacedAt, OpenCalls, ReleaseCalls, Returns
  <2>3. QED  BY <2>1, <2>2, OthersPlaced
<1>8. ASSUME NEW p \in Procs, call[p] = "none", Exit(p)  PROVE  Placed'
  <2>1. /\ call'[p] \in {"none", "free"} /\ pc'[p] = Idle
        /\ \A q \in Procs \ {p} :
             /\ call'[q] = call[q] /\ pc'[q] = pc[q]
             /\ q \in file' <=> q \in file
             /\ maps'[q] = maps[q]
        /\ p \notin file' /\ maps'[p] = {}
    BY <1>8 DEF Exit, Drop, Enter, Jump, LibTypes, DInv, DeviceTypes
  <2>2. PlacedAt(p)'
    BY <2>1, Places DEF PlacedAt, OpenCalls, ReleaseCalls, Returns
  <2>3. QED  BY <2>1, <2>2, OthersPlaced
<1>9. ASSUME NEW p \in Procs, Return(p) \/ Kill(p)  PROVE  Placed'
  <2>1. CASE Exit(p)
    BY <1>8, <1>9, <2>1 DEF Return, Kill
  <2>2. CASE ~Exit(p)
    <3>1. /\ Jump(p, saved[p]) /\ saved[p] # Idle /\ call[p] = "none"
          /\ UNCHANGED <<call, file, maps>>
      BY <1>9, <2>2 DEF Return, Kill, deviceVars
    <3>2. saved[p].at = "undo"
      BY <3>1 DEF LibTypes
    <3>3. QED  BY <3>1, <3>2, JumpPlaced
  <2>3. QED  BY <2>1, <2>2
<1>10. QED
  BY <1>1, <1>2, <1>3, <1>4, <1>5, <1>6, <1>7, <1>9 DEF Next

-----------------------------------------------------------------------------
LEMMA StepIInv ==
  ASSUME IInv, [Next]_vars
  PROVE  IInv'
<1>1. CASE KernelStep /\ UNCHANGED libVars
  <2>1. LibTypes'
    BY <1>1 DEF IInv, LibTypes, libVars
  <2>2. QED
    BY <1>1, <2>1, KernelKeepsDevice, KernelKeepsGpu, KernelPlaced DEF IInv
<1>2. CASE Next /\ ~(KernelStep /\ UNCHANGED libVars)
  BY <1>2, ProgramsKeepDevice, ProgramsKeepGpu, ProgramsPlaced, LibTypesStep
  DEF IInv
<1>3. CASE UNCHANGED vars
  BY <1>3, DeviceSame
  DEF vars, deviceVars, gpuVars, libVars, IInv, Placed, PlacedAt, LibTypes,
      GpuTypes
<1>4. QED  BY <1>1, <1>2, <1>3

THEOREM Invariance == Spec => []IInv
<1>1. Init => IInv
  BY InitIInv
<1>2. IInv /\ [Next]_vars => IInv'
  BY StepIInv
<1>3. QED  BY <1>1, <1>2, PTL DEF Spec

(* The types, and what ps3rsx.available counts.                            *)
THEOREM AvailableAccounted == Spec => []DeviceInv
<1>1. IInv => DeviceInv
  BY DEF IInv, DInv, DeviceTypes, LibTypes, GpuTypes, Accounted, DeviceInv,
         TypeOK
<1>2. QED  BY <1>1, Invariance, PTL

(* One process at a time holds the device.                                 *)
THEOREM Exclusion == Spec => []OneOwner
<1>1. IInv => OneOwner
  BY DEF IInv, DInv
<1>2. QED  BY <1>1, Invariance, PTL

(* The context is not freed under its user.                                *)
THEOREM ContextOutlivesUse == Spec => []ContextLives
<1>1. IInv => ContextLives
  BY DEF IInv, DInv
<1>2. QED  BY <1>1, Invariance, PTL

-----------------------------------------------------------------------------
(* What a process may still have of the device at a place of its program:  *)
(* upper bounds, so that they hold as well when a handler that gave up     *)
(* everything returns to the middle of main's gpu_cleanup.                 *)
MayFb(x) == ~(x = Idle \/ x = At("init", 1) \/ x = At("undo", 9))
MayFile(x) == \/ x.at \in Uses
              \/ x.at = "init" /\ x.n >= 5
              \/ x.at = "undo" /\ x.n <= 6
MayMap(x) == {s \in Segments :
  \/ x.at \in Uses
  \/ x.at = "init" /\ \E j \in 7 .. 11 : j < x.n /\ s = InitSteps[j]
  \/ x.at = "undo" /\ \E j \in 1 .. 5 : x.n <= j /\ s = UndoSteps[j]}

BoundedAt(p) ==
  /\ p \in fb => MayFb(pc[p])
  /\ p \in file => MayFile(pc[p])
  /\ maps[p] \subseteq MayMap(pc[p])
  /\ pc[p].at = "init" /\ pc[p].n >= 2 => p \in fb

UsesContext(p) == call[p] \in {"setup", "free"} \/ p \in file \/ maps[p] # {}

LeftInv ==
  /\ \A p \in Procs : BoundedAt(p)
  /\ fb = {} => direct = 0
  /\ context => \E p \in Procs : UsesContext(p)

-----------------------------------------------------------------------------
(* What is mapped is unmapped in the opposite order, from where it failed. *)
LEMMA UnwindTables ==
  /\ \A j \in 7 .. 11 : InitSteps[j] = UndoSteps[12 - j]
  /\ \A n \in 8 .. 12 : FailsTo[n] = 13 - n
  /\ FailsTo[1] = 9
  /\ \A n \in 2 .. 12 : FailsTo[n] <= 8
  /\ \A n \in 6 .. 12 : FailsTo[n] <= 6
BY DEF InitSteps, UndoSteps, FailsTo

(* Going on, failing and unwinding keep to what may be left.               *)
LEMMA MayInit ==
  ASSUME NEW n \in 1 .. 11
  PROVE  /\ MayFb(At("init", n + 1))
         /\ n >= 4 => MayFile(At("init", n + 1))
         /\ MayMap(At("init", n)) \subseteq MayMap(At("init", n + 1))
         /\ n >= 7 /\ InitSteps[n] \in Segments
              => InitSteps[n] \in MayMap(At("init", n + 1))
<1>1. At("init", n + 1).at = "init" /\ At("init", n + 1).n = n + 1
      /\ At("init", n).at = "init" /\ At("init", n).n = n
  BY DEF At
<1>2. At("init", n + 1) # Idle /\ At("init", n + 1) # At("undo", 9)
      /\ At("init", n + 1) # At("init", 1)
  <2>1. At("init", 1).n = 1 /\ At("undo", 9).at = "undo" /\ Idle.at = "idle"
    BY DEF At, Idle
  <2>2. QED  BY <1>1, <2>1
<1>3. QED  BY <1>1, <1>2 DEF MayFb, MayFile, MayMap

(* A step that fails goes to where all that came before it is given up.    *)
LEMMA MayFail ==
  ASSUME NEW n \in 1 .. 12
  PROVE  /\ n # 1 => MayFb(At("undo", FailsTo[n]))
         /\ n >= 6 => MayFile(At("undo", FailsTo[n]))
         /\ MayMap(At("init", n)) \subseteq MayMap(At("undo", FailsTo[n]))
<1>1. /\ At("undo", FailsTo[n]).at = "undo"
      /\ At("undo", FailsTo[n]).n = FailsTo[n]
      /\ At("init", n).at = "init" /\ At("init", n).n = n
      /\ At("init", 1).at = "init" /\ At("undo", 9).n = 9 /\ Idle.at = "idle"
  BY DEF At, Idle
<1>2. n # 1 => MayFb(At("undo", FailsTo[n]))
  BY <1>1, UnwindTables DEF MayFb
<1>3. n >= 6 => MayFile(At("undo", FailsTo[n]))
  BY <1>1, UnwindTables DEF MayFile
<1>4. ASSUME NEW s \in MayMap(At("init", n))
      PROVE  s \in MayMap(At("undo", FailsTo[n]))
  <2>1. s \in Segments
    BY DEF MayMap
  <2>2. PICK j \in 7 .. 11 : j < n /\ s = InitSteps[j]
    BY <1>1 DEF MayMap, Uses
  <2>3. 12 - j \in 1 .. 5 /\ FailsTo[n] <= 12 - j /\ s = UndoSteps[12 - j]
    BY <2>2, UnwindTables
  <2>4. QED  BY <1>1, <2>1, <2>3 DEF MayMap
<1>5. QED  BY <1>2, <1>3, <1>4

(* Unwinding may start with everything, and ends with nothing.             *)
LEMMA MayUndo ==
  /\ MayFb(At("undo", 1)) /\ MayFile(At("undo", 1))
  /\ MayMap(At("undo", 1)) = Segments
  /\ \A u \in Uses : \A n \in Nat :
       MayFb(At(u, n)) /\ MayFile(At(u, n)) /\ MayMap(At(u, n)) = Segments
  /\ MayMap(Idle) = {} /\ ~MayFile(Idle) /\ ~MayFb(Idle)
  /\ MayMap(At("undo", 9)) = {} /\ ~MayFile(At("undo", 9))
  /\ ~MayFb(At("undo", 9)) /\ ~MayFb(At("init", 1))
  /\ \A n \in 1 .. 8 :
       /\ n # 8 => MayFb(At("undo", n + 1))
       /\ n # 6 /\ MayFile(At("undo", n)) => MayFile(At("undo", n + 1))
       /\ \A s \in MayMap(At("undo", n)) :
            s # UndoSteps[n] => s \in MayMap(At("undo", n + 1))
       /\ n \notin 1 .. 5 => MayMap(At("undo", n)) = {}
<1>1. /\ \A a, n : At(a, n).at = a /\ At(a, n).n = n
      /\ Idle.at = "idle"
  BY DEF At, Idle
<1>2. /\ UndoSteps[1] = "reports" /\ UndoSteps[2] = "ctrl"
      /\ UndoSteps[3] = "fifo" /\ UndoSteps[4] = "vram"
      /\ UndoSteps[5] = "xram"
  BY DEF UndoSteps
<1>3. ASSUME NEW s \in Segments  PROVE \E j \in 1 .. 5 : s = UndoSteps[j]
  BY <1>2, <1>3 DEF Segments
<1>4. MayMap(At("undo", 1)) = Segments
  BY <1>1, <1>3 DEF MayMap
<1>5. MayFb(At("undo", 1)) /\ MayFile(At("undo", 1))
  BY <1>1 DEF MayFb, MayFile
<1>6. ASSUME NEW u \in Uses, NEW n \in Nat
      PROVE  MayFb(At(u, n)) /\ MayFile(At(u, n)) /\ MayMap(At(u, n)) = Segments
  BY <1>1 DEF MayFb, MayFile, MayMap, Uses
<1>7. MayMap(Idle) = {} /\ ~MayFile(Idle) /\ ~MayFb(Idle)
  BY <1>1 DEF MayMap, MayFile, MayFb, Uses
<1>8. /\ MayMap(At("undo", 9)) = {} /\ ~MayFile(At("undo", 9))
      /\ ~MayFb(At("undo", 9)) /\ ~MayFb(At("init", 1))
  BY <1>1 DEF MayMap, MayFile, MayFb, Uses
<1>9. ASSUME NEW n \in 1 .. 8
      PROVE  /\ n # 8 => MayFb(At("undo", n + 1))
             /\ n # 6 /\ MayFile(At("undo", n)) => MayFile(At("undo", n + 1))
             /\ \A s \in MayMap(At("undo", n)) :
                  s # UndoSteps[n] => s \in MayMap(At("undo", n + 1))
             /\ n \notin 1 .. 5 => MayMap(At("undo", n)) = {}
  <2>1. n # 8 => MayFb(At("undo", n + 1))
    BY <1>1 DEF MayFb
  <2>2. n # 6 /\ MayFile(At("undo", n)) => MayFile(At("undo", n + 1))
    BY <1>1 DEF MayFile, Uses
  <2>3. ASSUME NEW s \in MayMap(At("undo", n)), s # UndoSteps[n]
        PROVE  s \in MayMap(At("undo", n + 1))
    <3>1. PICK j \in 1 .. 5 : n <= j /\ s = UndoSteps[j]
      BY <1>1, <2>3 DEF MayMap, Uses
    <3>2. n + 1 <= j /\ s \in Segments
      BY <2>3, <3>1 DEF MayMap
    <3>3. QED  BY <1>1, <3>1, <3>2 DEF MayMap
  <2>4. n \notin 1 .. 5 => MayMap(At("undo", n)) = {}
    BY <1>1 DEF MayMap, Uses
  <2>5. QED  BY <2>1, <2>2, <2>3, <2>4
<1>10. QED  BY <1>4, <1>5, <1>6, <1>7, <1>8, <1>9

-----------------------------------------------------------------------------
(* A step of p leaves the bounds of the others.                            *)
LEMMA OthersBounded ==
  ASSUME LeftInv, NEW p \in Procs, BoundedAt(p)',
         \A q \in Procs \ {p} :
           /\ pc'[q] = pc[q] /\ maps'[q] = maps[q]
           /\ q \in file' <=> q \in file
           /\ q \in fb' <=> q \in fb
  PROVE  \A q \in Procs : BoundedAt(q)'
BY DEF LeftInv, BoundedAt, MayFb, MayFile, MayMap

(* A step of p that goes somewhere and changes nothing it holds.           *)
LEMMA MoveLeft ==
  ASSUME LeftInv, LibTypes, NEW p \in Procs, NEW to, Jump(p, to),
         UNCHANGED <<file, maps, fb, context, call>>,
         p \in fb => MayFb(to),
         p \in file => MayFile(to),
         maps[p] \subseteq MayMap(to),
         to.at = "init" /\ to.n >= 2 => p \in fb,
         fb = {} => direct' = 0
  PROVE  LeftInv'
<1>1. pc'[p] = to /\ \A q \in Procs \ {p} : pc'[q] = pc[q]
  BY DEF Jump, LibTypes
<1>2. BoundedAt(p)'
  BY <1>1 DEF BoundedAt
<1>3. \A q \in Procs : BoundedAt(q)'
  BY <1>1, <1>2, OthersBounded
<1>4. context' => \E q \in Procs : UsesContext(q)'
  BY DEF LeftInv, UsesContext
<1>5. QED  BY <1>3, <1>4 DEF LeftInv

(* The kernel's own steps: an open that succeeds is at its place in        *)
(* gpu_init.                                                               *)
LEMMA KernelLeft ==
  ASSUME IInv, LeftInv, KernelStep, UNCHANGED libVars
  PROVE  LeftInv'
<1> USE DEF IInv, DInv, LeftInv, libVars
<1>1. CASE Fetch \/ Execute
  BY <1>1 DEF Fetch, Execute, deviceVars, BoundedAt, UsesContext
<1>2. ASSUME NEW p \in Procs,
             \/ OpenRefuse(p) \/ Allocate(p) \/ ReleaseFree(p)
             \/ ReleaseGiveBack(p) \/ SetupLook(p)
      PROVE  LeftInv'
  <2>1. UNCHANGED maps
    BY <1>2
    DEF OpenRefuse, Allocate, ReleaseFree, ReleaseGiveBack, SetupLook
  <2>2. \A q \in Procs : BoundedAt(q)'
    <3>1. CASE UNCHANGED file
      BY <2>1, <3>1 DEF BoundedAt
    <3>2. CASE SetupLook(p)
      <4>1. pc[p] = At("init", 5)
        BY <3>2 DEF SetupLook, Placed, PlacedAt, OpenCalls
      <4>2. MayFile(pc[p])
        BY <4>1, Places DEF MayFile
      <4>3. BoundedAt(p)'
        BY <2>1, <4>2 DEF BoundedAt
      <4>4. \A q \in Procs \ {p} : q \in file' <=> q \in file
        BY <3>2 DEF SetupLook
      <4>5. QED  BY <2>1, <4>3, <4>4, OthersBounded
    <3>3. QED
      BY <1>2, <3>1, <3>2
      DEF OpenRefuse, Allocate, ReleaseFree, ReleaseGiveBack, SetupLook
  <2>3. context' => \E q \in Procs : UsesContext(q)'
    <3>1. CASE OpenRefuse(p)
      BY <3>1 DEF OpenRefuse, Enter, UsesContext, DeviceTypes
    <3>2. CASE Allocate(p)
      BY <3>2 DEF Allocate, Enter, UsesContext, DeviceTypes
    <3>3. CASE ReleaseFree(p)
      BY <3>3 DEF ReleaseFree
    <3>4. CASE ReleaseGiveBack(p)
      BY <3>4 DEF ReleaseGiveBack, Enter, UsesContext, DeviceTypes
    <3>5. CASE SetupLook(p)
      <4>1. /\ call'[p] \in {"setup", "ok", "error"}
            /\ \A q \in Procs \ {p} : call'[q] = call[q]
        BY <3>5, LookStep DEF SetupLook, Calls, Returns
      <4>2. QED  BY <3>5, <4>1 DEF SetupLook, UsesContext
    <3>6. QED  BY <1>2, <3>1, <3>2, <3>3, <3>4, <3>5
  <2>4. QED  BY <2>2, <2>3
<1>3. QED  BY <1>1, <1>2 DEF KernelStep

(* The steps of gpu_init, and of the unwinding.                            *)
LEMMA InitTable ==
  ASSUME NEW n \in 1 .. 12
  PROVE  /\ InitSteps[n] = "open fb" => n = 1
         /\ InitSteps[n] = "on" => n = 3
         /\ InitSteps[n] \in {"screen info", "vsync", "context info"}
              => n \in {2, 4, 6}
         /\ InitSteps[n] \in Segments <=> n \in {7, 8, 9, 10, 11}
         /\ InitSteps[n] = "exclusive" => n = 12
<1>1. n \in {1, 2, 3, 4, 5, 6, 12} \/ n \in {7, 8, 9, 10, 11}
  OBVIOUS
<1>2. /\ InitSteps[1] = "open fb" /\ InitSteps[2] = "screen info"
      /\ InitSteps[3] = "on" /\ InitSteps[4] = "vsync"
      /\ InitSteps[5] = "open rsx"
      /\ InitSteps[6] = "context info" /\ InitSteps[12] = "exclusive"
  BY DEF InitSteps
<1>3. /\ InitSteps[7] = "xram" /\ InitSteps[8] = "vram"
      /\ InitSteps[9] = "fifo" /\ InitSteps[10] = "ctrl"
      /\ InitSteps[11] = "reports"
  BY DEF InitSteps
<1>4. CASE n \in {1, 2, 3, 4, 5, 6, 12}
  <2>1. InitSteps[n] \notin Segments
    BY <1>2, <1>4 DEF Segments
  <2>2. n \notin {7, 8, 9, 10, 11}
    BY <1>4
  <2>3. QED  BY <1>2, <1>4, <2>1, <2>2
<1>5. CASE n \in {7, 8, 9, 10, 11}
  <2>1. InitSteps[n] \in Segments
    BY <1>3, <1>5 DEF Segments
  <2>2. InitSteps[n] \notin {"open fb", "on", "screen info", "vsync",
                            "context info", "exclusive"}
    BY <2>1 DEF Segments
  <2>3. QED  BY <1>5, <2>1, <2>2
<1>6. QED  BY <1>1, <1>4, <1>5

LEMMA UndoTable ==
  ASSUME NEW n \in 1 .. 9
  PROVE  /\ UndoSteps[n] # "return" => n \in 1 .. 8
         /\ UndoSteps[n] \in Segments <=> n \in 1 .. 5
         /\ UndoSteps[n] = "close rsx" <=> n = 6
         /\ UndoSteps[n] = "close fb" <=> n = 8
<1>1. n \in {1, 2, 3, 4, 5} \/ n \in {6, 7, 8, 9}
  OBVIOUS
<1>2. /\ UndoSteps[1] = "reports" /\ UndoSteps[2] = "ctrl"
      /\ UndoSteps[3] = "fifo" /\ UndoSteps[4] = "vram"
      /\ UndoSteps[5] = "xram"
  BY DEF UndoSteps
<1>3. /\ UndoSteps[6] = "close rsx" /\ UndoSteps[7] = "off"
      /\ UndoSteps[8] = "close fb" /\ UndoSteps[9] = "return"
  BY DEF UndoSteps
<1>4. CASE n \in {1, 2, 3, 4, 5}
  <2>1. UndoSteps[n] \in Segments
    BY <1>2, <1>4 DEF Segments
  <2>2. UndoSteps[n] \notin {"close rsx", "close fb", "return"}
    BY <2>1 DEF Segments
  <2>3. n \in 1 .. 5 /\ n \in 1 .. 8 /\ n # 6 /\ n # 8
    BY <1>4
  <2>4. QED  BY <2>1, <2>2, <2>3
<1>5. CASE n \in {6, 7, 8, 9}
  <2>1. UndoSteps[n] \notin Segments
    BY <1>3, <1>5 DEF Segments
  <2>2. n \notin 1 .. 5 /\ (n = 9 \/ n \in 1 .. 8)
    BY <1>5
  <2>3. /\ UndoSteps[n] = "close rsx" <=> n = 6
        /\ UndoSteps[n] = "close fb" <=> n = 8
    BY <1>3, <1>5
  <2>4. QED  BY <1>3, <2>1, <2>2, <2>3
<1>6. QED  BY <1>1, <1>4, <1>5

(* A process in gpu_init is in no call but at its fifth step.              *)
LEMMA InitPlace ==
  ASSUME IInv, NEW p \in Procs, pc[p].at = "init"
  PROVE  /\ pc[p].n \in 1 .. 12 /\ pc[p] = At("init", pc[p].n)
         /\ pc[p].n # 5 => call[p] = "none"
<1>1. pc[p].n \in 1 .. 12 /\ pc[p] = At("init", pc[p].n)
  BY Places DEF IInv, LibTypes
<1>2. pc[p].n # 5 => call[p] = "none"
  <2>1. At("init", 5).n = 5
    BY DEF At
  <2>2. QED
    BY <1>1, <2>1 DEF IInv, DInv, DeviceTypes, Placed, PlacedAt, Calls
<1>3. QED  BY <1>1, <1>2

(* What a process has while it is in gpu_init.                             *)
LEMMA BoundsAtInit ==
  ASSUME IInv, LeftInv, NEW p \in Procs, pc[p].at = "init"
  PROVE  /\ pc[p].n = 1 => p \notin fb
         /\ pc[p].n >= 2 => p \in fb
         /\ pc[p].n <= 5 /\ call[p] # "ok" => p \notin file
         /\ maps[p] \subseteq MayMap(At("init", pc[p].n))
<1>1. pc[p].n \in 1 .. 12 /\ pc[p] = At("init", pc[p].n)
  BY InitPlace
<1>2. BoundedAt(p) /\ PlacedAt(p)
  BY DEF LeftInv, IInv, Placed
<1>3. QED  BY <1>1, <1>2, MayUndo DEF BoundedAt, PlacedAt

(* A step of gpu_init that succeeds, and one that fails.                   *)
LEMMA PassLeft ==
  ASSUME IInv, LeftInv, NEW p \in Procs, pc[p].at = "init", pc[p].n # 12,
         Passes(p), UNCHANGED <<file, context>>,
         \A q \in Procs \ {p} : q \in fb' <=> q \in fb,
         p \in fb', fb' \subseteq Procs,
         p \in file => pc[p].n >= 5,
         maps'[p] \subseteq MayMap(At("init", pc[p].n + 1)),
         \A q \in Procs \ {p} : maps'[q] = maps[q],
         \A q \in Procs : UsesContext(q) => UsesContext(q)'
  PROVE  LeftInv'
<1>1. pc[p].n \in 1 .. 11
  <2>1. pc[p].n \in 1 .. 12
    BY InitPlace
  <2>2. QED  BY <2>1
<1>2. pc'[p] = At("init", pc[p].n + 1) /\ \A q \in Procs \ {p} : pc'[q] = pc[q]
  BY DEF Passes, Jump, IInv, LibTypes
<1>3. BoundedAt(p)'
  BY <1>1, <1>2, MayInit, Places DEF BoundedAt
<1>4. \A q \in Procs : BoundedAt(q)'
  BY <1>2, <1>3, OthersBounded
<1>5. QED  BY <1>4 DEF LeftInv

LEMMA FailLeft ==
  ASSUME IInv, LeftInv, NEW p \in Procs, pc[p].at = "init",
         Fails(p), UNCHANGED <<file, maps, context, fb, direct>>,
         p \in file => pc[p].n # 5,
         \A q \in Procs : UsesContext(q) => UsesContext(q)'
  PROVE  LeftInv'
<1>1. pc[p].n \in 1 .. 12 /\ pc[p] = At("init", pc[p].n)
  BY InitPlace
<1>2. /\ pc'[p] = At("undo", FailsTo[pc[p].n])
      /\ \A q \in Procs \ {p} : pc'[q] = pc[q]
  BY DEF Fails, Jump, IInv, LibTypes
<1>3. p \in fb => pc[p].n # 1
  BY BoundsAtInit
<1>4. p \in file => pc[p].n >= 6
  <2>1. pc[p].n # 5 => call[p] = "none"
    BY InitPlace
  <2>2. pc[p].n # 5 /\ pc[p].n <= 5 => p \notin file
    BY <2>1, BoundsAtInit
  <2>3. QED  BY <1>1, <2>2
<1>5. maps[p] \subseteq MayMap(At("init", pc[p].n))
  BY BoundsAtInit
<1>6. BoundedAt(p)'
  BY <1>1, <1>2, <1>3, <1>4, <1>5, MayFail, Places DEF BoundedAt
<1>7. \A q \in Procs : BoundedAt(q)'
  BY <1>2, <1>6, OthersBounded
<1>8. QED  BY <1>7 DEF LeftInv

(* The steps of gpu_init.                                                  *)
LEMMA GpuInitLeft ==
  ASSUME IInv, LeftInv, NEW p \in Procs,
         \/ Look(p) \/ OpenFb(p) \/ On(p) \/ OpenRsx(p) \/ MapResource(p)
         \/ Exclusive(p) \/ Returned(p)
  PROVE  LeftInv'
<1> USE DEF IInv, LibTypes
<1>1. CASE Look(p)
  <2>1. /\ pc[p].at = "init" /\ pc[p].n \in {2, 4, 6}
        /\ p \in fb /\ call[p] = "none"
        /\ UNCHANGED <<file, maps, context, call, fb, direct>>
    <3>1. pc[p].at = "init" /\ pc[p].n \in 1 .. 12
      BY <1>1, InitPlace DEF Look, InitAt
    <3>2. pc[p].n \in {2, 4, 6}
      BY <1>1, <3>1, InitTable DEF Look, InitAt
    <3>3. p \in fb /\ call[p] = "none"
      BY <3>1, <3>2, InitPlace, BoundsAtInit
    <3>4. QED  BY <1>1, <3>1, <3>2, <3>3 DEF Look, deviceVars
  <2>2. \A q \in Procs : UsesContext(q) => UsesContext(q)'
    BY <2>1 DEF UsesContext
  <2>3. CASE Passes(p)
    <3>1. maps[p] \subseteq MayMap(At("init", pc[p].n + 1))
      BY <2>1, BoundsAtInit, MayInit
    <3>2. p \in file => pc[p].n >= 5
      BY <2>1, BoundsAtInit
    <3>3. QED  BY <2>1, <2>2, <2>3, <3>1, <3>2, PassLeft
  <2>4. CASE Fails(p)
    BY <2>1, <2>2, <2>4, FailLeft
  <2>5. QED  BY <1>1, <2>3, <2>4 DEF Look
<1>2. CASE OpenFb(p)
  <2>1. /\ pc[p].at = "init" /\ pc[p].n = 1 /\ call[p] = "none"
        /\ UNCHANGED <<file, maps, context, call, direct>>
    <3>1. pc[p].at = "init" /\ pc[p].n \in 1 .. 12
      BY <1>2, InitPlace DEF OpenFb, InitAt
    <3>2. pc[p].n = 1
      BY <1>2, <3>1, InitTable DEF OpenFb, InitAt
    <3>3. call[p] = "none"
      BY <3>1, <3>2, InitPlace
    <3>4. QED  BY <1>2, <3>1, <3>2, <3>3 DEF OpenFb, deviceVars
  <2>2. \A q \in Procs : UsesContext(q) => UsesContext(q)'
    BY <2>1 DEF UsesContext
  <2>3. CASE fb' = fb \cup {p} /\ Passes(p)
    <3>1. maps[p] \subseteq MayMap(At("init", pc[p].n + 1))
      BY <2>1, BoundsAtInit, MayInit
    <3>2. p \notin file
      BY <2>1, BoundsAtInit
    <3>3. QED  BY <2>1, <2>2, <2>3, <3>1, <3>2, PassLeft
  <2>4. CASE UNCHANGED fb /\ Fails(p)
    BY <2>1, <2>2, <2>4, FailLeft
  <2>5. QED  BY <1>2, <2>3, <2>4 DEF OpenFb
<1>3. CASE On(p)
  <2>1. /\ pc[p].at = "init" /\ pc[p].n = 3
        /\ p \in fb /\ call[p] = "none"
        /\ UNCHANGED <<file, maps, context, call, fb>>
    <3>1. pc[p].at = "init" /\ pc[p].n \in 1 .. 12
      BY <1>3, InitPlace DEF On, InitAt
    <3>2. pc[p].n = 3
      BY <1>3, <3>1, InitTable DEF On, InitAt
    <3>3. p \in fb /\ call[p] = "none"
      BY <3>1, <3>2, InitPlace, BoundsAtInit
    <3>4. QED  BY <1>3, <3>1, <3>2, <3>3 DEF On, deviceVars
  <2>2. \A q \in Procs : UsesContext(q) => UsesContext(q)'
    BY <2>1 DEF UsesContext
  <2>3. CASE Passes(p)
    <3>1. maps[p] \subseteq MayMap(At("init", pc[p].n + 1))
      BY <2>1, BoundsAtInit, MayInit
    <3>2. p \notin file
      BY <2>1, BoundsAtInit
    <3>3. QED  BY <2>1, <2>2, <2>3, <3>1, <3>2, PassLeft
  <2>4. CASE UNCHANGED direct /\ Fails(p)
    BY <2>1, <2>2, <2>4, FailLeft
  <2>5. QED  BY <1>3, <2>3, <2>4 DEF On
<1>4. CASE OpenRsx(p)
  <2>1. /\ call[p] = "none"
        /\ UNCHANGED <<file, maps, context, pc, fb, direct>>
        /\ \A q \in Procs \ {p} : call'[q] = call[q]
    BY <1>4 DEF OpenRsx, OpenTake, Enter, libVars, DInv, DeviceTypes
  <2>2. \A q \in Procs : UsesContext(q) => UsesContext(q)'
    BY <2>1 DEF UsesContext
  <2>3. QED  BY <2>1, <2>2 DEF LeftInv, BoundedAt
<1>5. CASE MapResource(p)
  <2>1. /\ pc[p].at = "init" /\ pc[p].n \in 7 .. 11 /\ p \in fb
        /\ InitSteps[pc[p].n] \in Segments
        /\ UNCHANGED <<file, context, call, fb, direct>>
    <3>1. /\ pc[p].at = "init" /\ pc[p].n \in 1 .. 12
          /\ InitSteps[pc[p].n] \in Segments
      BY <1>5, InitPlace DEF MapResource, InitAt
    <3>2. pc[p].n \in {7, 8, 9, 10, 11}
      BY <3>1, InitTable
    <3>3. pc[p].n \in 7 .. 11 /\ p \in fb
      BY <3>1, <3>2, BoundsAtInit
    <3>4. QED  BY <1>5, <3>1, <3>3 DEF MapResource, Mmap, deviceVars
  <2>2. CASE Mmap(p, InitSteps[pc[p].n]) /\ Passes(p)
    <3>1. /\ maps'[p] = maps[p] \cup {InitSteps[pc[p].n]}
          /\ \A q \in Procs \ {p} : maps'[q] = maps[q]
      BY <2>2 DEF Mmap, DInv, DeviceTypes
    <3>2. maps'[p] \subseteq MayMap(At("init", pc[p].n + 1))
      BY <2>1, <3>1, BoundsAtInit, MayInit
    <3>3. \A q \in Procs : UsesContext(q) => UsesContext(q)'
      BY <2>1, <3>1 DEF UsesContext
    <3>4. QED  BY <2>1, <2>2, <3>1, <3>2, <3>3, PassLeft
  <2>3. CASE Fails(p) /\ UNCHANGED <<deviceVars, gpuVars>>
    <3>1. \A q \in Procs : UsesContext(q) => UsesContext(q)'
      BY <2>3 DEF UsesContext, deviceVars
    <3>2. QED  BY <2>1, <2>3, <3>1, FailLeft DEF deviceVars
  <2>4. QED  BY <1>5, <2>2, <2>3 DEF MapResource
<1>6. CASE Exclusive(p)
  <2>1. /\ pc[p].at = "init" /\ pc[p].n = 12 /\ p \in fb
        /\ UNCHANGED <<file, maps, context, call, fb, direct>>
    <3>1. pc[p].at = "init" /\ pc[p].n \in 1 .. 12
      BY <1>6, InitPlace DEF Exclusive, InitAt
    <3>2. pc[p].n = 12
      BY <1>6, <3>1, InitTable DEF Exclusive, InitAt
    <3>3. p \in fb
      BY <3>1, <3>2, BoundsAtInit
    <3>4. QED
      BY <1>6, <3>1, <3>2, <3>3 DEF Exclusive, ExclusiveMayFail, deviceVars
  <2>2. CASE Jump(p, At("read", 1))
    <3>1. MayFb(At("read", 1)) /\ MayFile(At("read", 1))
          /\ MayMap(At("read", 1)) = Segments
      BY MayUndo DEF Uses
    <3>2. At("read", 1).at # "init" /\ maps[p] \subseteq Segments
      BY Places DEF DInv, DeviceTypes
    <3>3. QED  BY <2>1, <2>2, <3>1, <3>2, MoveLeft DEF LeftInv
  <2>3. CASE Fails(p)
    <3>1. \A q \in Procs : UsesContext(q) => UsesContext(q)'
      BY <2>1 DEF UsesContext
    <3>2. QED  BY <2>1, <2>3, <3>1, FailLeft
  <2>4. QED  BY <1>6, <2>2, <2>3 DEF Exclusive
<1>7. CASE Returned(p)
  <2>1. /\ pc[p].at = "init" /\ pc[p].n = 5 /\ p \in fb
        /\ UNCHANGED <<file, maps, context, fb, direct>>
        /\ \A q \in Procs \ {p} : call'[q] = call[q]
    <3>1. pc[p] = At("init", 5)
      BY <1>7 DEF Returned, Placed, PlacedAt
    <3>2. QED
      BY <1>7, <3>1, Places, BoundsAtInit DEF Returned, Enter, DInv, DeviceTypes
  <2>2. \A q \in Procs : UsesContext(q) => UsesContext(q)'
    BY <1>7, <2>1 DEF UsesContext, Returned, Returns
  <2>3. CASE Passes(p)
    <3>1. maps[p] \subseteq MayMap(At("init", pc[p].n + 1))
      BY <2>1, BoundsAtInit, MayInit
    <3>2. QED  BY <2>1, <2>2, <2>3, <3>1, PassLeft DEF LeftInv
  <2>4. CASE call[p] = "error" /\ Fails(p)
    <3>1. p \notin file
      BY <2>4 DEF DInv, NotYet
    <3>2. QED  BY <2>1, <2>2, <2>4, <3>1, FailLeft
  <2>5. QED  BY <1>7, <2>3, <2>4 DEF Returned, Returns
<1>8. QED  BY <1>1, <1>2, <1>3, <1>4, <1>5, <1>6, <1>7

(* Dropping references never loses sight of the context.                   *)
LEMMA DropUses ==
  ASSUME DInv, NEW p \in Procs, NEW segments, call[p] = "none",
         Drop(p, {p}, segments) \/ Drop(p, {}, segments)
  PROVE  /\ \A q \in Procs : UsesContext(q) => UsesContext(q)'
         /\ UNCHANGED context
         /\ file' \subseteq file /\ maps'[p] = maps[p] \ segments
         /\ \A q \in Procs \ {p} :
              (q \in file' <=> q \in file) /\ maps'[q] = maps[q]
BY DEF Drop, Enter, UsesContext, DInv, DeviceTypes

(* Closing ps3fb and stopping the stop of the blitting.                    *)
LEMMA DirectLeft ==
  ASSUME LeftInv, NEW p \in Procs,
         CloseFb(p) \/ (Off(p) /\ UNCHANGED fb) \/ UNCHANGED <<fb, direct>>
  PROVE  /\ fb' = {} => direct' = 0
         /\ fb' \subseteq fb
         /\ \A q \in Procs \ {p} : q \in fb' <=> q \in fb
BY DEF CloseFb, Off, LeftInv

(* One step of the unwinding.                                              *)
LEMMA UndoLeft ==
  ASSUME IInv, LeftInv, NEW p \in Procs, Undo(p)
  PROVE  LeftInv'
<1> USE DEF IInv, LibTypes
<1> DEFINE n == pc[p].n
<1>1. n \in 1 .. 8 /\ pc[p] = At("undo", n)
  <2>1. n \in 1 .. 9 /\ pc[p] = At("undo", n)
    BY Places DEF Undo
  <2>2. UndoSteps[n] # "return"
    BY DEF Undo
  <2>3. QED  BY <2>1, <2>2, UndoTable
<1>2. /\ pc'[p] = At("undo", n + 1)
      /\ \A q \in Procs \ {p} : pc'[q] = pc[q]
      /\ call[p] = "none"
  BY DEF Undo, Jump
<1>3. BoundedAt(p)
  BY DEF LeftInv
<1>4. /\ UndoSteps[n] \in Segments <=> n \in 1 .. 5
      /\ UndoSteps[n] = "close rsx" <=> n = 6
      /\ UndoSteps[n] = "close fb" <=> n = 8
  <2>1. n \in 1 .. 9
    BY <1>1
  <2>2. QED  BY <2>1, UndoTable
<1>5. /\ fb' = {} => direct' = 0
      /\ \A q \in Procs \ {p} : q \in fb' <=> q \in fb
      /\ p \in fb' => MayFb(At("undo", n + 1))
  <2>1. CloseFb(p) \/ (Off(p) /\ UNCHANGED fb) \/ UNCHANGED <<fb, direct>>
    <3>1. CASE UndoSteps[n] = "off"
      BY <3>1 DEF Undo
    <3>2. CASE UndoSteps[n] # "off"
      BY <3>2 DEF Undo
    <3>3. QED  BY <3>1, <3>2
  <2>2. n = 8 => p \notin fb'
    BY <1>4 DEF Undo, CloseFb
  <2>3. QED  BY <1>1, <2>1, <2>2, DirectLeft, MayUndo
<1>6. /\ \A q \in Procs : UsesContext(q) => UsesContext(q)'
      /\ UNCHANGED context
      /\ p \in file' => MayFile(At("undo", n + 1))
      /\ maps'[p] \subseteq MayMap(At("undo", n + 1))
      /\ \A q \in Procs \ {p} :
           (q \in file' <=> q \in file) /\ maps'[q] = maps[q]
  <2>1. CASE n \in 1 .. 5
    <3>1. Drop(p, {}, {UndoSteps[n]})
      BY <1>4, <2>1 DEF Undo
    <3>2. p \in file' => MayFile(At("undo", n + 1))
      BY <1>1, <1>2, <1>3, <2>1, <3>1, DropUses, MayUndo DEF BoundedAt
    <3>3. maps'[p] \subseteq MayMap(At("undo", n + 1))
      <4>1. maps'[p] = maps[p] \ {UndoSteps[n]}
        BY <1>2, <3>1, DropUses
      <4>2. maps[p] \subseteq MayMap(At("undo", n))
        BY <1>1, <1>3 DEF BoundedAt
      <4>3. QED  BY <1>1, <4>1, <4>2, MayUndo
    <3>4. QED  BY <1>2, <3>1, <3>2, <3>3, DropUses
  <2>2. CASE n = 6
    <3>1. Drop(p, {p}, {})
      <4>1. n \notin 1 .. 5
        BY <2>2
      <4>2. UndoSteps[n] \notin Segments /\ UndoSteps[n] = "close rsx"
        BY <1>4, <2>2, <4>1
      <4>3. QED  BY <4>2 DEF Undo
    <3>2. p \notin file'
      BY <3>1 DEF Drop
    <3>3. maps'[p] \subseteq MayMap(At("undo", n + 1))
      <4>1. maps'[p] = maps[p] \ {}
        BY <1>2, <3>1, DropUses
      <4>2. maps[p] = {}
        BY <1>1, <1>3, <2>2, MayUndo DEF BoundedAt
      <4>3. QED  BY <4>1, <4>2
    <3>4. QED  BY <1>2, <3>1, <3>2, <3>3, DropUses
  <2>3. CASE n \in 7 .. 8
    <3>1. UNCHANGED deviceVars
      <4>1. n \notin 1 .. 5 /\ n # 6
        BY <2>3
      <4>2. UndoSteps[n] \notin Segments /\ UndoSteps[n] # "close rsx"
        BY <1>4, <4>1
      <4>3. QED  BY <4>2 DEF Undo
    <3>2. /\ p \in file' => MayFile(At("undo", n + 1))
          /\ maps'[p] \subseteq MayMap(At("undo", n + 1))
      BY <1>1, <1>3, <2>3, <3>1, MayUndo DEF BoundedAt, deviceVars
    <3>3. \A q \in Procs : UsesContext(q) => UsesContext(q)'
      BY <3>1 DEF deviceVars, UsesContext
    <3>4. QED  BY <3>1, <3>2, <3>3 DEF deviceVars
  <2>4. QED  BY <1>1, <2>1, <2>2, <2>3
<1>7. BoundedAt(p)'
  BY <1>2, <1>5, <1>6, Places DEF BoundedAt
<1>8. \A q \in Procs : BoundedAt(q)'
  BY <1>2, <1>5, <1>6, <1>7, OthersBounded
<1>9. QED  BY <1>5, <1>6, <1>8 DEF LeftInv

(* The end of a process.                                                   *)
LEMMA ExitLeft ==
  ASSUME IInv, LeftInv, NEW p \in Procs, call[p] = "none", Exit(p)
  PROVE  LeftInv'
<1> USE DEF IInv, LibTypes
<1>1. /\ pc'[p] = Idle /\ \A q \in Procs \ {p} : pc'[q] = pc[q]
      /\ p \notin fb' /\ p \notin file' /\ maps'[p] = {}
  BY DEF Exit, Jump, CloseFb, Drop, DInv, DeviceTypes
<1>2. /\ \A q \in Procs : UsesContext(q) => UsesContext(q)'
      /\ UNCHANGED context
      /\ \A q \in Procs \ {p} :
           (q \in file' <=> q \in file) /\ maps'[q] = maps[q]
  BY DropUses DEF Exit
<1>3. /\ fb' = {} => direct' = 0
      /\ \A q \in Procs \ {p} : q \in fb' <=> q \in fb
  BY DirectLeft DEF Exit
<1>4. BoundedAt(p)'
  BY <1>1, Places DEF BoundedAt
<1>5. \A q \in Procs : BoundedAt(q)'
  BY <1>1, <1>2, <1>3, <1>4, OthersBounded
<1>6. QED  BY <1>2, <1>3, <1>5 DEF LeftInv

(* All the steps of the programs.                                          *)
LEMMA ProgramsLeft ==
  ASSUME IInv, LeftInv, Next, ~(KernelStep /\ UNCHANGED libVars)
  PROVE  LeftInv'
<1> USE DEF IInv, LibTypes
<1>1. PICK p \in Procs :
        \/ Start(p) \/ Look(p) \/ OpenFb(p) \/ On(p) \/ OpenRsx(p)
        \/ MapResource(p) \/ Exclusive(p) \/ Returned(p)
        \/ ReadLine(p) \/ WaitFetched(p) \/ Patch(p) \/ WriteLine(p)
        \/ WaitWritten(p)
        \/ Undo(p) \/ Return(p) \/ Sigint(p) \/ Kill(p)
  BY DEF Next
<1>2. BoundedAt(p) /\ maps[p] \subseteq Segments
  BY DEF LeftInv, DInv, DeviceTypes
<1>3. CASE Start(p)
  <2>1. /\ pc[p] = Idle /\ Jump(p, At("init", 1))
        /\ UNCHANGED <<file, maps, fb, context, call, direct>>
    BY <1>3 DEF Start, deviceVars
  <2>2. p \notin fb /\ p \notin file /\ maps[p] = {}
    BY <1>2, <2>1, MayUndo DEF BoundedAt
  <2>3. At("init", 1).n = 1
    BY DEF At
  <2>4. QED  BY <2>1, <2>2, <2>3, MoveLeft DEF LeftInv
<1>4. CASE \/ ReadLine(p) \/ WaitFetched(p) \/ Patch(p) \/ WriteLine(p)
           \/ WaitWritten(p) \/ Sigint(p)
  <2>1. UNCHANGED <<file, maps, fb, context, call, direct>>
    BY <1>4
    DEF ReadLine, WaitFetched, Patch, WriteLine, WaitWritten, Push, Sigint,
        deviceVars
  <2>2. PICK to : /\ Jump(p, to)
                  /\ MayFb(to) /\ MayFile(to) /\ MayMap(to) = Segments
                  /\ to.at # "init"
    <3>1. CASE Sigint(p)
      BY <3>1, MayUndo, Places DEF Sigint
    <3>2. CASE WaitWritten(p) /\ pc[p].n = Len(Object)
      BY <3>2, MayUndo, Places DEF WaitWritten
    <3>3. CASE ~Sigint(p) /\ ~(WaitWritten(p) /\ pc[p].n = Len(Object))
      <4>1. pc[p].n \in 1 .. Len(Object)
        BY <1>4, <3>3, Places
        DEF ReadLine, WaitFetched, Patch, WriteLine, WaitWritten, UseAt, Uses
      <4>2. PICK u \in Uses, n \in Nat : Jump(p, At(u, n))
        <5>1. CASE WaitWritten(p)
          BY <3>3, <4>1, <5>1, LibAssumption DEF WaitWritten, Uses
        <5>2. CASE ~WaitWritten(p)
          BY <1>4, <3>3, <4>1, <5>2
          DEF ReadLine, WaitFetched, Patch, WriteLine, Push, Uses
        <5>3. QED  BY <5>1, <5>2
      <4>3. At(u, n).at # "init"
        BY Places DEF Uses
      <4>4. QED  BY <4>2, <4>3, MayUndo
    <3>4. QED  BY <3>1, <3>2, <3>3
  <2>3. QED  BY <1>2, <2>1, <2>2, MoveLeft DEF LeftInv
<1>5. CASE (Return(p) \/ Kill(p)) /\ Exit(p)
  BY <1>5, ExitLeft DEF Return, Kill
<1>6. CASE (Return(p) \/ Kill(p)) /\ ~Exit(p)
  <2>1. /\ pc[p] = At("undo", 9) /\ Jump(p, saved[p])
        /\ saved[p].at = "undo"
        /\ UNCHANGED <<file, maps, fb, context, call, direct>>
    BY <1>6 DEF Return, Kill, deviceVars
  <2>2. p \notin fb /\ p \notin file /\ maps[p] = {}
    BY <1>2, <2>1, MayUndo DEF BoundedAt
  <2>3. QED  BY <2>1, <2>2, MoveLeft DEF LeftInv
<1>7. QED
  BY <1>1, <1>3, <1>4, <1>5, <1>6, GpuInitLeft, UndoLeft

(* What nobody holds is free.                                              *)
LEMMA LeftNothing ==
  ASSUME IInv, LeftInv
  PROVE  NothingLeft
<1> USE DEF IInv, LeftInv
<1>1. ASSUME NEW p \in Procs, pc[p] = At("undo", 9), call[p] = "none"
      PROVE  ~Holds(p) /\ p \notin fb
  BY <1>1, MayUndo DEF BoundedAt, Holds, ReleaseCalls
<1>2. ASSUME \A p \in Procs : pc[p] = Idle /\ call[p] = "none"
      PROVE  (available = 1 \/ broken) /\ ~context /\ direct = 0
  <2>1. \A p \in Procs : p \notin file /\ maps[p] = {} /\ p \notin fb
    BY <1>2, MayUndo DEF BoundedAt
  <2>2. Counted = {}
    BY <1>2, <2>1 DEF Counted, Holds, ReleaseCalls
  <2>3. available = 1 \/ broken
    BY <2>2, FS_EmptySet DEF DInv, Accounted, DeviceTypes
  <2>4. ~context
    BY <1>2, <2>1 DEF UsesContext, DInv, DeviceTypes
  <2>5. fb = {}
    BY <2>1 DEF LibTypes
  <2>6. QED  BY <2>3, <2>4, <2>5
<1>3. QED  BY <1>1, <1>2 DEF NothingLeft

(* Whatever failed, was interrupted or killed: nothing is left behind.     *)
THEOREM CleanedUp == Spec => []NothingLeft
<1>1. Init => LeftInv
  <2>1. SUFFICES ASSUME Init  PROVE LeftInv
    OBVIOUS
  <2>2. \A p \in Procs : BoundedAt(p)
    BY <2>1, Places DEF Init, DeviceInit, BoundedAt
  <2>3. QED  BY <2>1, <2>2 DEF Init, DeviceInit, LeftInv
<1>2. IInv /\ LeftInv /\ [Next]_vars => LeftInv'
  <2>1. SUFFICES ASSUME IInv, LeftInv, [Next]_vars  PROVE  LeftInv'
    OBVIOUS
  <2>2. CASE UNCHANGED vars
    BY <2>1, <2>2
    DEF vars, deviceVars, libVars, LeftInv, BoundedAt, UsesContext
  <2>3. QED  BY <2>1, <2>2, KernelLeft, ProgramsLeft
<1>3. IInv /\ LeftInv => NothingLeft
  BY LeftNothing
<1>4. QED  BY <1>1, <1>2, <1>3, Invariance, PTL DEF Spec

-----------------------------------------------------------------------------
(* The words of the object up to the n-th, in RAMIN, and those of a line   *)
(* in the video memory; a line that is still to be written back.           *)
LineOf(n) == Object[n][1]
InObject(w) == \E n \in 1 .. Len(Object) : Object[n] = w
Copied(p, k) == \A n \in 1 .. k : ramin[Object[n]] = p
InVram(p, k, l) == \A n \in 1 .. k : LineOf(n) = l => vram[Object[n][2]] = p
Pending(p, k, l) ==
  /\ InVram(p, k, l)
  /\ \A n \in 1 .. k : LineOf(n) # l => ramin[Object[n]] = p
Clean(l) == \A o \in Offsets : ~InObject(<<l, o>>) => vram[o] = Nobody

(* The commands on their way to the GPU.                                   *)
Rd(l) == [op |-> "read", line |-> l]
Wr(l) == [op |-> "write", line |-> l]
Empty == engine = <<>> /\ fifo = <<>>
One(c) == \/ engine = <<c>> /\ fifo = <<>>
          \/ engine = <<>> /\ fifo = <<c>>
Two(c, d) == \/ engine = <<c>> /\ fifo = <<d>>
             \/ engine = <<c, d>> /\ fifo = <<>>

WordRead(p, k, l) ==
  \/ k > 1 /\ Two(Wr(LineOf(k - 1)), Rd(l)) /\ Pending(p, k - 1, LineOf(k - 1))
  \/ One(Rd(l)) /\ Copied(p, k - 1)
  \/ Empty /\ Copied(p, k - 1) /\ InVram(p, k - 1, l) /\ Clean(l)

WordAt(p, at, k, l) ==
  /\ at = "read" => \/ Empty /\ Copied(p, k - 1)
                    \/ /\ k > 1 /\ engine = <<Wr(LineOf(k - 1))>> /\ fifo = <<>>
                       /\ Pending(p, k - 1, LineOf(k - 1))
  /\ at = "fetched" => WordRead(p, k, l)
  /\ at = "patch" =>
       Empty /\ Copied(p, k - 1) /\ InVram(p, k - 1, l) /\ Clean(l)
  /\ at = "write" =>
       Empty /\ Copied(p, k - 1) /\ InVram(p, k, l) /\ Clean(l)
  /\ at = "written" => \/ One(Wr(l)) /\ Pending(p, k, l)
                       \/ Empty /\ Copied(p, k)

(* Where the program is in the writing of its object; a line that is       *)
(* written back is first in its queue and has nothing of other words.      *)
WritingAt(p) ==
  /\ pc[p].at \in Uses =>
       p \in file /\ WordAt(p, pc[p].at, pc[p].n, LineOf(pc[p].n))
  /\ pc[p].at = "init" /\ p \in file => Empty

WritesClean ==
  /\ \A i \in 1 .. Len(engine) :
       engine[i].op = "write" => i = 1 /\ Clean(engine[i].line)
  /\ \A i \in 1 .. Len(fifo) :
       fifo[i].op = "write" => i = 1 /\ engine = <<>> /\ Clean(fifo[i].line)

Untouched == \A w \in Words : ~InObject(w) => ramin[w] = Nobody

WriteInv ==
  /\ \A p \in Procs : WritingAt(p)
  /\ WritesClean
  /\ Untouched

-----------------------------------------------------------------------------
(* Queues of one and two commands.                                         *)
LEMMA ShortQueues ==
  ASSUME NEW c, NEW d
  PROVE  /\ Head(<<c>>) = c /\ Tail(<<c>>) = <<>> /\ <<c>> # <<>>
         /\ Head(<<c, d>>) = c /\ Tail(<<c, d>>) = <<d>> /\ <<c, d>> # <<>>
         /\ Append(<<>>, c) = <<c>> /\ Append(<<c>>, d) = <<c, d>>
<1>1. Head(<<c>>) = c /\ <<c>> # <<>> /\ Head(<<c, d>>) = c /\ <<c, d>> # <<>>
  OBVIOUS
<1>2. Tail(<<c>>) = <<>>
  OBVIOUS
<1>3. Tail(<<c, d>>) = <<d>>
  OBVIOUS
<1>4. Append(<<>>, c) = <<c>>
  OBVIOUS
<1>5. Append(<<c>>, d) = <<c, d>>
  <2>1. <<c>> \in Seq({c, d}) /\ <<c, d>> \in Seq({c, d}) /\ d \in {c, d}
    OBVIOUS
  <2>2. /\ Append(<<c>>, d) \in Seq({c, d}) /\ Len(Append(<<c>>, d)) = 2
        /\ Append(<<c>>, d)[1] = c /\ Append(<<c>>, d)[2] = d
    BY <2>1
  <2>3. Len(<<c, d>>) = 2 /\ <<c, d>>[1] = c /\ <<c, d>>[2] = d
    OBVIOUS
  <2>4. \A i \in 1 .. 2 : Append(<<c>>, d)[i] = <<c, d>>[i]
    BY <2>2, <2>3
  <2>5. QED  BY <2>1, <2>2, <2>3, <2>4, SeqEqual
<1>6. QED  BY <1>1, <1>2, <1>3, <1>4, <1>5

(* A word of the object is at a line and a place of the line.              *)
LEMMA ObjectWords ==
  ASSUME NEW n \in 1 .. Len(Object)
  PROVE  /\ LineOf(n) \in Lines /\ Object[n][2] \in Offsets
         /\ Object[n] = <<LineOf(n), Object[n][2]>>
         /\ Object[n] \in Words /\ InObject(Object[n])
<1>1. Object[n] \in Lines \X Offsets
  BY LibAssumption DEF Words
<1>2. QED  BY <1>1 DEF LineOf, Words, InObject

(* The GPU fetches and executes what is on its way in order.               *)
LEMMA FetchQueue ==
  ASSUME Fetch
  PROVE  /\ ~Empty /\ UNCHANGED <<ramin, vram, file>>
         /\ \A c : One(c) => One(c)'
         /\ \A c, d : Two(c, d) => Two(c, d)'
         /\ \A c : ~(engine = <<c>> /\ fifo = <<>>)
<1>1. /\ fifo # <<>> /\ fifo' = Tail(fifo)
      /\ engine' = Append(engine, Head(fifo))
      /\ UNCHANGED <<ramin, vram, file>>
  BY DEF Fetch, deviceVars
<1>2. ASSUME NEW c, One(c)  PROVE One(c)'
  <2>1. engine = <<>> /\ fifo = <<c>>
    BY <1>1, <1>2 DEF One
  <2>2. engine' = <<c>> /\ fifo' = <<>>
    BY <1>1, <2>1, ShortQueues
  <2>3. QED  BY <2>2 DEF One
<1>3. ASSUME NEW c, NEW d, Two(c, d)  PROVE Two(c, d)'
  <2>1. engine = <<c>> /\ fifo = <<d>>
    BY <1>1, <1>3 DEF Two
  <2>2. fifo' = <<>> /\ engine' = Append(<<c>>, d)
    BY <1>1, <2>1, ShortQueues
  <2>3. engine' = <<c, d>>
    BY <2>2, ShortQueues
  <2>4. QED  BY <2>2, <2>3 DEF Two
<1>4. QED  BY <1>1, <1>2, <1>3 DEF Empty

LEMMA ExecuteQueue ==
  ASSUME Execute
  PROVE  /\ ~Empty /\ UNCHANGED file
         /\ \A c : One(c) => Head(engine) = c /\ Empty'
         /\ \A c, d : Two(c, d) => Head(engine) = c /\ One(d)'
<1>1. engine # <<>> /\ engine' = Tail(engine) /\ UNCHANGED <<fifo, file>>
  BY DEF Execute, deviceVars
<1>2. ASSUME NEW c, One(c)  PROVE Head(engine) = c /\ Empty'
  <2>1. engine = <<c>> /\ fifo = <<>>
    BY <1>1, <1>2 DEF One
  <2>2. Head(engine) = c /\ engine' = <<>>
    BY <1>1, <2>1, ShortQueues
  <2>3. QED  BY <1>1, <2>1, <2>2 DEF Empty
<1>3. ASSUME NEW c, NEW d, Two(c, d)  PROVE Head(engine) = c /\ One(d)'
  <2>1. CASE engine = <<c>> /\ fifo = <<d>>
    <3>1. Head(engine) = c /\ engine' = <<>> /\ fifo' = <<d>>
      BY <1>1, <2>1, ShortQueues
    <3>2. QED  BY <3>1 DEF One
  <2>2. CASE engine = <<c, d>> /\ fifo = <<>>
    <3>1. Head(engine) = c /\ engine' = <<d>> /\ fifo' = <<>>
      BY <1>1, <2>2, ShortQueues
    <3>2. QED  BY <3>1 DEF One
  <2>3. QED  BY <1>3, <2>1, <2>2 DEF Two
<1>4. QED  BY <1>1, <1>2, <1>3 DEF Empty

(* A line that is read brings the words of the object that are in RAMIN    *)
(* with it, and no others.                                                 *)
LEMMA ExecuteRead ==
  ASSUME GpuTypes, Untouched, Execute, NEW l \in Lines, Head(engine) = Rd(l)
  PROVE  /\ \A p \in Procs : \A k \in Int : k <= Len(Object) =>
              /\ Copied(p, k) => Copied(p, k)'
              /\ Copied(p, k) => InVram(p, k, l)'
         /\ Clean(l)'
<1>0. Head(engine).op = "read" /\ Head(engine).line = l
  BY DEF Rd
<1>1. vram' = [o \in Offsets |-> ramin[<<l, o>>]]
  BY <1>0 DEF Execute
<1>2. ramin' = ramin
  <2>1. ramin' = [w \in Words |-> ramin[w]]
    BY <1>0 DEF Execute
  <2>2. QED  BY <2>1 DEF GpuTypes
<1>3. ASSUME NEW p \in Procs, NEW k \in Int, k <= Len(Object), Copied(p, k)
      PROVE  InVram(p, k, l)'
  <2>1. SUFFICES ASSUME NEW n \in 1 .. k, LineOf(n) = l
                 PROVE  vram'[Object[n][2]] = p
    BY DEF InVram, LineOf
  <2>2. n \in 1 .. Len(Object)
    BY <1>3, LibAssumption
  <2>3. vram'[Object[n][2]] = ramin[Object[n]]
    BY <1>1, <2>1, <2>2, ObjectWords
  <2>4. QED  BY <1>3, <2>3 DEF Copied
<1>4. Clean(l)'
  <2>1. SUFFICES ASSUME NEW o \in Offsets, ~InObject(<<l, o>>)
                 PROVE  vram'[o] = Nobody
    BY DEF Clean, InObject
  <2>2. <<l, o>> \in Words
    BY DEF Words
  <2>3. QED  BY <1>1, <2>1, <2>2 DEF Untouched
<1>5. QED  BY <1>2, <1>3, <1>4 DEF Copied

(* A line that is written back completes what was written before it.       *)
LEMMA ExecuteWrite ==
  ASSUME GpuTypes, Execute, NEW l \in Lines, Head(engine) = Wr(l)
  PROVE  /\ UNCHANGED vram
         /\ \A p \in Procs : \A k \in Int :
              k <= Len(Object) /\ Pending(p, k, l) => Copied(p, k)'
<1>0. Head(engine).op = "write" /\ Head(engine).line = l
  BY DEF Wr
<1>1. UNCHANGED vram
  BY <1>0 DEF Execute
<1>2. \A w \in Words : ramin'[w] = IF w[1] = l THEN vram[w[2]] ELSE ramin[w]
  BY <1>0 DEF Execute
<1>3. ASSUME NEW p \in Procs, NEW k \in Int, k <= Len(Object), Pending(p, k, l)
      PROVE  Copied(p, k)'
  <2>1. SUFFICES ASSUME NEW n \in 1 .. k  PROVE  ramin'[Object[n]] = p
    BY DEF Copied
  <2>2. n \in 1 .. Len(Object)
    BY <1>3, LibAssumption
  <2>3. Object[n] \in Words /\ Object[n][1] = LineOf(n)
    BY <2>2, ObjectWords DEF LineOf
  <2>4. ramin'[Object[n]] = IF LineOf(n) = l THEN vram[Object[n][2]]
                            ELSE ramin[Object[n]]
    BY <1>2, <2>3
  <2>5. QED  BY <1>3, <2>4 DEF Pending, InVram
<1>4. QED  BY <1>1, <1>3

(* What the GPU does keeps the queue and the other words clean.            *)
LEMMA GpuClean ==
  ASSUME GpuTypes, WritesClean, Untouched, Fetch \/ Execute
  PROVE  WritesClean' /\ Untouched'
<1> USE DEF GpuTypes
<1>1. CASE Fetch
  <2>1. /\ fifo # <<>> /\ fifo' = Tail(fifo) /\ engine' = Append(engine, Head(fifo))
        /\ UNCHANGED <<ramin, vram>>
    BY <1>1 DEF Fetch
  <2>2. /\ Len(engine) \in Nat /\ Len(engine') = Len(engine) + 1
        /\ \A i \in 1 .. Len(engine) : engine'[i] = engine[i]
        /\ engine'[Len(engine) + 1] = fifo[1]
        /\ engine' # <<>> /\ (engine = <<>> <=> Len(engine) = 0)
    BY <2>1
  <2>3. /\ Len(fifo) \in Nat \ {0} /\ Len(fifo') = Len(fifo) - 1
        /\ \A i \in 1 .. Len(fifo') : fifo'[i] = fifo[i + 1]
    BY <2>1
  <2>4. ASSUME NEW i \in 1 .. Len(engine'), engine'[i].op = "write"
        PROVE  i = 1 /\ Clean(engine'[i].line)
    <3>1. CASE i \in 1 .. Len(engine)
      BY <2>2, <2>4, <3>1 DEF WritesClean
    <3>2. CASE i = Len(engine) + 1
      <4>1. fifo[1].op = "write" /\ 1 \in 1 .. Len(fifo)
        BY <2>2, <2>3, <2>4, <3>2
      <4>2. engine = <<>> /\ Clean(fifo[1].line)
        BY <4>1 DEF WritesClean
      <4>3. QED  BY <2>2, <3>2, <4>2
    <3>3. QED  BY <2>2, <3>1, <3>2
  <2>5. ASSUME NEW i \in 1 .. Len(fifo')  PROVE fifo'[i].op # "write"
    <3>1. i + 1 \in 1 .. Len(fifo) /\ i + 1 # 1
      BY <2>3
    <3>2. QED  BY <2>3, <3>1 DEF WritesClean
  <2>6. \A l : Clean(l)' <=> Clean(l)
    BY <2>1 DEF Clean, InObject
  <2>7. QED  BY <2>1, <2>4, <2>5, <2>6 DEF WritesClean, Untouched, InObject
<1>2. CASE Execute
  <2>1. /\ engine # <<>> /\ engine' = Tail(engine) /\ UNCHANGED fifo
        /\ Head(engine) \in Commands
    BY <1>2 DEF Execute
  <2>2. /\ Len(engine) \in Nat \ {0} /\ Len(engine') = Len(engine) - 1
        /\ \A i \in 1 .. Len(engine') : engine'[i] = engine[i + 1]
        /\ Head(engine) = engine[1]
    BY <2>1
  <2>3. ASSUME NEW i \in 1 .. Len(engine')  PROVE engine'[i].op # "write"
    <3>1. i + 1 \in 1 .. Len(engine) /\ i + 1 # 1
      BY <2>2
    <3>2. QED  BY <2>2, <3>1 DEF WritesClean
  <2>4. \A i \in 1 .. Len(fifo) : fifo[i].op # "write"
    BY <2>1 DEF WritesClean
  <2>5. Untouched'
    <3>1. SUFFICES ASSUME NEW w \in Words, ~InObject(w)
                   PROVE  ramin'[w] = Nobody
      BY DEF Untouched, InObject
    <3>2. ramin[w] = Nobody
      BY <3>1 DEF Untouched
    <3>3. CASE Head(engine).op = "write" /\ w[1] = Head(engine).line
      <4>1. Clean(Head(engine).line) /\ w[2] \in Offsets /\ w = <<w[1], w[2]>>
        BY <2>2, <3>3 DEF WritesClean, Words
      <4>2. vram[w[2]] = Nobody
        BY <3>1, <3>3, <4>1 DEF Clean
      <4>3. ramin'[w] = vram[w[2]]
        BY <1>2, <3>3 DEF Execute
      <4>4. QED  BY <4>2, <4>3
    <3>4. CASE ~(Head(engine).op = "write" /\ w[1] = Head(engine).line)
      BY <1>2, <3>2, <3>4 DEF Execute
    <3>5. QED  BY <3>3, <3>4
  <2>6. QED  BY <2>1, <2>3, <2>4, <2>5 DEF WritesClean
<1>3. QED  BY <1>1, <1>2

-----------------------------------------------------------------------------
(* The GPU's steps keep the place of the program in its object.            *)
LEMMA GpuWriting ==
  ASSUME GpuTypes, Untouched, Fetch \/ Execute, UNCHANGED pc, LibTypes,
         NEW p \in Procs, WritingAt(p)
  PROVE  WritingAt(p)'
<1> DEFINE k == pc[p].n
           l == LineOf(k)
           m == LineOf(k - 1)
<1>1. UNCHANGED file /\ ~Empty
  BY FetchQueue, ExecuteQueue
<1>2. pc'[p].at = "init" /\ p \in file' => Empty'
  BY <1>1 DEF WritingAt
<1>3. SUFFICES ASSUME pc[p].at \in Uses
               PROVE  WordAt(p, pc[p].at, k, LineOf(k))'
  BY <1>1, <1>2 DEF WritingAt
<1>4. /\ k \in 1 .. Len(Object) /\ k \in Int /\ k <= Len(Object)
      /\ k - 1 \in Int /\ k - 1 <= Len(Object) /\ l \in Lines
      /\ k > 1 => m \in Lines
  <2>1. k \in 1 .. Len(Object) /\ Len(Object) \in Nat
    BY <1>3, Places, LibAssumption DEF LibTypes
  <2>2. l \in Lines
    BY <2>1, ObjectWords
  <2>3. k > 1 => k - 1 \in 1 .. Len(Object)
    BY <2>1
  <2>4. k > 1 => m \in Lines
    BY <2>3, ObjectWords
  <2>5. QED  BY <2>1, <2>2, <2>4
<1>5. WordAt(p, pc[p].at, k, l)
  BY <1>3 DEF WritingAt
<1>6. CASE Fetch
  <2>1. /\ \A j, h : Copied(p, j)' <=> Copied(p, j)
        /\ \A j, h : Pending(p, j, h)' <=> Pending(p, j, h)
    BY <1>6, FetchQueue DEF Copied, Pending, InVram, LineOf
  <2>2. pc[p].at \in {"fetched", "written"}
    BY <1>1, <1>3, <1>5, <1>6, FetchQueue DEF WordAt, Uses
  <2>3. QED
    BY <1>1, <1>5, <1>6, <2>1, <2>2, FetchQueue
    DEF WordAt, WordRead, LineOf, Rd, Wr
<1>7. CASE Execute
  <2>1. CASE pc[p].at = "read"
    <3>1. k > 1 /\ One(Wr(m)) /\ Pending(p, k - 1, m)
      BY <1>1, <1>5, <2>1 DEF WordAt, One
    <3>2. Empty' /\ Copied(p, k - 1)'
      BY <1>4, <1>7, <3>1, ExecuteQueue, ExecuteWrite
    <3>3. QED  BY <2>1, <3>2 DEF WordAt
  <2>2. CASE pc[p].at = "fetched"
    <3>1. CASE k > 1 /\ Two(Wr(m), Rd(l)) /\ Pending(p, k - 1, m)
      <4>1. One(Rd(l))' /\ Copied(p, k - 1)'
        BY <1>4, <1>7, <3>1, ExecuteQueue, ExecuteWrite
      <4>2. QED  BY <2>2, <4>1 DEF WordAt, WordRead, LineOf, Rd
    <3>2. CASE One(Rd(l)) /\ Copied(p, k - 1)
      <4>1. Empty' /\ Copied(p, k - 1)' /\ InVram(p, k - 1, l)' /\ Clean(l)'
        BY <1>4, <1>7, <3>2, ExecuteQueue, ExecuteRead
      <4>2. QED  BY <2>2, <4>1 DEF WordAt, WordRead, LineOf
    <3>3. QED  BY <1>1, <1>5, <2>2, <3>1, <3>2 DEF WordAt, WordRead
  <2>3. CASE pc[p].at = "written"
    <3>1. One(Wr(l)) /\ Pending(p, k, l)
      BY <1>1, <1>5, <2>3 DEF WordAt
    <3>2. Empty' /\ Copied(p, k)'
      BY <1>4, <1>7, <3>1, ExecuteQueue, ExecuteWrite
    <3>3. QED  BY <2>3, <3>2 DEF WordAt
  <2>4. QED  BY <1>1, <1>3, <1>5, <2>1, <2>2, <2>3 DEF WordAt, Uses
<1>8. QED  BY <1>6, <1>7

-----------------------------------------------------------------------------
(* One process at a time has the device open, and none while another's     *)
(* call of open or release is under way.                                   *)
LEMMA OneUser ==
  ASSUME DInv, NEW p \in Procs, NEW q \in Procs, p \in file, Holds(q)
  PROVE  p = q
BY DEF DInv, OneOwner, Holds

(* The kernel's own steps: while they touch the FIFO nobody has the device *)
(* open, and an open that succeeds finds both queues empty.                *)
LEMMA KernelWriting ==
  ASSUME IInv, WriteInv, KernelStep, UNCHANGED libVars
  PROVE  WriteInv'
<1> USE DEF IInv, libVars
<1>1. CASE Fetch \/ Execute
  BY <1>1, GpuClean, GpuWriting DEF WriteInv
<1>2. ASSUME NEW p \in Procs, OpenRefuse(p) \/ ReleaseGiveBack(p)
      PROVE  WriteInv'
  BY <1>2
  DEF OpenRefuse, ReleaseGiveBack, gpuVars, WriteInv, WritingAt, WordAt,
      WordRead, WritesClean, Untouched, Clean, Copied, InVram, Pending, Empty,
      One, Two
<1>3. ASSUME NEW p \in Procs,
             Allocate(p) \/ ReleaseFree(p) \/ SetupLook(p)
      PROVE  WriteInv'
  <2>1. Holds(p) /\ p \notin file
    BY <1>3
    DEF Allocate, ReleaseFree, SetupLook, Holds, DInv, NotYet, OpenCalls,
        ReleaseCalls
  <2>2. \A q \in Procs : q \notin file /\ pc[q].at \notin Uses
    BY <2>1, OneUser DEF WriteInv, WritingAt
  <2>3. /\ UNCHANGED <<engine, ramin, vram>>
        /\ fifo' \in {fifo, <<>>, <<[op |-> "setup"]>>}
    BY <1>3 DEF Allocate, ReleaseFree, SetupLook
  <2>4. \A q \in Procs : q \in file' => Empty'
    <3>1. CASE Allocate(p) \/ ReleaseFree(p)
      BY <2>2, <3>1 DEF Allocate, ReleaseFree
    <3>2. CASE SetupLook(p)
      <4>1. CASE call'[p] # "ok"
        BY <2>2, <3>2, <4>1 DEF SetupLook
      <4>2. CASE call'[p] = "ok"
        <5>1. Empty
          BY <3>2, <4>2 DEF SetupLook, FifoLook, Enter, Empty, DInv, DeviceTypes
        <5>2. UNCHANGED <<fifo, engine>>
          BY <3>2, <4>2 DEF SetupLook
        <5>3. QED  BY <5>1, <5>2 DEF Empty
      <4>3. QED  BY <4>1, <4>2
    <3>3. QED  BY <1>3, <3>1, <3>2
  <2>5. \A q \in Procs : WritingAt(q)'
    BY <2>2, <2>4 DEF WritingAt
  <2>6. WritesClean'
    <3>1. \A l : Clean(l)' <=> Clean(l)
      BY <2>3 DEF Clean, InObject
    <3>2. CASE fifo' = fifo
      BY <2>3, <3>1, <3>2 DEF WriteInv, WritesClean
    <3>3. CASE fifo' \in {<<>>, <<[op |-> "setup"]>>}
      <4>1. \A i \in 1 .. Len(fifo') : fifo'[i].op # "write"
        BY <3>3
      <4>2. QED  BY <2>3, <3>1, <4>1 DEF WriteInv, WritesClean
    <3>4. QED  BY <2>3, <3>2, <3>3
  <2>7. QED  BY <2>3, <2>5, <2>6 DEF WriteInv, Untouched, InObject
<1>4. QED  BY <1>1, <1>2, <1>3 DEF KernelStep

(* A program's step that leaves the GPU alone and does not move in its     *)
(* object.                                                                 *)
LEMMA AwayWriting ==
  ASSUME IInv, WriteInv, NEW p \in Procs, UNCHANGED gpuVars,
         \A q \in Procs \ {p} : pc'[q] = pc[q] /\ (q \in file' <=> q \in file),
         WritingAt(p)'
  PROVE  WriteInv'
<1>1. ASSUME NEW q \in Procs \ {p}  PROVE WritingAt(q)'
  BY <1>1
  DEF WriteInv, gpuVars, WritingAt, WordAt, WordRead, Clean, Copied, InVram,
      Pending, Empty, One, Two
<1>2. WritesClean' /\ Untouched'
  BY DEF WriteInv, gpuVars, WritesClean, Untouched, Clean
<1>3. QED  BY <1>1, <1>2 DEF WriteInv

(* A step of the one that uses the GPU.                                    *)
LEMMA UserWriting ==
  ASSUME IInv, WriteInv, NEW p \in Procs, p \in file, UNCHANGED file,
         NEW to, Jump(p, to), to.at \in Uses,
         WordAt(p, to.at, to.n, LineOf(to.n))', WritesClean', Untouched'
  PROVE  WriteInv'
<1>1. pc'[p] = to /\ \A q \in Procs \ {p} : pc'[q] = pc[q]
  BY DEF Jump, IInv, LibTypes
<1>2. WritingAt(p)'
  BY <1>1 DEF WritingAt, LineOf, Uses
<1>3. ASSUME NEW q \in Procs \ {p}  PROVE WritingAt(q)'
  <2>1. q \notin file
    BY OneUser DEF IInv, Holds
  <2>2. pc[q].at \notin Uses
    BY <2>1 DEF WriteInv, WritingAt
  <2>3. QED  BY <1>1, <2>1, <2>2 DEF WritingAt
<1>4. QED  BY <1>2, <1>3 DEF WriteInv

(* The steps in an object.                                                 *)
LEMMA WordSteps ==
  ASSUME IInv, WriteInv, NEW p \in Procs,
         \/ ReadLine(p) \/ WaitFetched(p) \/ Patch(p) \/ WriteLine(p)
         \/ WaitWritten(p)
  PROVE  WriteInv'
<1> USE DEF IInv, LibTypes
<1> SUFFICES ASSUME NEW k, k = pc[p].n, NEW l, l = LineOf(k)
             PROVE  WriteInv'
  OBVIOUS
<1>1. pc[p].at \in Uses /\ Uses = {"read", "fetched", "patch", "write", "written"}
  BY DEF ReadLine, WaitFetched, Patch, WriteLine, WaitWritten, UseAt, Uses
<1>2. k \in 1 .. Len(Object) /\ Len(Object) \in Nat
  BY <1>1, Places, LibAssumption
<1>3. p \in file /\ WordAt(p, pc[p].at, k, l)
  BY <1>1 DEF WriteInv, WritingAt
<1>4. UNCHANGED file
  BY DEF ReadLine, WaitFetched, Patch, WriteLine, WaitWritten, Push, deviceVars
<1>5. /\ l \in Lines /\ Object[k][2] \in Offsets
      /\ Object[k] = <<l, Object[k][2]>> /\ InObject(Object[k])
      /\ Word(p) = Object[k] /\ Word(p)[1] = l
  BY <1>2, ObjectWords DEF Word, LineOf
<1>6. CASE ReadLine(p)
  <2>1. /\ Jump(p, At("fetched", k)) /\ fifo' = Append(fifo, Rd(l))
        /\ UNCHANGED <<engine, ramin, vram>> /\ pc[p].at = "read"
    BY <1>5, <1>6 DEF ReadLine, Push, UseAt, Rd
  <2>2. WordRead(p, k, l)'
    <3>1. CASE Empty /\ Copied(p, k - 1)
      <4>1. engine' = <<>> /\ fifo' = <<Rd(l)>>
        BY <2>1, <3>1, ShortQueues DEF Empty
      <4>2. One(Rd(l))' /\ Copied(p, k - 1)'
        BY <2>1, <3>1, <4>1 DEF One, Copied, Rd
      <4>3. QED  BY <4>2 DEF WordRead, Rd
    <3>2. CASE /\ k > 1 /\ engine = <<Wr(LineOf(k - 1))>> /\ fifo = <<>>
               /\ Pending(p, k - 1, LineOf(k - 1))
      <4>1. engine' = <<Wr(LineOf(k - 1))>> /\ fifo' = <<Rd(l)>>
        BY <2>1, <3>2, ShortQueues
      <4>2. Two(Wr(LineOf(k - 1)), Rd(l))' /\ Pending(p, k - 1, LineOf(k - 1))'
        BY <2>1, <3>2, <4>1 DEF Two, Pending, InVram, Rd, Wr, LineOf
      <4>3. QED  BY <3>2, <4>2 DEF WordRead, Rd, Wr, LineOf
    <3>3. QED  BY <1>3, <2>1, <3>1, <3>2 DEF WordAt
  <2>3. WritesClean'
    <3>1. \A h : Clean(h)' <=> Clean(h)
      BY <2>1 DEF Clean, InObject
    <3>2. fifo = <<>>
      BY <1>3, <2>1 DEF WordAt, Empty
    <3>3. fifo' = <<Rd(l)>>
      BY <2>1, <3>2, ShortQueues
    <3>4. \A i \in 1 .. Len(fifo') : fifo'[i].op # "write"
      BY <3>3 DEF Rd
    <3>5. QED  BY <2>1, <3>1, <3>4 DEF WriteInv, WritesClean
  <2>4. Untouched'
    BY <2>1 DEF WriteInv, Untouched, InObject
  <2>5. /\ At("fetched", k).at = "fetched" /\ At("fetched", k).n = k
        /\ WordAt(p, "fetched", k, l)'
    BY <2>2, Places DEF WordAt, LineOf
  <2>6. QED  BY <1>1, <1>3, <1>4, <2>1, <2>3, <2>4, <2>5, UserWriting
<1>7. CASE WaitFetched(p)
  <2>1. /\ Jump(p, At("patch", k)) /\ Empty /\ UNCHANGED gpuVars
        /\ pc[p].at = "fetched"
    BY <1>7 DEF WaitFetched, UseAt, Empty
  <2>2. Copied(p, k - 1) /\ InVram(p, k - 1, l) /\ Clean(l)
    <3>1. \A c, d : ~One(c) /\ ~Two(c, d)
      BY <2>1, ShortQueues DEF Empty, One, Two
    <3>2. QED  BY <1>3, <2>1, <3>1 DEF WordAt, WordRead
  <2>3. /\ At("patch", k).at = "patch" /\ At("patch", k).n = k
        /\ WordAt(p, "patch", k, l)'
    <3>1. Empty' /\ Copied(p, k - 1)'
      BY <2>1, <2>2 DEF Empty, Copied, gpuVars
    <3>2. InVram(p, k - 1, l)' /\ Clean(l)'
      BY <2>1, <2>2 DEF InVram, Clean, InObject, gpuVars, LineOf
    <3>3. QED  BY <3>1, <3>2, Places DEF WordAt, LineOf
  <2>4. WritesClean' /\ Untouched'
    BY <2>1 DEF WriteInv, WritesClean, Untouched, Clean, InObject, gpuVars
  <2>5. QED  BY <1>1, <1>3, <1>4, <2>1, <2>3, <2>4, UserWriting
<1>8. CASE Patch(p)
  <2>1. /\ Jump(p, At("write", k)) /\ UNCHANGED <<fifo, engine, ramin>>
        /\ vram' = [vram EXCEPT ![Object[k][2]] = p]
        /\ pc[p].at = "patch"
    BY <1>5, <1>8 DEF Patch, UseAt
  <2>2. Empty /\ Copied(p, k - 1) /\ InVram(p, k - 1, l) /\ Clean(l)
    BY <1>3, <2>1 DEF WordAt
  <2>3. /\ vram'[Object[k][2]] = p
        /\ \A o \in Offsets : (vram'[o] = p \/ vram'[o] = vram[o])
        /\ \A o \in Offsets \ {Object[k][2]} : vram'[o] = vram[o]
    BY <1>5, <2>1 DEF GpuTypes
  <2>4. InVram(p, k, l)'
    <3>1. SUFFICES ASSUME NEW n \in 1 .. k, LineOf(n) = l
                   PROVE  vram'[Object[n][2]] = p
      BY DEF InVram, LineOf
    <3>2. n \in 1 .. Len(Object) /\ (n = k \/ n \in 1 .. (k - 1))
      BY <1>2
    <3>3. Object[n][2] \in Offsets
      BY <3>2, ObjectWords
    <3>4. QED  BY <2>2, <2>3, <3>1, <3>2, <3>3 DEF InVram
  <2>5. Clean(l)'
    <3>1. SUFFICES ASSUME NEW o \in Offsets, ~InObject(<<l, o>>)
                   PROVE  vram'[o] = Nobody
      BY DEF Clean, InObject
    <3>2. o # Object[k][2]
      BY <1>5, <3>1
    <3>3. QED  BY <2>2, <2>3, <3>1, <3>2 DEF Clean
  <2>6. /\ At("write", k).at = "write" /\ At("write", k).n = k
        /\ WordAt(p, "write", k, l)'
    BY <2>1, <2>2, <2>4, <2>5, Places DEF WordAt, Empty, Copied, LineOf
  <2>7. WritesClean' /\ Untouched'
    <3>1. Len(fifo') = 0 /\ Len(engine') = 0
      BY <2>1, <2>2 DEF Empty
    <3>2. QED  BY <2>1, <3>1 DEF WriteInv, WritesClean, Untouched, InObject
  <2>8. QED  BY <1>1, <1>3, <1>4, <2>1, <2>6, <2>7, UserWriting
<1>9. CASE WriteLine(p)
  <2>1. /\ Jump(p, At("written", k)) /\ fifo' = Append(fifo, Wr(l))
        /\ UNCHANGED <<engine, ramin, vram>> /\ pc[p].at = "write"
    BY <1>5, <1>9 DEF WriteLine, Push, UseAt, Wr
  <2>2. Empty /\ Copied(p, k - 1) /\ InVram(p, k, l) /\ Clean(l)
    BY <1>3, <2>1 DEF WordAt
  <2>3. engine' = <<>> /\ fifo' = <<Wr(l)>>
    BY <2>1, <2>2, ShortQueues DEF Empty
  <2>4. One(Wr(l))' /\ Pending(p, k, l)'
    <3>1. ASSUME NEW n \in 1 .. k, LineOf(n) # l  PROVE ramin[Object[n]] = p
      <4>1. n \in 1 .. (k - 1)
        BY <1>2, <3>1
      <4>2. QED  BY <2>2, <4>1 DEF Copied
    <3>2. Pending(p, k, l)'
      BY <2>1, <2>2, <3>1 DEF Pending, InVram, LineOf
    <3>3. QED  BY <2>3, <3>2 DEF One, Wr
  <2>5. /\ At("written", k).at = "written" /\ At("written", k).n = k
        /\ WordAt(p, "written", k, l)'
    BY <2>4, Places DEF WordAt, LineOf, Wr
  <2>6. WritesClean'
    <3>1. Clean(l)'
      BY <2>1, <2>2 DEF Clean, InObject
    <3>2. /\ Len(engine') = 0 /\ Len(fifo') = 1 /\ fifo'[1] = Wr(l)
          /\ fifo'[1].line = l
      BY <2>3 DEF Wr
    <3>3. QED  BY <2>3, <3>1, <3>2 DEF WritesClean
  <2>7. Untouched'
    BY <2>1 DEF WriteInv, Untouched, InObject
  <2>8. QED  BY <1>1, <1>3, <1>4, <2>1, <2>5, <2>6, <2>7, UserWriting
<1>10. CASE WaitWritten(p)
  <2>1. /\ fifo = <<>> /\ UNCHANGED gpuVars /\ pc[p].at = "written"
    BY <1>10 DEF WaitWritten, UseAt
  <2>2. CASE k < Len(Object)
    <3>1. Jump(p, At("read", k + 1))
      BY <1>10, <2>2 DEF WaitWritten
    <3>2. k + 1 > 1 /\ (k + 1) - 1 = k
      BY <1>2
    <3>3. WordAt(p, "read", k + 1, LineOf(k + 1))
      <4>1. CASE One(Wr(l)) /\ Pending(p, k, l)
        <5>1. engine = <<Wr(l)>>
          BY <2>1, <4>1, ShortQueues DEF One
        <5>2. QED  BY <2>1, <3>2, <4>1, <5>1 DEF WordAt
      <4>2. CASE Empty /\ Copied(p, k)
        BY <3>2, <4>2 DEF WordAt
      <4>3. QED  BY <1>3, <2>1, <4>1, <4>2 DEF WordAt
    <3>4. /\ At("read", k + 1).at = "read" /\ At("read", k + 1).n = k + 1
          /\ WordAt(p, "read", k + 1, LineOf(k + 1))'
      BY <2>1, <3>3, Places
      DEF WordAt, Empty, Copied, Pending, InVram, gpuVars, LineOf, Wr
    <3>5. WritesClean' /\ Untouched'
      BY <2>1 DEF WriteInv, WritesClean, Untouched, Clean, InObject, gpuVars
    <3>6. QED  BY <1>1, <1>3, <1>4, <3>1, <3>4, <3>5, UserWriting
  <2>3. CASE ~(k < Len(Object))
    <3>1. pc'[p] = At("undo", 1) /\ \A q \in Procs \ {p} : pc'[q] = pc[q]
      BY <1>10, <2>3 DEF WaitWritten, Jump
    <3>2. WritingAt(p)'
      BY <3>1, Places DEF WritingAt, Uses
    <3>3. QED  BY <1>4, <2>1, <3>1, <3>2, AwayWriting
  <2>4. QED  BY <2>2, <2>3
<1>11. QED  BY <1>6, <1>7, <1>8, <1>9, <1>10

(* The other steps of the programs.                                        *)
LEMMA ProgramsWriting ==
  ASSUME IInv, WriteInv, Next, ~(KernelStep /\ UNCHANGED libVars)
  PROVE  WriteInv'
<1> USE DEF IInv, LibTypes
<1>1. PICK p \in Procs :
        \/ Start(p) \/ Look(p) \/ OpenFb(p) \/ On(p) \/ OpenRsx(p)
        \/ MapResource(p) \/ Exclusive(p) \/ Returned(p)
        \/ ReadLine(p) \/ WaitFetched(p) \/ Patch(p) \/ WriteLine(p)
        \/ WaitWritten(p)
        \/ Undo(p) \/ Return(p) \/ Sigint(p) \/ Kill(p)
  BY DEF Next
<1>2. WritingAt(p)
  BY DEF WriteInv
<1>3. CASE \/ Start(p) \/ Look(p) \/ OpenFb(p) \/ On(p) \/ MapResource(p)
           \/ Returned(p) \/ (Exclusive(p) /\ Fails(p))
  <2>1. UNCHANGED <<gpuVars, file>>
    BY <1>3
    DEF Start, Look, OpenFb, On, MapResource, Mmap, Returned, Exclusive,
        ExclusiveMayFail, deviceVars
  <2>2. PICK to : Jump(p, to) /\ to.at \in {"init", "undo"}
    <3>1. Jump(p, At("init", 1)) \/ Passes(p) \/ Fails(p)
      BY <1>3 DEF Start, Look, OpenFb, On, MapResource, Returned
    <3>2. \A n : /\ At("init", n).at \in {"init", "undo"}
                 /\ At("undo", n).at \in {"init", "undo"}
      BY Places
    <3>3. QED  BY <3>1, <3>2 DEF Passes, Fails
  <2>3. pc'[p] = to /\ \A q \in Procs \ {p} : pc'[q] = pc[q]
    BY <2>2 DEF Jump
  <2>4. pc[p].at = "init" \/ p \notin file
    <3>1. CASE Start(p)
      BY <3>1 DEF Start, Placed, PlacedAt
    <3>2. CASE Returned(p)
      BY <3>2, Places DEF Returned, Placed, PlacedAt
    <3>3. CASE ~Start(p) /\ ~Returned(p)
      BY <1>3, <3>3 DEF Look, OpenFb, On, MapResource, Exclusive, InitAt
    <3>4. QED  BY <3>1, <3>2, <3>3
  <2>5. WritingAt(p)'
    BY <1>2, <2>1, <2>2, <2>3, <2>4 DEF WritingAt, Uses, Empty, gpuVars
  <2>6. QED  BY <2>1, <2>3, <2>5, AwayWriting
<1>4. CASE Exclusive(p) /\ Jump(p, At("read", 1))
  <2>1. /\ pc[p].at = "init" /\ p \in file /\ UNCHANGED <<gpuVars, file>>
        /\ pc'[p] = At("read", 1)
        /\ \A q \in Procs \ {p} : pc'[q] = pc[q]
    BY <1>4 DEF Exclusive, ExclusiveMayFail, InitAt, deviceVars, Jump
  <2>2. Empty'
    BY <1>2, <2>1 DEF WritingAt, Empty, gpuVars
  <2>3. Copied(p, 0)'
    BY DEF Copied
  <2>4. WordAt(p, "read", 1, LineOf(1))'
    BY <2>2, <2>3 DEF WordAt
  <2>5. WritingAt(p)'
    BY <2>1, <2>4, Places DEF WritingAt, LineOf
  <2>6. QED  BY <2>1, <2>5, AwayWriting
<1>5. CASE OpenRsx(p)
  <2>1. UNCHANGED <<gpuVars, file, pc>>
    BY <1>5 DEF OpenRsx, OpenTake, libVars
  <2>2. WritingAt(p)'
    BY <1>2, <2>1
    DEF gpuVars, WritingAt, WordAt, WordRead, Clean, Copied, InVram, Pending,
        Empty, One, Two
  <2>3. QED  BY <2>1, <2>2, AwayWriting
<1>6. CASE Undo(p) \/ Return(p) \/ Sigint(p) \/ Kill(p)
  <2>1. UNCHANGED gpuVars
    BY <1>6 DEF Undo, Return, Sigint, Kill, Exit, Drop
  <2>2. \A q \in Procs \ {p} : q \in file' <=> q \in file
    BY <1>6 DEF Undo, Return, Sigint, Kill, Exit, Drop, deviceVars
  <2>3. PICK to : Jump(p, to) /\ to.at \in {"idle", "undo"}
    <3>1. \/ \E n : Jump(p, At("undo", n))
          \/ Jump(p, Idle)
          \/ Jump(p, saved[p]) /\ saved[p] # Idle
      BY <1>6 DEF Undo, Return, Sigint, Kill, Exit
    <3>2. \A n : At("undo", n).at = "undo"
      BY Places
    <3>3. QED  BY <3>1, <3>2, Places
  <2>4. pc'[p] = to /\ \A q \in Procs \ {p} : pc'[q] = pc[q]
    BY <2>3 DEF Jump
  <2>5. WritingAt(p)'
    BY <2>3, <2>4 DEF WritingAt, Uses
  <2>6. QED  BY <2>1, <2>2, <2>4, <2>5, AwayWriting
<1>7. QED
  BY <1>1, <1>3, <1>4, <1>5, <1>6, WordSteps DEF Exclusive

(* The words of an object arrive in RAMIN, and no others.                  *)
THEOREM ObjectArrives == Spec => []ObjectWritten
<1>1. Init => WriteInv
  <2>1. SUFFICES ASSUME Init  PROVE WriteInv
    OBVIOUS
  <2>2. \A p \in Procs : WritingAt(p)
    BY <2>1, Places DEF Init, DeviceInit, WritingAt, Uses
  <2>3. WritesClean /\ Untouched
    BY <2>1 DEF Init, DeviceInit, WritesClean, Untouched
  <2>4. QED  BY <2>2, <2>3 DEF WriteInv
<1>2. IInv /\ WriteInv /\ [Next]_vars => WriteInv'
  <2>1. SUFFICES ASSUME IInv, WriteInv, [Next]_vars  PROVE  WriteInv'
    OBVIOUS
  <2>2. CASE UNCHANGED vars
    BY <2>1, <2>2
    DEF vars, deviceVars, gpuVars, libVars, WriteInv, WritingAt, WordAt,
        WordRead, WritesClean, Untouched, Clean, Copied, InVram, Pending,
        Empty, One, Two
  <2>3. QED  BY <2>1, <2>2, KernelWriting, ProgramsWriting
<1>3. WriteInv /\ IInv => ObjectWritten
  <2>1. SUFFICES ASSUME WriteInv, IInv  PROVE ObjectWritten
    OBVIOUS
  <2>2. ASSUME NEW p \in Procs, NEW n \in 1 .. Len(Object),
               pc[p].at \in Uses, fifo = <<>>, engine = <<>>,
               n < pc[p].n \/ pc[p] = At("written", n)
        PROVE  ramin[Object[n]] = p
    <3>1. pc[p].n \in 1 .. Len(Object) /\ Len(Object) \in Nat
      BY <2>1, <2>2, Places, LibAssumption DEF IInv, LibTypes
    <3>2. WordAt(p, pc[p].at, pc[p].n, LineOf(pc[p].n))
      BY <2>1, <2>2 DEF WriteInv, WritingAt
    <3>3. \A c, d : ~One(c) /\ ~Two(c, d) /\ engine # <<c>>
      BY <2>2, ShortQueues DEF One, Two
    <3>4. CASE n < pc[p].n
      <4>1. n \in 1 .. (pc[p].n - 1)
        BY <3>1, <3>4
      <4>2. Copied(p, pc[p].n - 1) \/ Copied(p, pc[p].n)
        BY <2>2, <3>2, <3>3 DEF WordAt, WordRead, Uses
      <4>3. n \in 1 .. pc[p].n
        BY <3>1, <4>1
      <4>4. QED  BY <4>1, <4>2, <4>3 DEF Copied
    <3>5. CASE pc[p] = At("written", n)
      <4>1. pc[p].at = "written" /\ pc[p].n = n
        BY <3>5, Places
      <4>2. Copied(p, n)
        BY <3>2, <3>3, <4>1 DEF WordAt
      <4>3. QED  BY <4>2 DEF Copied
    <3>6. QED  BY <2>2, <3>4, <3>5
  <2>3. \A w \in Words :
          (\A n \in 1 .. Len(Object) : Object[n] # w) => ramin[w] = Nobody
    BY <2>1 DEF WriteInv, Untouched, InObject
  <2>4. QED  BY <2>2, <2>3 DEF ObjectWritten
<1>4. QED  BY <1>1, <1>2, <1>3, Invariance, PTL DEF Spec
=============================================================================
