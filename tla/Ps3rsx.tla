------------------------------- MODULE Ps3rsx -------------------------------
(***************************************************************************)
(* The kernel module ps3rsx (libps3rsx/src/init/ps3rsx/ps3rsx.c), loaded:  *)
(* the device that gives one process at a time the GPU, its user context,  *)
(* the command FIFOs, and the GPU that reads them.  A process enters a     *)
(* call and, when the call sleeps, others run; call[p] says where it is.   *)
(*                                                                         *)
(* An open file is released by the kernel when neither a descriptor nor a  *)
(* mapping refers to it; file and maps hold those references.              *)
(***************************************************************************)
EXTENDS Integers, FiniteSets, Sequences

CONSTANTS
  Procs,   \* the processes
  Lines,   \* lines of 64 words of the instance memory RAMIN
  Offsets, \* places of a word in its line
  Looks,   \* the timeout of ps3rsx_fifo_wait, 100 or 500 in the code
  Nobody   \* no process: who wrote a word that was never written

ASSUME DeviceAssumption ==
  /\ IsFiniteSet(Procs)
  /\ Looks \in Nat \ {0}
  /\ Nobody \notin Procs

VARIABLES
  available, \* ps3rsx.available
  context,   \* is ps3rsx.ucontext allocated?
  broken,    \* history: did the allocation fail of a process let in?
  call,      \* where a process is in a call of the driver
  looks,     \* the timeout left to it
  file,      \* the processes with an open descriptor of the device
  maps,      \* the parts of the device a process has mapped
  fifo,      \* commands of the user context between rptr and wptr
  engine,    \* commands fetched but not executed
  ramin,     \* RAMIN: the process whose value a word has
  vram       \* the same of the first words of the video memory

deviceVars == <<available, context, broken, call, looks, file, maps>>
gpuVars == <<fifo, engine, ramin, vram>>

Segments == {"xram", "vram", "fifo", "ctrl", "reports"}
Words == Lines \X Offsets
Writers == Procs \cup {Nobody}
Commands == [op: {"setup"}] \cup [op: {"read", "write"}, line: Lines]

(* The places between two sleeps or two steps others can see.              *)
OpenCalls == {"refuse", "allocate", "setup"}
ReleaseCalls == {"free", "giveBack"}
Returns == {"ok", "error"}
Calls == {"none"} \cup OpenCalls \cup ReleaseCalls
         \cup Returns

DeviceInit ==
  /\ available = 1
  /\ context = FALSE /\ broken = FALSE
  /\ call = [p \in Procs |-> "none"]
  /\ looks = [p \in Procs |-> Looks]
  /\ file = {}
  /\ maps = [p \in Procs |-> {}]
  /\ fifo = <<>> /\ engine = <<>>
  /\ ramin = [w \in Words |-> Nobody]
  /\ vram = [o \in Offsets |-> Nobody]

Enter(p, at) == call' = [call EXCEPT ![p] = at]

-----------------------------------------------------------------------------
(* The GPU fetches a command, and executes what it fetched in its order.   *)
(* A line is read to the start of the video memory and written from there. *)
Fetch ==
  /\ fifo # <<>>
  /\ fifo' = Tail(fifo)
  /\ engine' = Append(engine, Head(fifo))
  /\ UNCHANGED <<deviceVars, ramin, vram>>

Execute ==
  /\ engine # <<>>
  /\ LET c == Head(engine) IN
       /\ vram' = IF c.op = "read" THEN [o \in Offsets |-> ramin[<<c.line, o>>]]
                  ELSE vram
       /\ ramin' = [w \in Words |->
                      IF c.op = "write" /\ w[1] = c.line THEN vram[w[2]]
                      ELSE ramin[w]]
  /\ engine' = Tail(engine)
  /\ UNCHANGED <<deviceVars, fifo>>

-----------------------------------------------------------------------------
(* One turn of ps3rsx_fifo_wait: the timeout is counted down first, and    *)
(* when it is used up nobody looks at the pointers again.                  *)
FifoLook(p, met, done, timedOut) ==
  LET left == looks[p] - 1 IN
  /\ Enter(p, IF left = 0 THEN timedOut ELSE IF met THEN done ELSE call[p])
  /\ looks' = [looks EXCEPT ![p] = IF left = 0 \/ met THEN Looks ELSE left]

(* Mutant of OpenTake: the old count is tested, against being negative.    *)
OpenTakeLax(p) ==
  /\ call[p] = "none"
  /\ available' = available - 1
  /\ Enter(p, IF available >= 0 THEN "allocate" ELSE "refuse")
  /\ UNCHANGED <<context, broken, looks, file, maps, gpuVars>>

(* ps3rsx_open: atomic_dec_and_test.                                       *)
OpenTake(p) ==
  /\ call[p] = "none"
  /\ available' = available - 1
  /\ Enter(p, IF available = 1 THEN "allocate" ELSE "refuse")
  /\ UNCHANGED <<context, broken, looks, file, maps, gpuVars>>

(* Mutant of OpenRefuse: the count is set, not given back.                 *)
OpenRefuseSets(p) ==
  /\ call[p] = "refuse"
  /\ available' = 1
  /\ Enter(p, "error")
  /\ UNCHANGED <<context, broken, looks, file, maps, gpuVars>>

(* -EBUSY.                                                                 *)
OpenRefuse(p) ==
  /\ call[p] = "refuse"
  /\ available' = available + 1
  /\ Enter(p, "error")
  /\ UNCHANGED <<context, broken, looks, file, maps, gpuVars>>

(* ps3rsx_context_allocate up to its wait.  When a call of the hypervisor  *)
(* fails the context is freed, and ps3rsx_open returns -ENODEV without     *)
(* giving the device back.                                                 *)
Allocate(p) ==
  /\ call[p] = "allocate"
  /\ \/ /\ context' = TRUE
        /\ fifo' = <<[op |-> "setup"]>>
        /\ Enter(p, "setup")
        /\ UNCHANGED broken
     \/ /\ context' = FALSE
        /\ broken' = TRUE
        /\ Enter(p, "error")
        /\ UNCHANGED fifo
  /\ UNCHANGED <<available, looks, file, maps, engine, ramin, vram>>

(* Mutant of SetupLook: a timeout is an error to nobody.                   *)
SetupLookIgnores(p) ==
  /\ call[p] = "setup"
  /\ FifoLook(p, fifo = <<>> /\ engine = <<>>, "ok", "ok")
  /\ file' = IF call'[p] = "ok" THEN file \cup {p} ELSE file
  /\ IF call'[p] = "ok" /\ (fifo # <<>> \/ engine # <<>>)
     THEN context' = FALSE /\ fifo' = <<>>
     ELSE UNCHANGED <<context, fifo>>
  /\ UNCHANGED <<available, broken, maps, engine, ramin, vram>>

(* Its wait for the setup commands: on a timeout, the same.                *)
SetupLook(p) ==
  /\ call[p] = "setup"
  /\ FifoLook(p, fifo = <<>> /\ engine = <<>>, "ok", "error")
  /\ file' = IF call'[p] = "ok" THEN file \cup {p} ELSE file
  /\ IF call'[p] = "error"
     THEN context' = FALSE /\ broken' = TRUE /\ fifo' = <<>>
     ELSE UNCHANGED <<context, broken, fifo>>
  /\ UNCHANGED <<available, maps, engine, ramin, vram>>

-----------------------------------------------------------------------------
(* ps3rsx_mmap and the munmap of what it mapped.                           *)
Mmap(p, segment) ==
  /\ p \in file
  /\ maps' = [maps EXCEPT ![p] = @ \cup {segment}]
  /\ UNCHANGED <<available, context, broken, call, looks, file, gpuVars>>

(* References p has left when it gives up its descriptor (close) or parts  *)
(* of what it mapped; without any the file is released.                    *)
Drop(p, files, segments) ==
  /\ file' = file \ files
  /\ maps' = [maps EXCEPT ![p] = @ \ segments]
  /\ Enter(p, IF (p \in file \/ maps[p] # {}) /\ p \notin file' /\ maps'[p] = {}
              THEN "free" ELSE call[p])
  /\ UNCHANGED <<available, context, broken, looks, gpuVars>>

(* ps3rsx_release, its context_free and its atomic_inc.                    *)
ReleaseFree(p) ==
  /\ call[p] = "free"
  /\ context' = FALSE
  /\ fifo' = <<>>
  /\ Enter(p, "giveBack")
  /\ UNCHANGED <<available, broken, looks, file, maps, engine, ramin,
                 vram>>

ReleaseGiveBack(p) ==
  /\ call[p] = "giveBack"
  /\ available' = available + 1
  /\ Enter(p, "none")
  /\ UNCHANGED <<context, broken, looks, file, maps, gpuVars>>

(* ps3rsx_exclusive, on ps3fb's FIFO: a call of the hypervisor may fail,   *)
(* and so may the wait for the blit, of which the last command is taken    *)
(* back too late when the GPU was not busy with the first.                 *)
ExclusiveMayFail(p) == p \in file /\ UNCHANGED <<deviceVars, gpuVars>>

(* The steps the kernel and the GPU take by themselves.                    *)
KernelStep ==
  \/ Fetch \/ Execute
  \/ \E p \in Procs : \/ OpenRefuse(p) \/ Allocate(p) \/ SetupLook(p)
                      \/ ReleaseFree(p) \/ ReleaseGiveBack(p)
=============================================================================
