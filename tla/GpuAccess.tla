----------------------------- MODULE GpuAccess ------------------------------
(***************************************************************************)
(* Programs of libps3rsx that set the GPU up: gpu_init and gpu_cleanup     *)
(* (src/fifo/utils.c) and the creation of a graphics object in the         *)
(* instance memory of the GPU (src/init/init.c), by processes that share   *)
(* the device of Ps3rsx.  A process may be killed at any time, and a       *)
(* SIGINT runs gpu_cleanup in the middle of whatever main is doing.        *)
(***************************************************************************)
EXTENDS Ps3rsx

CONSTANTS
  Object,   \* the words an object is made of, as create_gfx_object writes
  MaxDirect \* bound: how often blitting is stopped without a start

ASSUME LibAssumption ==
  /\ Object \in Seq(Words) /\ Object # <<>>
  /\ MaxDirect \in Nat

VARIABLES
  pc,     \* where main, or the signal handler in its place, is
  saved,  \* where main's gpu_cleanup was when the handler was entered
  armed,  \* the processes whose handler is installed
  fb,     \* the processes that have /dev/fb0 open
  direct  \* ps3fb: how often blitting was stopped

libVars == <<pc, saved, armed, fb, direct>>
vars == <<deviceVars, gpuVars, libVars>>

(* Mutant of FailsTo: the labels are one too far.                          *)
FailsToNext == <<9, 8, 8, 8, 7, 7, 6, 6, 5, 4, 3, 2>>

(* gpu_init step by step, and where it goes when a step fails: 1 is the    *)
(* label err_unmap_reports, 8 err_close_fb, 9 the return.                  *)
InitSteps == <<"open fb", "screen info", "on", "vsync", "open rsx",
               "context info", "xram", "vram", "fifo", "ctrl", "reports",
               "exclusive">>
FailsTo == <<9, 8, 8, 7, 7, 6, 6, 5, 4, 3, 2, 1>>
UndoSteps == <<"reports", "ctrl", "fifo", "vram", "xram", "close rsx", "off",
               "close fb", "return">>

At(place, n) == [at |-> place, n |-> n]
Idle == At("idle", 0)
Uses == {"read", "fetched", "patch", "write", "written"}
PCs == {Idle} \cup [at: {"init"}, n: 1 .. 12] \cup [at: {"undo"}, n: 1 .. 9]
       \cup [at: Uses, n: 1 .. Len(Object)]

Init ==
  /\ DeviceInit
  /\ pc = [p \in Procs |-> Idle]
  /\ saved = [p \in Procs |-> Idle]
  /\ armed = {}
  /\ fb = {} /\ direct = 0

Jump(p, to) == pc' = [pc EXCEPT ![p] = to]
InitAt(p, steps) == pc[p].at = "init" /\ InitSteps[pc[p].n] \in steps
Passes(p) == Jump(p, At("init", pc[p].n + 1))
Fails(p) == Jump(p, At("undo", FailsTo[pc[p].n]))

-----------------------------------------------------------------------------
Start(p) ==
  /\ pc[p] = Idle /\ call[p] = "none"
  /\ Jump(p, At("init", 1))
  /\ UNCHANGED <<deviceVars, gpuVars, saved, armed, fb, direct>>

(* Steps that only read, any of which may fail.                            *)
Look(p) ==
  /\ InitAt(p, {"screen info", "vsync", "context info"})
  /\ Passes(p) \/ Fails(p)
  /\ UNCHANGED <<deviceVars, gpuVars, saved, armed, fb, direct>>

OpenFb(p) ==
  /\ InitAt(p, {"open fb"})
  /\ \/ fb' = fb \cup {p} /\ Passes(p)
     \/ UNCHANGED fb /\ Fails(p)
  /\ UNCHANGED <<deviceVars, gpuVars, saved, armed, direct>>

On(p) ==
  /\ InitAt(p, {"on"})
  /\ \/ direct < MaxDirect /\ direct' = direct + 1 /\ Passes(p)
     \/ UNCHANGED direct /\ Fails(p)
  /\ UNCHANGED <<deviceVars, gpuVars, saved, armed, fb>>

OpenRsx(p) ==
  /\ InitAt(p, {"open rsx"})
  /\ OpenTake(p)
  /\ UNCHANGED libVars

(* The open returned.                                                      *)
Returned(p) ==
  /\ call[p] \in Returns
  /\ Enter(p, "none")
  /\ IF call[p] = "ok" THEN Passes(p) ELSE Fails(p)
  /\ UNCHANGED <<available, context, broken, looks, file, maps, gpuVars, saved,
                 armed, fb, direct>>

MapResource(p) ==
  /\ InitAt(p, Segments)
  /\ \/ Mmap(p, InitSteps[pc[p].n]) /\ Passes(p)
     \/ Fails(p) /\ UNCHANGED <<deviceVars, gpuVars>>
  /\ UNCHANGED <<saved, armed, fb, direct>>

(* The end of gpu_init: main installs its handler.                         *)
Exclusive(p) ==
  /\ InitAt(p, {"exclusive"})
  /\ ExclusiveMayFail(p)
  /\ \/ Jump(p, At("read", 1)) /\ armed' = armed \cup {p}
     \/ Fails(p) /\ UNCHANGED armed
  /\ UNCHANGED <<saved, fb, direct>>

-----------------------------------------------------------------------------
(* ramin_write_dword_to_dword_offset: read the line of the word into the   *)
(* video memory, patch the word there, write the line back.  fifo_wait     *)
(* returns when the commands are fetched; a sleep is as long as it takes   *)
(* the GPU to execute them (an assumption of the code).                    *)
Word(p) == Object[pc[p].n]
UseAt(p, place) == pc[p].at = place /\ call[p] = "none"

Push(p, op, then) ==
  /\ fifo' = Append(fifo, [op |-> op, line |-> Word(p)[1]])
  /\ Jump(p, At(then, pc[p].n))
  /\ UNCHANGED <<deviceVars, engine, ramin, vram, saved, armed, fb,
                 direct>>

ReadLine(p) == UseAt(p, "read") /\ Push(p, "read", "fetched")

(* Mutant of WaitFetched: no wait for the line.                            *)
WaitNothing(p) ==
  /\ UseAt(p, "fetched")
  /\ Jump(p, At("patch", pc[p].n))
  /\ UNCHANGED <<deviceVars, gpuVars, saved, armed, fb, direct>>

(* fifo_wait and usleep.                                                   *)
WaitFetched(p) ==
  /\ UseAt(p, "fetched")
  /\ fifo = <<>> /\ engine = <<>>
  /\ Jump(p, At("patch", pc[p].n))
  /\ UNCHANGED <<deviceVars, gpuVars, saved, armed, fb, direct>>

Patch(p) ==
  /\ UseAt(p, "patch")
  /\ vram' = [vram EXCEPT ![Word(p)[2]] = p]
  /\ Jump(p, At("write", pc[p].n))
  /\ UNCHANGED <<deviceVars, fifo, engine, ramin, saved, armed, fb,
                 direct>>

WriteLine(p) == UseAt(p, "write") /\ Push(p, "write", "written")

(* fifo_wait only; the next word, or gpu_cleanup.                          *)
WaitWritten(p) ==
  /\ UseAt(p, "written")
  /\ fifo = <<>>
  /\ Jump(p, IF pc[p].n < Len(Object) THEN At("read", pc[p].n + 1)
             ELSE At("undo", 1))
  /\ UNCHANGED <<deviceVars, gpuVars, saved, armed, fb, direct>>

-----------------------------------------------------------------------------
(* ps3fb: the last close starts blitting again.                            *)
CloseFb(p) ==
  /\ fb' = fb \ {p}
  /\ direct' = IF fb' = {} THEN 0 ELSE direct

(* PS3FB_IOCTL_OFF, on a descriptor that may be closed already.            *)
Off(p) == direct' = IF p \in fb /\ direct > 0 THEN direct - 1 ELSE direct

(* The unwinding labels of gpu_init and gpu_cleanup, which do the same:    *)
(* one step of them.  What was given up already is given up again, to no   *)
(* effect.                                                                 *)
Undo(p) ==
  LET step == UndoSteps[pc[p].n] IN
  /\ pc[p].at = "undo" /\ step # "return"
  /\ call[p] = "none"
  /\ IF step \in Segments THEN Drop(p, {}, {step})
     ELSE IF step = "close rsx" THEN Drop(p, {p}, {})
     ELSE UNCHANGED <<deviceVars, gpuVars>>
  /\ IF step = "off" THEN Off(p) /\ UNCHANGED fb
     ELSE IF step = "close fb" THEN CloseFb(p)
     ELSE UNCHANGED <<fb, direct>>
  /\ Jump(p, At("undo", pc[p].n + 1))
  /\ UNCHANGED <<saved, armed>>

(* The process ends: the kernel drops what it holds.                       *)
Exit(p) ==
  /\ Jump(p, Idle)
  /\ saved' = [saved EXCEPT ![p] = Idle]
  /\ armed' = armed \ {p}
  /\ CloseFb(p)
  /\ Drop(p, {p}, Segments)

(* The end of gpu_init or gpu_cleanup, and with it of the process; but a   *)
(* handler returns to main, which goes on with its own gpu_cleanup, or     *)
(* uses what is no longer mapped and dies of it.                           *)
Return(p) ==
  /\ pc[p] = At("undo", 9)
  /\ call[p] = "none"
  /\ IF saved[p] = Idle THEN Exit(p)
     ELSE /\ Jump(p, saved[p])
          /\ saved' = [saved EXCEPT ![p] = Idle]
          /\ UNCHANGED <<deviceVars, gpuVars, armed, fb, direct>>

(* SIGINT once main has installed its handler.  A program whose object is  *)
(* not complete will not survive the handler.                              *)
Sigint(p) ==
  /\ p \in armed
  /\ saved[p] = Idle
  /\ call[p] = "none"
  /\ Jump(p, At("undo", 1))
  /\ IF pc[p].at = "undo"
     THEN saved' = [saved EXCEPT ![p] = pc[p]] /\ UNCHANGED armed
     ELSE armed' = armed \ {p} /\ UNCHANGED saved
  /\ UNCHANGED <<deviceVars, gpuVars, fb, direct>>

Kill(p) ==
  /\ pc[p] # Idle
  /\ call[p] = "none"
  /\ Exit(p)

Next ==
  \/ KernelStep /\ UNCHANGED libVars
  \/ \E p \in Procs :
       \/ Start(p) \/ Look(p) \/ OpenFb(p) \/ On(p) \/ OpenRsx(p)
       \/ MapResource(p) \/ Exclusive(p) \/ Returned(p)
       \/ ReadLine(p) \/ WaitFetched(p) \/ Patch(p) \/ WriteLine(p)
       \/ WaitWritten(p)
       \/ Undo(p) \/ Return(p) \/ Sigint(p) \/ Kill(p)

Spec == Init /\ [][Next]_vars

-----------------------------------------------------------------------------
(* The device is p's: it was let in, or has not yet given back.            *)
Holds(p) ==
  \/ call[p] \in {"allocate", "setup"} \cup ReleaseCalls
  \/ p \in file
  \/ maps[p] # {}

Counted == {p \in Procs : Holds(p) \/ call[p] = "refuse"}

TypeOK ==
  /\ available \in Int
  /\ context \in BOOLEAN /\ broken \in BOOLEAN
  /\ call \in [Procs -> Calls]
  /\ looks \in [Procs -> 1 .. Looks]
  /\ file \subseteq Procs
  /\ maps \in [Procs -> SUBSET Segments]
  /\ fifo \in Seq(Commands) /\ engine \in Seq(Commands)
  /\ ramin \in [Words -> Writers]
  /\ vram \in [Offsets -> Writers]
  /\ pc \in [Procs -> PCs] /\ saved \in [Procs -> PCs]
  /\ armed \subseteq Procs
  /\ fb \subseteq Procs
  /\ direct \in 0 .. MaxDirect

(* The types, and the meaning of ps3rsx.available: one, less the process   *)
(* that holds the device, those that are being refused, and an open that   *)
(* failed after it was let in (ps3rsx_open, ps3rsx_release).               *)
DeviceInv ==
  /\ TypeOK
  /\ available = 1 - Cardinality(Counted) - (IF broken THEN 1 ELSE 0)

(* One process at a time holds the device, from ps3rsx_open's decision to  *)
(* the end of ps3rsx_release, whatever refusals and releases overlap.      *)
OneOwner == \A p, q \in Procs : Holds(p) /\ Holds(q) => p = q

(* The user context is not freed under a process that has the device open  *)
(* or a part of it mapped (ps3rsx_context_free, called by the release and  *)
(* by the failing open of whoever gets that far).                          *)
ContextLives == \A p \in Procs : p \in file \/ maps[p] # {} => context

(* A gpu_init that failed at any step and a gpu_cleanup, a handler's in    *)
(* the middle of main's too, give everything up themselves; and when       *)
(* nobody is at work, after processes were killed at any point, the device *)
(* is free and ps3fb blits, unless an allocation failed once.              *)
NothingLeft ==
  LET Gone(p) == pc[p] = Idle /\ call[p] = "none" IN
  /\ \A p \in Procs : pc[p] = At("undo", 9) /\ call[p] = "none" =>
       ~Holds(p) /\ p \notin fb
  /\ (\A p \in Procs : Gone(p)) =>
       (available = 1 \/ broken) /\ ~context /\ direct = 0

(* When the GPU has caught up, the words written so far are in RAMIN; and  *)
(* no word of a line that is not the object's was ever disturbed, although *)
(* whole lines are read and written (ramin_write_dword_to_dword_offset).   *)
ObjectWritten ==
  /\ \A p \in Procs : \A n \in 1 .. Len(Object) :
       /\ pc[p].at \in Uses /\ call[p] = "none" /\ fifo = <<>> /\ engine = <<>>
       /\ n < pc[p].n \/ pc[p] = At("written", n)
       => ramin[Object[n]] = p
  /\ \A w \in Words :
       (\A n \in 1 .. Len(Object) : Object[n] # w) => ramin[w] = Nobody
=============================================================================
