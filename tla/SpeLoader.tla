----------------------------- MODULE SpeLoader ------------------------------
(***************************************************************************)
(* The SPE loader example (spe-loader/): loader.c reads a program into     *)
(* main memory and starts the SPU program spe_loader.c, which fetches it   *)
(* as data, tells so, calls it (spe_loadme.c) and sends back its result.   *)
(*                                                                         *)
(* The two messages are 1337 both, in spe_loader.c and as the argument     *)
(* loader.c gives; here they differ.                                       *)
(***************************************************************************)
EXTENDS Integers

CONSTANTS
  Program,  \* what the file holds: it returns its argument
  Greeting, \* the first message
  Argument, \* args->argument
  Garbage   \* memory that holds nothing, or no longer

ASSUME LoaderAssumption ==
  Garbage \notin {Program, Argument, Greeting} /\ Greeting # Argument

VARIABLES
  main,      \* where main of loader.c is
  greeted, sentBack, \* what it has read
  buffer,    \* the buffer with the program, in main memory
  context,   \* does the SPE context exist?
  loaderThread, \* spe_thread
  speMbox,   \* spe_out_mbox, or Garbage: it has room for one
  spe,       \* where main of spe_loader.c is
  speArgs, speData \* what it has fetched

loaderVars == <<main, greeted, sentBack, buffer, context, loaderThread,
                speMbox, spe, speArgs, speData>>

LoaderInit ==
  /\ main = "start"
  /\ greeted = Garbage /\ sentBack = Garbage
  /\ buffer = Garbage /\ context = FALSE
  /\ loaderThread = "none"
  /\ speMbox = Garbage
  /\ spe = "none" /\ speArgs = Garbage /\ speData = Garbage

-----------------------------------------------------------------------------
(* main reads the file, makes the context and starts the thread.           *)
StartLoader ==
  /\ main = "start"
  /\ \/ /\ main' = "greeting"
        /\ buffer' = Program /\ context' = TRUE /\ loaderThread' = "new"
     \/ main' = "no file" /\ UNCHANGED <<buffer, context, loaderThread>>
  /\ UNCHANGED <<greeted, sentBack, speMbox, spe, speArgs, speData>>

(* It spins on spe_out_mbox_status, twice.                                 *)
ReadGreeting ==
  /\ main = "greeting"
  /\ speMbox # Garbage
  /\ greeted' = speMbox /\ speMbox' = Garbage
  /\ main' = "result"
  /\ UNCHANGED <<sentBack, buffer, context, loaderThread, spe, speArgs,
                 speData>>

ReadResult ==
  /\ main = "result"
  /\ speMbox # Garbage
  /\ sentBack' = speMbox /\ speMbox' = Garbage
  /\ main' = "free"
  /\ UNCHANGED <<greeted, buffer, context, loaderThread, spe, speArgs, speData>>

(* free(buffer), spe_context_destroy and the end of the process, which     *)
(* takes the thread with it wherever it is.                                *)
FreeAll ==
  /\ main = "free"
  /\ buffer' = Garbage /\ context' = FALSE
  /\ main' = "done" /\ loaderThread' = "none"
  /\ UNCHANGED <<greeted, sentBack, speMbox, spe, speArgs, speData>>

(* spe_thread loads spe_loader, which may fail, and runs it to its end.    *)
RunLoader ==
  /\ loaderThread = "new"
  /\ \/ loaderThread' = "runs" /\ spe' = "args"
     \/ loaderThread' = "ended" /\ UNCHANGED spe
  /\ UNCHANGED <<main, greeted, sentBack, buffer, context, speMbox, speArgs,
                 speData>>

LoaderEnds ==
  /\ loaderThread = "runs" /\ spe = "exit"
  /\ loaderThread' = "ended"
  /\ UNCHANGED <<main, greeted, sentBack, buffer, context, speMbox, spe,
                 speArgs, speData>>

-----------------------------------------------------------------------------
(* The program, while its context lives.                                   *)
FetchArgs ==
  /\ spe = "args" /\ context
  /\ speArgs' = Argument
  /\ spe' = "data"
  /\ UNCHANGED <<main, greeted, sentBack, buffer, context, loaderThread,
                 speMbox, speData>>

FetchProgram ==
  /\ spe = "data" /\ context
  /\ speData' = buffer
  /\ spe' = "greet"
  /\ UNCHANGED <<main, greeted, sentBack, buffer, context, loaderThread,
                 speMbox, speArgs>>

Greet ==
  /\ spe = "greet" /\ context
  /\ speMbox = Garbage
  /\ speMbox' = Greeting
  /\ spe' = "call"
  /\ UNCHANGED <<main, greeted, sentBack, buffer, context, loaderThread,
                 speArgs, speData>>

(* runme, and its result when the mailbox has room again.                  *)
SendBack ==
  /\ spe = "call" /\ context
  /\ speMbox = Garbage
  /\ speMbox' = IF speData = Program THEN speArgs ELSE Garbage
  /\ spe' = "exit"
  /\ UNCHANGED <<main, greeted, sentBack, buffer, context, loaderThread,
                 speArgs, speData>>

LoaderNext ==
  \/ StartLoader \/ ReadGreeting \/ ReadResult \/ FreeAll
  \/ RunLoader \/ LoaderEnds
  \/ FetchArgs \/ FetchProgram \/ Greet \/ SendBack

LoaderSpec == LoaderInit /\ [][LoaderNext]_loaderVars /\ WF_loaderVars(LoaderNext)
=============================================================================
