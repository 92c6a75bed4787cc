# Verification of jim-ps3ware

TLA+ models, TLC runs and TLAPS proofs for the code of this repository: a set of
programs for Linux on the PlayStation 3. Its core is spu-medialib, which moves
video through the SPUs of the Cell processor; two video drivers call it. libps3rsx,
with a kernel module, gives a program the GPU. The models cover the service that
scales YUV images to ARGB, from the drivers down to the DMA commands of one frame;
two smaller SPU services and the SPE loader; and access to the GPU, from the opening
of the device to the writing of an object into its instance memory.

## 1. Inventory

### Components, their state, their operations

| component | state | operations | hard behaviour |
|---|---|---|---|
| scaler service, PPU side (`spu-medialib/src/yuv2argb_scaler.c`) | `img_args` in main memory, the SPE context, its thread, an event handler | init, setters, `send_message`, `receive_message` (interrupt), `receive_message_hard` (poll), destroy | full mailboxes, time limits, a context destroyed by its own thread |
| scaler service, SPU side (`spu-medialib/spu/src/spu_yuv2argb_scaler.c`) | local copy of `img_args`, filters, `selIn`/`selOut`, the last message | first message, frame loop, RDY, waiting loop (RUN, STOP, UPDATE) | arguments read by DMA while the caller writes; buffer index counted on both sides |
| its frame pipeline (same file) | 16 local store buffers, 16 tags, commands under way | get, put, wait for tag groups, scale, convert | double buffering, swapped tags, prefetches left behind, completion order |
| X video port (`xf86-video-spu/src/spu_video.c`) | `running`, `currentBuffer`, `old_*`, the scaler object | `SPUPutImage`, `SPUStopVideo` | a stop that does not wait, a STOP without a scaler, a restart beside the ending program |
| MPlayer driver (`mplayer-vo/latest.patch`, vo_ps3) | `page`, `wait_yuvcsc`, layout, the scaler object | config, draw, flip_page, toggle_fullscreen, uninit | drawing beside conversion, setters beside a pending UPDATE |
| row and width filters (`spu-medialib/spu/include/spu_scaler_argb.h`) | tables of row and column positions | initHFilter, initWFilter, scale | a row too many at the end, tables filled over old ones, and past their ends |
| draw_rect, yuv2rgb services (`spu-medialib`) | as the scaler service, with other loops | as above | each waits for other tags and treats messages its own way |
| blitter, yuvscaler services (`spu-medialib`) | as above | as above | kernels that use buffers nothing was waited for |
| spu-msg (`spu_event_handler.h`, `spu_register.h`) | message queue, free lists, a thread | register, post, loop | a queue shared without a lock, ids never taken from the free list |
| SPE loader (`spe-loader/`) | a context, two handshake messages | load, run | context destroyed under its thread |
| ps3rsx kernel module (`libps3rsx/src/init/ps3rsx/`) | `available`, two contexts, FIFO registers | open, release, mmap, ioctl, init | an open refused while the owner releases, failure paths, exclusive use |
| libps3rsx GPU access (`libps3rsx/src/fifo`, `src/init/init.c`) | mapped resources, FIFO pointers, RAMIN | gpu_init, gpu_cleanup, fifo_push, fifo_wait, graphics and DMA objects | order of mapping and unmapping, SIGINT and death in between, writes of whole lines |
| libps3rsx geometry, textures, shaders, rop | none | encode GPU commands | batch splitting |
| libps3fb | mapped frame buffer | init, swap, vsync, cleanup | failure paths |
| TinyMediaPlayer, tools, vendored libraries, examples | - | - | out of scope: derived or vendored |

### How they interact

The drivers call the library; the library shares two things with the SPU program:
`img_args`, written by the setters and read by DMA, and the mailboxes of the SPE
context (four messages in, one out in each of two mailboxes). A frame is asked for
with RUN and answered with RDY; new arguments are announced with UPDATE; STOP ends
the program, after which the library's thread destroys the context. Both sides keep
the index of the double buffer and flip it by convention: the program at each RUN
after the first, the X port at each image, vo_ps3 at each page. Nothing ever
compares the two.

### What makes a component correct

- service: every RUN gets one answer, in the form asked for; what was converted is
  the buffer the caller meant with the sizes of the last UPDATE; no call blocks for
  ever; a destroyed object leaves nothing behind.
- pipeline: a row is made from its own lines, no buffer is filled while it is still
  being read or written by DMA, RDY means the frame is in main memory.
- row filter: no row is made from what lies beyond its plane, no table written past its
  end.
- draw_rect, yuv2rgb: each row is combined once and with its own; the frame answered
  for is the frame asked for.
- ps3rsx: one process holds the device; its user context lives while it has the device
  open or mapped; nothing of it is left when it is gone.
- libps3rsx: gpu_init undoes exactly what it did when a step fails; a word written into
  RAMIN ends up there, with its neighbours unharmed.
- drivers: no answer is taken for another's, no frame is asked of a destroyed
  context, `img_args` is not written while the SPU is about to read it, the picture
  asked for is the picture shown.

## 2. Modules

| module | models | extends |
|---|---|---|
| `Yuv2ArgbScaler` | the service: library calls and SPU program, per context | - |
| `ScalerApi` | any caller of the library | `Yuv2ArgbScaler` |
| `XvVideo` | the X port as caller | `Yuv2ArgbScaler`, instance of `FrameService` |
| `VoPs3` | vo_ps3 as caller | `Yuv2ArgbScaler`, instance of `FrameService` |
| `FrameService` | abstract: a frame asked for is shown, nothing else ever is | - |
| `ScalerPipeline` | one frame after another through the local store | - |
| `RowFilter` | `initHFilter`, its tables over changes of size | - |
| `RectDraw` | the draw_rect service: library, thread, message loop, row pipeline | - |
| `Yuv2Rgb` | the yuv2rgb service, the same, with its example as caller | - |
| `SpeLoader` | both mains of the SPE loader | - |
| `Ps3rsx` | the kernel module, and the GPU that reads its FIFO | - |
| `GpuAccess` | programs that set the GPU up and write an object | `Ps3rsx` |
| `MCXv`, `MCApi`, `MCVo`, `MCGpu` | constants and symmetry for TLC | the above |
| `MCXvPort` | the scope XvPort is checked in | `MCXv` |
| `MCPipeline` | two instances of `ScalerPipeline` in one state space | `ScalerPipeline` |
| `MCServices` | `RowFilter`, `RectDraw`, `Yuv2Rgb`, `SpeLoader` in one state space | these |
| `Yuv2ArgbScaler_proofs` | lemmas on the SPU program's steps, under every caller | `Yuv2ArgbScaler`, `TLAPS` |
| `ScalerApi_proofs`, `XvVideo_proofs`, `VoPs3_proofs` | theorems on any caller and on the two drivers | the caller, `Yuv2ArgbScaler_proofs` |
| `GpuAccess_proofs` | theorems on the kernel module, the library and the GPU | `GpuAccess`, `TLAPS` |
| `ScalerPipeline_proofs` | theorems on the pipeline | `ScalerPipeline`, `TLAPS` |
| `MCPipeline_proofs` | the same of the two instances side by side | `MCPipeline`, `ScalerPipeline_proofs`, an instance of it |
| `Services_proofs` | theorems on the row filter, draw_rect, yuv2rgb, the loader, and all of `MCServices` | `MCServices`, `TLAPS` |

**Yuv2ArgbScaler.** Each variable is a function of the context. `pc` is the place
in `main` (boot: first message; fetch: first read of `img_args`; loop: head of
`while (msg!=STOP)`; frame; post: the RDY; wait: `while (waiting)`; refetch: the read
for UPDATE) and in the thread around it (created, exited, failed). One action stands
for the code between two points where the other side can be seen: a mailbox read, a
DMA read of `img_args`, a mailbox write. `selIn` and `selOut` are one variable,
because they are set and flipped together. `shown` is what the program's last frame was
made from: it is in the frame buffer and outlives the context. `dstW`, `dstH`, `offset` and `maxwidth`
are one value, a place, as every caller sets them together (VoPs3 has a value for
the state between the setters). The Y, U, V and output pointers of a buffer are one
image. Messages are `RUN`, `UPDATE`, `STOP`; the code ignores others.
`filter` is what the filters were computed for, and `srcsmallcroma` (`small`), which is
no function of the present sizes: the code clears it only when the image is scaled
(`SmallAfter`). `Unscaled` says which widths and places are of one size.

**XvVideo.** A call of the X server is cut at each exchange with the scaler. A place
stands for `drw_x`, `drw_y`, `drw_w`, `drw_h`, from which the sizes and the offset are
computed, and the pixmap's width; only the first four (`Drawn`) decide whether anything
is sent, as in line 432. An image that is clipped away returns Success early
(PutClipped). `xf86XV`, which is not in the repository, calls the port one call at a
time, and stops it only if a call has returned Success since the last stop (`on`).
SPUStopVideo sends STOP whether or not a scaler runs, and never clears the pointer it
sends by. After a stop and then packed or clipped images only, a further stop
(SendAgain) therefore meets the old program still ending, which gets a second STOP; or
its context destroyed, and what becomes of the server then is left open: the call
returns, or the server is `lost`; or, if there never was a scaler, a null pointer, and
it is lost. Its SPU threads are then lost with it.

**VoPs3.** MPlayer's calls are cut the same way. Drawing is an interval (BeginDraw,
EndDraw), so that the SPU can run inside it. The six setters of an update are two
steps: after the first, the place is `Torn`.

**ScalerApi.** The caller may do what the header allows, with three restrictions
taken from the callers in the repository: it does not begin with UPDATE,
sends UPDATE and destroys with at most one answer owed, and stays at most `Ahead`
RUNs ahead.

**ScalerPipeline.** A command is in the set `dma` from issue to completion, and moves
its data at completion. `Tag` is the table of the code, with the second assignment
to `tgiv1[1]` and the uninitialised `tgiv1[0]` (a constant set of stray values). What
a line carries is the frame and row it was fetched for; the step that scales checks
that it is the row it wants. The queue of the memory flow controller is unbounded,
where the hardware makes the program wait: that only removes behaviours. `InOrder` and
`Drained` say what is assumed of completion: in the order of issue; or in any order,
but all commands before the next RUN.

**RowFilter.** A step of `initHFilter` computes one entry, in the order of its two
loops; an UPDATE changes the heights and starts again over the old tables, as the code
does. Positions are those of exact arithmetic, or, where the position is whole, what
`float` may make of it (one less, with a weight of almost one). The loops run to
`srcH+3` and `dstH+3`, the tables have `MAXHEIGHT+1` and `MAXHEIGHT+2` entries: with
1079 or 1080 rows of source, or a picture of 1078 to 1080, they are written past their
end (`past`), and nothing is known of the tables from then on. Heights are four at
least; with two or three the code divides by `dstH/2-1`, which is zero.

**RectDraw, Yuv2Rgb.** Tags and wait groups are as in the code. What is under way for a
buffer is a set, of which any command may complete next: `dmaGet` and `dmaPut` are plain
`mfc_get` and `mfc_put`, without fence or barrier, so that commands of one tag are not
ordered either. An operation ends with rows fetched ahead that nobody waits for; the
next one's first gets go to the same buffers under the same tags, and the old row may
arrive last. `atRisk` and `overtaken` note the rows for which both were under way at
once. The order of the puts of one buffer needs no such note: each is waited for before
the next. Source and destination of a copy do not overlap. The caller receives before
each operation, as `recttest.cpp` and `yuv2rgb.cpp` do; `draw_rect` gets no STOP before
its first RUN, yuv2rgb gets RUN first. `Lanes`, the rows drawn side by side, is 3 in
`spu_draw_rect.c`; TLC has 2.

Yuv2Rgb has the one setter of a size of the source that exists, `csc_set_srcW`
(`csc_set_srcH` is declared in `yuv2rgb.h`, but there is no such function), followed by
UPDATE as the header asks; the example sends neither. The height is that of
`csc_init_yuv2rgb`, and so are the addresses of U and V (`chromaOf`): of frames of
another width the chroma is not theirs. Widths are multiples of 32, for which the
program's two tests of `dstW` (spu_yuv2rgb.c:157, 181), left uninitialised by
`csc_init_yuv2rgb`, decide nothing: the first is overwritten at once (160-164), and both
roundings of the second give the same step. `dstW` and the offset are left out.

**SpeLoader.** Both mains and the thread between them. The two messages the loader
waits for are the same number (1337) in the code; the model tells them apart, so that
taking one for the other would show.

**Ps3rsx, GpuAccess.** A process is in a call of the driver (`call`) and at a place of
the library (`pc`); each sleep and each system call is a point where others run. The
kernel releases an open file when neither a descriptor nor a mapping refers to it.
`ps3rsx_exclusive` is abstracted to a step that may fail. ps3fb's ON and OFF are a
counter, and what the file system does on close and death is outside the repository:
these definitions are marked external. A write of a word into RAMIN is three steps, as
in `init.c`: the line is read into video memory, patched there, and written back, each
by commands the GPU executes later. `usleep` is taken to be long enough for the GPU to
have executed what was written before it, as the code assumes.

Operators named in comments as mutants are broken versions of single actions. They
are not part of any specification; each shows that a property fails when the code it
is about is broken in that way (`PROJECT.json`, "mutants").

## 3. Runs

| run | instance | checks | shows |
|---|---|---|---|
| XvPort | 2 contexts, 1 image, 2 places, planar, packed and clipped, stops, load failures; two source widths while there has been one scaler | TypeOK, IInv, IdleMeansAnswered, SendsReachLiveContext, FilterMatches, NoFutileWait, ArgsStable, StopLosesNoFrame, CallReturns, StoppedContextGoes | the port is safe, but for a further STOP to a context that is gone, and its calls return, while an old program ends beside a new one |
| XvService | 1 context, 3 images, 2 places, no stop | ImageInv, ImageProcessed, ServesFrames | the port implements FrameService |
| XvRestart | 2 contexts, 2 images, stops | ImageProcessed is violated | after a restart the wrong image is shown |
| XvResize | 2 source sizes | SizeProcessed is violated | a new source size at the old place is ignored |
| Api | 1 context, all forms, 6 RUNs ahead | AInv, AnswersAccounted, LastRunShown, ApiCallsReturn | no answer lost or doubled, both sides agree on the buffer, no call blocks for ever |
| ApiSoft | 1 RUN ahead | DestroyReturns is violated | a SOFT program cannot be stopped |
| Vo | 2 layouts, a close at any time | VoInv, NoDrawWhileConverting, LastRunFinished, NoTornFrame, FlipReturns, UninitReturns, ServesFrames | vo_ps3 with toggles and a close; it implements FrameService |
| VoEarly | a toggle before the first frame | LastRunFinished is violated | UPDATE as first message is taken for a RUN |
| Pipe | in order: 4 pairs, 3 frames, scaling and not, 3 stray tags; in any order: 3 pairs, 2 frames | TypesOK, LumaReady, VReady, OutputFree, UReadyInOrder, FrameCompleteInOrder | correct if commands complete in order; what the waits protect in any order |
| PipeLastRows | 2 pairs, any order | FrameComplete is violated | RDY before the last rows but two are written |
| Gpu | 2 processes, 2 lines of 2 words, an object of 3 words | DeviceInv, OneOwner, ContextLives, NothingLeft, ObjectWritten | one owner, nothing left behind, over failures, SIGINT and death at any point |
| Services | heights 4, 6, 8 of a MAXHEIGHT of 9; rectangles of 1, 3, 5 rows; 1 and 3 pairs of lines, 2 widths; the loader | ServicesTypeOK, RowsInside, RectDrawn, FrameConverted, CallsReturn | each smaller service does its work, but for what commands that overtake each other, stale chroma addresses and too great heights spoil; and its callers return |

Bounds. Two contexts are what a stop without a join can bring together while each
program is served in order (a third repeats the second: the handshake is per context,
and the proofs hold for any number). Two places make the arguments change; XvPort does
not look at what is shown and has one image, XvService has three, so that the frame
asked for, the one before and the one before that are told apart. XvPort has
a constraint (`InScope` of `MCXvPort`): two scalers, or images of the smaller width, not
both at once, since a port is busy with one of two things that do not touch: a program
that ends while the next one works, and images of two widths, of which one is not scaled
at one place. Only a call leads out of the scope and calls have no fairness, so the
constraint ends no behaviour that owes something.
Six RUNs ahead is the most the mailboxes hold (four unread, one held
back, one answered): with seven the caller's send and the program's RDY wait for each
other, which is why `Ahead` is a condition on callers and not only a bound. Four pairs
go twice through each double buffer; three are the least with a refill that is used.
Three frames let the prefetches of one frame meet the first lines of the next, with a
change of `noscale` each way. Nothing of the pipeline counts without bound but
`issued`, which the bound on frames stops.

In Gpu two processes are one that holds the device and one that is refused; three words
in two lines are two neighbours in a line and a change of line; two looks of the FIFO's
wait are one that sees it busy and one that is the last; `MaxDirect` bounds how often
blitting was stopped without a start, which SIGINT in the middle of gpu_cleanup can
make any number. In Services 5 rows are two whole groups of two and a rest, 1 is less
than a group and 3 a group and a rest; the operations are two fills of different
heights, or one copy of 3 rows, repeated by the STOP (`FewOperations`); `MaxRuns` and
`MaxFrames` stop the callers, three frames being the least in which one is converted
after an UPDATE and followed by another. Heights 4, 6 and 8 of 9 are one that fits every
table, one that is at the limit of the shortest, and one that overruns all; an UPDATE
changes both (`OtherHeights`). The four components of Services share
nothing, and a behaviour is one of them: putting them in one state space loses nothing.
Likewise the two instances in Pipe.

`CHECK_DEADLOCK FALSE` where the system stops: after the last frame in Pipe and
PipeLastRows, in Services after the last call, in Vo after uninit, and in XvPort when a
program that was never loaded has its mailbox filled (the send spins for ever)
or a further STOP ends the server (`lost`).

Fairness. `FairSpec` is weak fairness of each context's SPU program (an SPE runs on
its own, its thread is scheduled) and of the rest of a call once it was made (the
caller's thread is scheduled). New calls are never promised. In Services the fairness
is that of the service's own steps, for the same reason. A program that
cannot be loaded leaves its caller without an answer, and the caller's calls then end
by time limit or not at all: CallReturns, StoppedContextGoes and CallsReturn except that
case, Api and Vo do not have it (`LoadMayFail` FALSE). ApiCallsReturn excepts the
SOFT form, for the reason ApiSoft shows. A frame is
assumed to take less than the 10000 seconds of `yuvscsc_receive_message_hard`, so that
it gives up only when nothing is on its way (ReceiveNothing); a late answer, taken by the
next call, is thereby excluded and not shown. CallReturns has one more exception: a
STOP for a context that is gone, or for none, may be the end of the server. Gpu states
no liveness. The kernel module's waits have a time limit, but `fifo_wait` of the library
(`utils.c:275`) polls without one, so that whether main returns depends on the GPU
alone, of which the model assumes nothing.

Vo: `EarlyToggle` is FALSE, which is a condition on the user, not a
fact of the code: VoEarly shows what happens otherwise. XvService needs one aligned
source size and no stop for the same reason: XvRestart and XvResize are what is left
out, and the unaligned first source width of `spu_video.c:457` (hazards).

## 4. Findings

- XvRestart, `spu_video.c:489`: `currentBuffer` is not reset with the scaler.
- XvResize, `spu_video.c:432`: the source size is no part of the condition.
- ApiSoft, `spu_yuv2argb_scaler.c:442`: SOFT leaves `waiting` at 0.
- VoEarly, `latest.patch:903`: UPDATE before the first RUN.
- PipeLastRows, `spu_yuv2argb_scaler.c:438`: the last waits cover one of two pairs of
  output buffers. Whether it bites depends on the MFC, which promises no order
  between commands of different tag groups. In the same way U is waited for under
  tags its refill is not issued with (lines 416 to 422): `UReady` holds in order and
  not in any order.

Further disagreements of code and comment, or what the code cannot mean, that the
passing runs contain and their properties name as exceptions:

- SendsReachLiveContext: a STOP of a port without a scaler goes to a context that may be
  destroyed, or to a null pointer (`spu_video.c:262`).
- FilterMatches: a frame that is not scaled may read its chroma as for the width of an
  earlier one, because `srcsmallcroma` is set but not cleared there
  (`spu_yuv2argb_scaler.c:220`; line 477 says "update filters to reflect the new
  image!").
- RowsInside: 1079 and 1080 rows of source, and 1078 to 1080 of picture, overrun the
  filter's tables (`spu_scaler_argb.h:62` and `79`), although `MAXHEIGHT` is 1080 and the
  port advertises it.
- FrameConverted: one pair of lines may be on its way when RDY is sent, since the last
  waits (`spu_yuv2rgb.c:201`) name one tag twice; the first two pairs may hold lines
  fetched ahead by the frame before; and after `csc_set_srcW` and UPDATE chroma is read
  from where the first width had it (`yuv2rgb.c:88`).
- RectDrawn: rows of the first two groups may be drawn from a row fetched ahead by the
  operation before, if its get is the later to complete (`spu_draw_rect.c:344`).

## 5. Proofs

Every theorem is for all values of the constants, from the named assumptions of the
modules, and from what its own ASSUME adds.

**Any caller** (`ScalerApi_proofs`; `ScalerAssumption`, `ApiAssumption`).
`ServiceHolds`: `Spec => []AInv`, for any number of RUNs ahead, any form and any
failure to load. `AnswersAccounted` alone is not inductive: a RUN read from the mailbox
must have been the next thing the program does, and an answer written must find its
mailbox empty. `AInv` adds where messages and the STOP can be and that the first one is
never an UPDATE (`Mail`), what the program has read by then (`Program`), that the
caller's turn differs from the buffer selected by the parity of the RUNs unread
(`InTurn`), and that an UPDATE owed to a RUN stands before it (`InPlace`). Two lemmas
on counting in a sequence (`SendCount`, `TakeCount`) carry the sums over a message sent
and a message read. From it `NoAnswerLost` and `LastRunIsShown`.

**The X port** (`XvVideo_proofs`; `ScalerAssumption`, `XvAssumption`).
`HandshakeHolds`: `Spec => []IInv`. The safety properties speak of single moments of
the protocol and are not inductive: that no answer is left when the server is idle
depends on what was in the mailbox before, and that on where the program was. `IInv`
says, for every place of the X server, which combinations of mailboxes, message and
program counter each context can be in (`Handshake`), what the port's notes are
(`PortState`) and that arguments and filters fit (`ArgsFit`). A context is served by
the port, or absent, stopping (with one or more STOPs), or failed; among the served,
`ServingPhase` follows the call. The proof has one lemma for the steps of the SPU program (`PhaseSteps`), which
move a context within its phase or to the next one, and one for each group of calls.
From it: `TypeCorrect`, `AnswersCollected`, `ContextOutlivesCalls`,
`FiltersFollowSizes`, `NoWaitInVain` and the action properties `ArgsNeverTorn` and
`StopIsClean`.

`ImageIsProcessed` (`~MayStop`, planar images only) proves `ImageProcessed`, from
`ImageInv`, which `ImageFollowed` shows to be an invariant. The
port and the program count their buffers apart; `ImageFit` says how the two counts
relate at every point of a call, and that the program has read the arguments of the
call under way from the moment it took its RUN. XvRestart is the counterexample
without `~MayStop`.

`PortServesFrames` adds one source width that `Align16` leaves alone, a program that
is loaded, and places no two of which are drawn at one (`DrawnApart`: a pixmap of
another width alone is not sent): every step of the port and its scaler is then a step of FrameService or
leaves it unchanged. What ImageFit lacks is the width of every copy of the arguments
(`OneWidth`). XvResize is the counterexample for two widths; a width that is not whole
groups of 16 pixels is rounded down, except for a first image; and a port whose program
could not be loaded returns without a picture.

**vo_ps3** (`VoPs3_proofs`; `VoAssumption`, `~EarlyToggle`). `LockstepHolds`:
`Spec => []VoInv`. The driver sees none of the program's state and `page` none of
`sel`. `VoInv` gives for every place in MPlayer's calls the phase of the program
(resting, converting, done, stopping), with its unread messages, which may be any
number of UPDATEs before the one the driver waits for, its buffer index against
`page`, and its arguments against the present layout. From it `DrawsAlone`,
`RunsOneAtATime`, `LayoutsAreWhole`, and `DriverServesFrames`, the safety half of the
refinement of FrameService. VoEarly is the counterexample without `~EarlyToggle`.

**The pipeline** (`ScalerPipeline_proofs`). `OutputNeverOverwritten`: for any number of
rows and frames, any stray tag and any order of completion, an output buffer is filled
only when its puts have completed. The invariant is that a command on an output buffer
carries that buffer's tag, and that at the conversion no command carries the two tags
of the selected pair. `LinesAsExpected` (`InOrder \/ Drained`): `Spec => []RInv`, that
every Y and V buffer holds, or has under way and nothing else, the line the loop will
next want of it (`Coming`, `Want`), under the tag the loop will wait for
(`InputTagged`; for V one of two). From it `LumaFromItsLines` and `VFromItsLines`. One
of the two conditions is needed: prefetches left behind by one frame would race with
the first gets of the next. With `InOrder` the proof needs one more invariant,
`Ordered`: numbers of commands are unique, none is above `issued`, and the last wait of
a frame is for its youngest command, so that nothing is under way between frames.

`UFromItsLines` and `WholeFrames` (`InOrder`) are the two properties the code has only
because of that order. For U, a refill is issued under the tag of V, and what protects
the buffer is that a get of a Y line, issued later, is waited for first. `UInv` says
so: a U command is in one of two tag groups (`UTagged`), one in the wrong group is
followed by a get of the first Y buffer until the loop has waited for that (`UInTime`),
and the buffers hold or will get the lines they are for (`UComing`). For whole frames,
`RowsComing` says that every row converted is in main memory or in a put under way,
whose buffer still holds it: `OutputNeverOverwritten`'s invariant is what keeps it
there. `PipelineTypes` gives the types.

`OnePairLate` needs no condition on completion. It says how far the code can be from
`WholeFrames` (PipeLastRows shows that it can): when RDY is sent, what is still on its
way to main memory is the two rows of the last pair but one, each in a put whose buffer
nothing was written to since. `RowsLate` is its invariant: a row
converted is in main memory or in a put (`Given`), and each put under way is of the
pair its buffer was last filled for (`Leaving`), which the wait before a buffer is
filled again keeps true.

**The system Pipe checks** (`MCPipeline_proofs`). A behaviour of the two instances is
one of either (`OneOfBoth`). The theorems of `ScalerPipeline_proofs` are taken twice, as
they are and through an instance with the values of the second (`InstanceAssumption`
shows that these fit). So `TypesHold`, `InputsAndOutputs` (LumaReady, VReady and
OutputFree in both), `UFromItsLinesInOrder` and `WholeFramesInOrder`.

**GPU access** (`GpuAccess_proofs`; `DeviceAssumption`, `LibAssumption`).
`Invariance`: `Spec => []IInv`, that where a process is in gpu_init, gpu_cleanup or a
call of the driver fixes what it holds, and that `available` is one less the number of
processes that hold the device, are being refused, or were let in and got no context.
From it `AvailableAccounted`, `Exclusion` and `ContextOutlivesUse`.

`CleanedUp`: `[]NothingLeft`. It speaks of ends only; `LeftInv` bounds at every place
what a process can still have of ps3fb, the device and its segments. These are upper
bounds and not what it has, because a handler that gave everything up
may return into the middle of main's own gpu_cleanup. It adds that
`direct` is 0 when nobody has ps3fb open, and that a context has a user.

`ObjectArrives`: `[]ObjectWritten`, for any object, any lines and any processes. Writes
are three commands that the GPU executes later. `WriteInv` says for each place in the
writing of a word which commands can be in the two queues (`WordAt`), which words of
the object are in RAMIN and which in the copied line (`Copied`, `InVram`), and that a
line read or about to be written back has nothing at the places that are not the
object's (`Clean`). That only one process has commands in the queues is `Exclusion`'s
invariant.

**draw_rect, yuv2rgb** (`Services_proofs`; `RectAssumption`, `CscAssumption`).
`FramesConverted`: `[]FrameConverted`, for any height, any sequence of widths, of RUN
and UPDATE, and any order of completion, within a tag too. FrameConverted looks at one
moment. `CscInv` says who has the message (`CscCalls`), that the program knows the width
or will be told (`CscWidths`), that an input buffer whose lines nothing overtook holds
the pair it is next for or has just that command under way (`LinesIn`), that an output
buffer has one put under way at most (`LinesOut`), and that each pair of lines done is in
the frame buffer or in that put, in the end all but one in the frame buffer
(`LinesShown`). The pairs in `overtaken` are two at most, the first of a frame: from the
third on, a buffer's tag was waited for since.
`RectsDrawn`: `[]RectDrawn`, for any rectangles, any number of lanes and of
operations, and any order of completion. Source rows are combined with what is on the
screen, so that it counts how often a row was drawn. `RectInv` compares every row with
what is wanted of it once the operation under way is done (`Goal`): a row not reached
lacks one drawing, a row done is on the screen or in a put whose buffer holds it
(`RectRows`), and the buffers that are yet to be used, but for rows at risk, hold, or
will get, the row as it is then on the screen (`RectFetched`), also past the lanes'
whole groups, where the rest is done one by one. A row at risk is right or spoilt, and
always passes through one buffer. `CscTypes` and `RectTypesKept` give the types,
`ServicesTypes` and `ServicesAnswer` the same of the system Services checks.

**The loader** (`Services_proofs`; `LoaderAssumption`). `LoaderAnswers`: the buffer is
freed, and the context destroyed, only after both messages were read in their order;
no fetch meets a freed buffer. `LoaderInv` ties the place of one main to the other's.

**The row filter** (`Services_proofs`; `FilterAssumption`: heights from four to
`MaxHeight`). `TablesHold`: what was computed since the last UPDATE is at its position
for the present heights, unless a table was overrun, which depends on the greatest
heights so far (`Overrun`). `RowsStayInside`: `[]RowsInside`: which heights overrun which
table; and for all others, by an argument about the quotient `(srcH/2-1)/(dstH/2-1)` in
lemmas of their own, that no row is made from beyond its plane.

Assumptions the services' proofs need: among the sizes of rectangles and of frames there
is a largest (memory is finite), and the value of a spoilt buffer is no row.

**Progress.** Liveness is out of the prover's reach, but what it rests on in the code
is not: a caller that waits has something to wait for, and not for ever. For each
component two theorems say so of every reachable state. *NeverStuck*: while the caller
waits (`Blocked`, or its place in the services), the other side can take a step. As
`ENABLED` cannot be proved about, the guards are written out (`CanStep`, `DriverCan`,
`CallerCan`, `PortCan`, `RectHostCan`, `RectSpuCan`, `CscHostCan`, `CscSpuCan`,
`LoaderCan`); TLC found them equal to ENABLED of the actions on the instances of the
runs. *WaitsShorten*: every step taken meanwhile lowers a natural number.

| theorems | the number | conditions |
|---|---|---|
| `PortNeverStuck`, `PortWaitsShorten` | `StepsLeft` of one program, the others' unchanged | the program was loaded |
| `DriverNeverStuck`, `DriverWaitsShorten` | `StepsLeft` | `~EarlyToggle`, loaded |
| `CallerNeverStuck`, `CallerWaitsShorten` | `StepsLeft` | loaded, a form with answers; the first has `Ahead <= 6` |
| `StoppedEndsAlone` | the steps to its end, at most 3 | none: the STOPped program is never blocked |
| `RectNeverStops`, `RectWaitsEnd` | `RectStepsLeft`, then the commands under way | loaded |
| `CscNeverStops`, `CscWaitsEnd` | `CscStepsLeft`, then the commands under way | loaded |
| `LoaderEndsSoon` | `LoaderStepsLeft`, at most 11 | loaded |

`StepsLeft` is four for each unread message and what the program has to do before it
waits for the next; it is 22 at most (`StepsLeftType`). `Ahead <= 6` is as weak as the
mailboxes allow: with 7 TLC finds the caller and the program waiting for each other.
What is left to TLC is the last step from these to `~>`: that fairness takes a step
that stays possible, and that a natural number does not fall for ever.

Model-checked only: liveness (CallReturns, StoppedContextGoes, ApiCallsReturn,
FlipReturns, UninitReturns, CallsReturn) and the fairness half of ServesFrames, since
liveness under fairness, `ENABLED` and induction over data are beyond the prover. Every
invariant, and every action property, of a passing run is stated by a theorem.

## 6. Not modelled

- The blitter service: its loop is the scaler's; its kernels use second buffers and last
  rows none of whose tags they wait for. What could be stated of them is that, and it
  can be read off the lines (hazards). The yuvscaler service has no caller in the
  repository.
- spu-msg: the headers do not compile (`recv_spu_mbox_message` is declared nowhere) and
  nothing includes them, so that the behaviour meant cannot be read from the source.
- libps3rsx geometry, textures, shaders and raster operations: sequential encoders of
  commands, without a state of their own. libps3fb: single system calls.
- TinyMediaPlayer, a copy of ffplay with its threads taken out, with the FFmpeg it
  brings; the tools; vendored libraries; examples; art. They are most of the lines of
  the repository, and none of them is its own logic.
- Of the modelled components: pixel arithmetic, the width filter and shuffle masks;
  failures of libspe calls other than loading; `yuvscsc_receive_message` giving up after
  three bad events; memory that is never freed (`img_args`, the object, the event
  handler); port attributes; vo_ps3's plane pointers, parking lots, OSD and geometry,
  and older versions of its patch; UPDATE of draw_rect, which nobody sends; widths and
  offsets of draw_rect and yuv2rgb; loading and unloading of the kernel module,
  FLIP_SCRN and KICK_FIFO, the arithmetic of its mmap; command words, handle hashes
  and `dma.c` of libps3rsx.

## 7. What is left

The models follow the plan they were built along: the scaler service and its callers,
its pipeline, the filters, the other services with a caller, the GPU; and their safety
properties are proved. What could be added is the width filter beside the row filter.
