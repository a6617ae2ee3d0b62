----------------------------- MODULE RenderBackends -----------------------------
(***************************************************************************)
(* IFramebuffer and its three backends (libs/avs-core/src/                 *)
(* CPUFramebuffer.cpp, FileFramebuffer.cpp, OpenGLFramebuffer.cpp) under   *)
(* the effects that use them: Clear, Swizzle and Invert.  The OpenGL one   *)
(* keeps a copy of its texture in memory for data(), with a mark that says *)
(* whether the copy is out of date.                                        *)
(*                                                                         *)
(* A picture is a column of pixels, row by row from the top.  What OpenGL  *)
(* code draws while the buffer is bound redraws the whole picture.  Calls  *)
(* with a null pointer or a wrong size throw and change nothing.           *)
(***************************************************************************)
EXTENDS Integers, Sequences

CONSTANTS
  Heights,      \* the heights a framebuffer is given
  MaxValue,     \* of a pixel, 255 in the code
  MaxPresents   \* bound: files of a behaviour

ASSUME BackendsAssumption ==
  Heights \subseteq Nat \ {0} /\ MaxValue \in Nat /\ MaxPresents \in Nat

VARIABLES
  backend,          \* "CPU", "File" or "OpenGL"
  pixels,           \* pixels_, and cpuBuffer_ of the OpenGL backend
  texture,          \* on the GPU
  bound,            \* the FBO is the one OpenGL draws to
  cpuBufferDirty,
  frameCount,
  disk,             \* of each number, the rows of the file in the order of the PNG
  written,          \* history: the picture as the clients last wrote it, by any way
  due,              \* history: [download, data, announced]: what a reader of each way
                    \* has to get, and whether drawing has been announced to data()
  reading,          \* history: what a client last read, and what it had to be
  presented         \* history: the pictures presented under the numbers so far

bufferVars   == <<backend, pixels, texture, bound, cpuBufferDirty>>
fileVars     == <<frameCount, disk, presented>>
backendsVars == <<bufferVars, fileVars, written, due, reading>>

Values      == 0..MaxValue
Pictures(h) == [1..h -> Values]
Filled(v)   == [y \in DOMAIN pixels |-> v]
Inverted(p) == [y \in DOMAIN p |-> MaxValue - p[y]]
Flipped(p)  == [y \in DOMAIN p |-> p[Len(p) + 1 - y]]
OnGpu       == backend = "OpenGL"

\* vector::resize keeps what fits and adds zeros.
Resized(p, h) == [y \in 1..h |-> IF y \in DOMAIN p THEN p[y] ELSE 0]

\* A texture without data has any content.
BackendsInit ==
  /\ backend \in {"CPU", "File", "OpenGL"}
  /\ \E h \in Heights : pixels = [y \in 1..h |-> 0]
  /\ IF OnGpu THEN texture \in Pictures(Len(pixels)) ELSE texture = pixels
  /\ bound          = FALSE
  /\ cpuBufferDirty = OnGpu
  /\ frameCount     = 0
  /\ disk           = <<>>
  /\ written        = texture
  /\ due            = [download |-> texture, data |-> texture, announced |-> TRUE]
  /\ reading        = [got |-> texture, due |-> texture, written |-> texture]
  /\ presented      = <<>>

-------------------------------------------------------------------------------
(* Writing. *)

\* history only: a picture that readers of either way are due from now on
Replaced(p, announced) ==
  written' = p /\ due' = [download |-> p, data |-> p, announced |-> announced]

\* The effect Clear.  On the GPU the copy is out of date afterwards.
ClearBuffer(v) ==
  /\ IF OnGpu THEN /\ texture' = Filled(v) /\ bound' = FALSE /\ cpuBufferDirty' = TRUE
                   /\ UNCHANGED pixels
              ELSE /\ pixels' = Filled(v) /\ UNCHANGED <<texture, bound, cpuBufferDirty>>
  /\ Replaced(Filled(v), TRUE)
  /\ UNCHANGED <<backend, fileVars, reading>>

Upload(p) ==
  /\ Len(p) = Len(pixels)
  /\ pixels' = p
  /\ IF OnGpu THEN texture' = p /\ cpuBufferDirty' = FALSE
              ELSE UNCHANGED <<texture, cpuBufferDirty>>
  /\ Replaced(p, FALSE)
  /\ UNCHANGED <<backend, bound, fileVars, reading>>

\* mutant: the copy is taken to be good after the texture was made anew
ResizeBufferClean(h) ==
  /\ h # Len(pixels)
  /\ pixels' = Resized(pixels, h)
  /\ IF OnGpu THEN texture' \in Pictures(h) /\ Replaced(texture', TRUE)
              ELSE Replaced(pixels', TRUE) /\ UNCHANGED texture
  /\ UNCHANGED <<backend, bound, cpuBufferDirty, fileVars, reading>>

\* Another size; a new texture has any content.
ResizeBuffer(h) ==
  /\ h # Len(pixels)
  /\ pixels' = Resized(pixels, h)
  /\ IF OnGpu THEN texture' \in Pictures(h) /\ cpuBufferDirty' = TRUE /\ Replaced(texture', TRUE)
              ELSE Replaced(pixels', TRUE) /\ UNCHANGED <<texture, cpuBufferDirty>>
  /\ UNCHANGED <<backend, bound, fileVars, reading>>

\* What was worked on in place is lost: the copy is to be fetched anew.
BindBuffer ==
  /\ OnGpu
  /\ bound' = TRUE /\ cpuBufferDirty' = TRUE
  /\ due' = [due EXCEPT !.data = due.download, !.announced = TRUE]
  /\ UNCHANGED <<backend, pixels, texture, fileVars, written, reading>>

UnbindBuffer ==
  /\ bound /\ bound' = FALSE
  /\ UNCHANGED <<backend, pixels, texture, cpuBufferDirty, fileVars, written, due, reading>>

\* OpenGL code draws: data() is to see it if it has not been called since bind.
Draw(p) ==
  /\ bound /\ Len(p) = Len(pixels)
  /\ texture' = p /\ written' = p
  /\ due' = [due EXCEPT !.download = p, !.data = IF due.announced THEN p ELSE @]
  /\ UNCHANGED <<backend, pixels, bound, cpuBufferDirty, fileVars, reading>>

-------------------------------------------------------------------------------
(* Reading. *)

Reads(p, owed) == reading' = [got |-> p, due |-> owed, written |-> written]

\* glReadPixels leaves the default framebuffer bound.
Download ==
  /\ Reads(IF OnGpu THEN texture ELSE pixels, due.download)
  /\ bound' = FALSE
  /\ UNCHANGED <<backend, pixels, texture, cpuBufferDirty, fileVars, written, due>>

Fetched == IF cpuBufferDirty THEN texture ELSE pixels

\* data(), of which the caller reads.
Data ==
  /\ Reads(Fetched, due.data)
  /\ pixels' = Fetched
  /\ bound' = (bound /\ ~cpuBufferDirty)
  /\ cpuBufferDirty' = FALSE
  /\ due' = [due EXCEPT !.announced = FALSE]
  /\ UNCHANGED <<backend, texture, fileVars, written>>

\* Swizzle and Invert read and write through data(): the texture is not told.
InPlace ==
  /\ Reads(Fetched, due.data)
  /\ pixels' = Inverted(Fetched) /\ written' = pixels'
  /\ bound' = (bound /\ ~cpuBufferDirty)
  /\ cpuBufferDirty' = FALSE
  /\ due' = [download |-> IF OnGpu THEN due.download ELSE Inverted(due.data),
             data |-> Inverted(due.data), announced |-> FALSE]
  /\ UNCHANGED <<backend, texture, fileVars>>

-------------------------------------------------------------------------------
(* present() of the File backend; for the others it does nothing. *)

Numbered(files, n, p) == [m \in DOMAIN files \cup {n} |-> IF m = n THEN p ELSE files[m]]

Present ==
  /\ backend = "File"
  /\ frameCount < MaxPresents
  /\ disk' = Numbered(disk, frameCount, Flipped(pixels))
  /\ frameCount' = frameCount + 1
  /\ presented' = Append(presented, written)
  /\ UNCHANGED <<bufferVars, written, due, reading>>

\* The file cannot be written: an exception, and the number is still free.
PresentFails ==
  /\ backend = "File"
  /\ frameCount < MaxPresents
  /\ UNCHANGED backendsVars

ResetFrameCount ==
  /\ backend = "File"
  /\ frameCount' = 0 /\ presented' = <<>>
  /\ UNCHANGED <<bufferVars, disk, written, due, reading>>

BackendsNext ==
  \/ \E v \in Values : ClearBuffer(v)
  \/ \E h \in Heights : ResizeBuffer(h) \/ \E p \in Pictures(h) : Upload(p) \/ Draw(p)
  \/ BindBuffer \/ UnbindBuffer
  \/ Download \/ Data \/ InPlace
  \/ Present \/ PresentFails \/ ResetFrameCount

BackendsSpec == BackendsInit /\ [][BackendsNext]_backendsVars

-------------------------------------------------------------------------------
BackendsTypeOK ==
  /\ backend \in {"CPU", "File", "OpenGL"}
  /\ Len(pixels) \in Heights /\ Len(texture) \in Heights
  /\ pixels \in Pictures(Len(pixels)) /\ texture \in Pictures(Len(texture))
  /\ OnGpu => Len(texture) = Len(pixels)
  /\ bound \in BOOLEAN /\ cpuBufferDirty \in BOOLEAN
  /\ frameCount \in 0..MaxPresents

\* What a reader gets, through every order of calls and changes of size.  The CPU and
\* File backends give what was written last, by whatever way it was written and is
\* read.  The OpenGL one does not always: its download() gives what clear, upload,
\* resize or drawing put on the texture last, never what was worked on in place; its
\* data() gives the same, with the work in place done since, until the next of clear,
\* upload, resize or bind takes that work away, and but for what was drawn after
\* data() or upload() had been called under the same bind.  And the files numbered so
\* far are the pictures presented, in order and without a gap, upside down.
PicturesArrive ==
  /\ reading.got = reading.due
  /\ backend # "OpenGL" => reading.got = reading.written
  /\ \A n \in 0..(frameCount - 1) :
       n \in DOMAIN disk /\ Len(presented) = frameCount /\ disk[n] = Flipped(presented[n + 1])

\* "Effects write to the framebuffer through this interface without knowing the
\* backend" (libs/avs-core/include/avs/core/IFramebuffer.hpp:15): what an effect has
\* written is what the next reader gets.
AnyBackendWillDo == reading.got = reading.written

===============================================================================
