---------------------------- MODULE TextureArena ----------------------------
(***************************************************************************)
(* The memory of the host's scaled pictures: TextureAllocArena with its    *)
(* TextureSoftware handles, as ScaleSoftware and EncoderFFmpeg use them.   *)
(*                                                                         *)
(* An arena hands out the slots of its blocks; a block has BLOCK_SIZE      *)
(* slots, and alloc adds a block when all are taken.  A handle knows the   *)
(* arena, the block and the slot; assignment swaps two handles.  Four      *)
(* handles live outside the arena at a time: ScaleSoftware's outputTex,    *)
(* the encoder's nextFrame and the local variables of loopEncoder_ and     *)
(* run_; a fifth is the temporary in convert_ that takes outputTex's old   *)
(* value away.                                                             *)
(*                                                                         *)
(* alloc runs under the arena's lock.  ~TextureSoftware does not: it asks  *)
(* for the address of the block under the lock and frees the slot after    *)
(* it, so that a block that another thread adds in between, which moves    *)
(* the blocks in memory, leaves it with a dangling address.                *)
(*                                                                         *)
(* The arena of CaptureD3D is used by one thread only and is left out.     *)
(***************************************************************************)
EXTENDS Naturals, Sequences

CONSTANTS
    Formats,     \* output formats: sizes
    NoFormat,    \* before the first setOutputFormat
    BLOCK_SIZE,  \* slots of a block: 8 in the code
    MaxArenas    \* bound: arenas made

\* As many slots as there are handles.
ASSUME BlockAssumption == BLOCK_SIZE \in Nat /\ BLOCK_SIZE >= 5
ASSUME ArenasAssumption == MaxArenas \in Nat
ASSUME NoFormatAssumption == NoFormat \notin Formats

VARIABLES
    ctl,          \* the thread that starts and stops the pipeline
    flagRun,      \* CapturePipelineD3DSoft::flagRun
    encFlag,      \* EncoderFFmpeg::flagRun
    pc,           \* where each thread is
    format,       \* ScaleSoftware's output format
    changed,      \* ScaleSoftware::outputFormatChanged
    hasTexture,   \* ScaleSoftware::hasTexture
    available,    \* EncoderFFmpeg::flagNextFrameAvailable
    outputArena,  \* ScaleSoftware::outputArena, 0 if none
    made,         \* arenas made so far
    arenaFormat,  \* the format of each arena
    blocks,       \* the blocks of each arena: the slots that are available
    tex,          \* the handles
    ptr,          \* the block found by ~TextureSoftware: how many blocks the arena had
    aborted       \* abort() or a failed assertion

ctlVars   == <<ctl, flagRun, encFlag>>
scaleVars == <<format, changed, hasTexture>>
arenaVars == <<outputArena, made, arenaFormat, blocks>>
vars      == <<ctlVars, pc, scaleVars, available, arenaVars, tex, ptr, aborted>>

\* captureThread, encodeThread and the encoder's runThread, each with a handle of its own.
Threads == {"cap", "enc", "run"}
Handles == Threads \cup {"outputTex", "nextFrame"}
Arenas  == 1..MaxArenas
Slots   == 0..(BLOCK_SIZE - 1)
Pcs     == {"exited", "loop", "read", "scale", "pick", "push", "destroy", "free"}

\* An empty TextureSoftware.
NoTex    == [arena |-> 0, block |-> 0, slot |-> 0]
Textures == [arena : Arenas, block : Nat, slot : Slots]

\* frameLock of the pipeline is held by loopCapture_ from pushInput to the end of flush.
FrameLockFree == pc["cap"] \notin {"scale", "destroy", "free"}
-----------------------------------------------------------------------------
(* TextureAllocArena and TextureSoftware.                                  *)

\* allocSlot: the first slot that is available.
AllocSlot(blk) == CHOOSE s \in blk : \A r \in blk : s <= r

\* Faulty variant: the last slot of a block is never used.
FullEarly(blk) == \A r, s \in blk : r = s

Full(blk) == blk = {}

\* alloc: the first block with an available slot, else a new block.
AllocBlock(bs) ==
    IF \E b \in 1..Len(bs) : ~Full(bs[b])
    THEN CHOOSE b \in 1..Len(bs) : ~Full(bs[b]) /\ \A c \in 1..(b - 1) : Full(bs[c])
    ELSE Len(bs) + 1

\* Block(textureSize, blockId) and push_back.
Grown(bs) == IF AllocBlock(bs) > Len(bs) THEN Append(bs, Slots) ELSE bs

\* The handle that alloc returns, and the blocks it leaves.
Alloc(a)       == LET b == AllocBlock(blocks[a])
                  IN  [arena |-> a, block |-> b, slot |-> AllocSlot(Grown(blocks[a])[b])]
AfterAlloc(a)  == LET b == AllocBlock(blocks[a])
                  IN  [Grown(blocks[a]) EXCEPT ![b] = @ \ {AllocSlot(@)}]

\* ensureFormat: the arena in use, or a new one if it has another format.
EnsureFormat ==
    IF outputArena # 0 /\ arenaFormat[outputArena] = format THEN outputArena ELSE made + 1

\* TextureSoftware's operator= and its move constructor exchange the handles.
Swap(h, g) == [tex EXCEPT ![h] = tex[g], ![g] = tex[h]]

\* ~TextureSoftware leaves an empty handle alone.
SkipDestroy(t) ==
    /\ pc[t] = "destroy" /\ tex[t] = NoTex
    /\ pc' = [pc EXCEPT ![t] = IF t = "cap" THEN "scale" ELSE "loop"]
    /\ UNCHANGED <<ctlVars, scaleVars, available, arenaVars, tex, ptr, aborted>>

\* findBlock: the address of the block, under the lock.
FindBlock(t) ==
    /\ pc[t] = "destroy" /\ tex[t] # NoTex
    /\ ptr' = [ptr EXCEPT ![t] = Len(blocks[tex[t].arena])]
    /\ pc' = [pc EXCEPT ![t] = "free"]
    /\ UNCHANGED <<ctlVars, scaleVars, available, arenaVars, tex, aborted>>

\* The last reference to an arena is the handle of t: ~TextureAllocArena destroys the blocks.
LastReference(t) ==
    /\ tex[t].arena # outputArena
    /\ \A h \in Handles \ {t} : tex[h].arena # tex[t].arena

\* freeSlot ("Double free"), then the release of the arena, whose blocks abort if
\* they are "Destructed while something's allocated".  Through a dangling address
\* the slot of the moved block is not reached.
FreeSlot(t) ==
    LET x     == tex[t]
        freed == IF ptr[t] = Len(blocks[x.arena])
                 THEN [blocks EXCEPT ![x.arena][x.block] = @ \cup {x.slot}] ELSE blocks
    IN  /\ pc[t] = "free"
        /\ blocks' = freed
        /\ aborted' = \/ x.slot \in blocks[x.arena][x.block]
                      \/ LastReference(t) /\ \E b \in 1..Len(freed[x.arena]) : freed[x.arena][b] # Slots
        /\ tex' = [tex EXCEPT ![t] = NoTex]
        /\ ptr' = [ptr EXCEPT ![t] = 0]
        /\ pc' = [pc EXCEPT ![t] = IF t = "cap" THEN "scale" ELSE "loop"]
        /\ UNCHANGED <<ctlVars, scaleVars, available, outputArena, made, arenaFormat>>
-----------------------------------------------------------------------------
Init ==
    /\ ctl = "stopped" /\ flagRun = FALSE /\ encFlag = FALSE
    /\ pc = [t \in Threads |-> "exited"]
    /\ format = NoFormat /\ changed = FALSE /\ hasTexture = FALSE
    /\ available = FALSE
    /\ outputArena = 0 /\ made = 0
    /\ arenaFormat = [a \in Arenas |-> NoFormat]
    /\ blocks = [a \in Arenas |-> <<>>]
    /\ tex = [h \in Handles |-> NoTex]
    /\ ptr = [t \in Threads |-> 0]
    /\ aborted = FALSE
-----------------------------------------------------------------------------
(* The thread that answers requests.                                       *)

\* setOutputFormat, without frameLock, while threads of the last session may run.
SetOutputFormat(f) ==
    /\ ctl = "stopped"
    /\ f # format
    /\ format' = f
    /\ changed' = TRUE
    /\ UNCHANGED <<ctlVars, pc, hasTexture, available, arenaVars, tex, ptr, aborted>>

StartFlag ==
    /\ ctl = "stopped" /\ format # NoFormat
    /\ flagRun' = TRUE
    /\ ctl' = "joining"
    /\ UNCHANGED <<encFlag, pc, scaleVars, available, arenaVars, tex, ptr, aborted>>

\* The joins, and EncoderFFmpeg::start: nextFrame is forgotten but keeps its texture.
StartThreads ==
    /\ ctl = "joining"
    /\ \A t \in Threads : pc[t] = "exited"
    /\ encFlag' = TRUE
    /\ available' = FALSE
    /\ pc' = [t \in Threads |-> "loop"]
    /\ ctl' = "running"
    /\ UNCHANGED <<flagRun, scaleVars, arenaVars, tex, ptr, aborted>>

Stop ==
    /\ ctl = "running"
    /\ flagRun' = FALSE /\ encFlag' = FALSE
    /\ ctl' = "stopped"
    /\ UNCHANGED <<pc, scaleVars, available, arenaVars, tex, ptr, aborted>>
-----------------------------------------------------------------------------
(* loopCapture_: one turn reads a picture, or none, and scales it.         *)

CaptureLoop ==
    /\ pc["cap"] = "loop"
    /\ pc' = [pc EXCEPT !["cap"] = IF flagRun THEN "read" ELSE "exited"]
    /\ UNCHANGED <<ctlVars, scaleVars, available, arenaVars, tex, ptr, aborted>>

CaptureNothing ==
    /\ pc["cap"] = "read"
    /\ pc' = [pc EXCEPT !["cap"] = "loop"]
    /\ UNCHANGED <<ctlVars, scaleVars, available, arenaVars, tex, ptr, aborted>>

ConvertSame ==
    /\ pc["cap"] = "read" /\ ~changed
    /\ hasTexture' = TRUE
    /\ pc' = [pc EXCEPT !["cap"] = "scale"]
    /\ UNCHANGED <<ctlVars, format, changed, available, arenaVars, tex, ptr, aborted>>

\* outputTex = outputArena->alloc(): the temporary is left with the old texture.
ConvertChanged ==
    LET a == EnsureFormat
    IN  /\ pc["cap"] = "read" /\ changed
        /\ a <= MaxArenas
        /\ hasTexture' = TRUE
        /\ outputArena' = a
        /\ made' = IF a > made THEN a ELSE made
        /\ arenaFormat' = [arenaFormat EXCEPT ![a] = format]
        /\ blocks' = [blocks EXCEPT ![a] = AfterAlloc(a)]
        /\ tex' = [tex EXCEPT !["outputTex"] = Alloc(a), !["cap"] = tex["outputTex"]]
        /\ pc' = [pc EXCEPT !["cap"] = "destroy"]
        /\ UNCHANGED <<ctlVars, format, changed, available, ptr, aborted>>

\* The end of convert_; a format that was set since the test goes unnoticed.
ConvertDone ==
    /\ pc["cap"] = "scale"
    /\ changed' = FALSE
    /\ pc' = [pc EXCEPT !["cap"] = "loop"]
    /\ UNCHANGED <<ctlVars, format, hasTexture, available, arenaVars, tex, ptr, aborted>>
-----------------------------------------------------------------------------
(* loopEncoder_ and run_.                                                  *)

EncodeLoop ==
    /\ pc["enc"] = "loop"
    /\ pc' = [pc EXCEPT !["enc"] = IF flagRun THEN "pick" ELSE "exited"]
    /\ UNCHANGED <<ctlVars, scaleVars, available, arenaVars, tex, ptr, aborted>>

PickNothing ==
    /\ pc["enc"] = "pick" /\ FrameLockFree
    /\ pc' = [pc EXCEPT !["enc"] = "loop"]
    /\ UNCHANGED <<ctlVars, scaleVars, available, arenaVars, tex, ptr, aborted>>

\* "Format mismatch while cloning!"
CloneMismatch == LET x == tex["outputTex"]
                 IN  x.arena # outputArena /\ arenaFormat[x.arena] # arenaFormat[outputArena]

\* Faulty variant: popOutput hands out outputTex itself.
PopOutputShared ==
    /\ pc["enc"] = "pick" /\ FrameLockFree
    /\ hasTexture
    /\ tex' = [tex EXCEPT !["enc"] = tex["outputTex"]]
    /\ pc' = [pc EXCEPT !["enc"] = "push"]
    /\ UNCHANGED <<ctlVars, scaleVars, available, arenaVars, ptr, aborted>>

\* popOutput: a clone of outputTex.  Once there is a picture (Picture of PipelineProofs).
PopOutput ==
    /\ pc["enc"] = "pick" /\ FrameLockFree
    /\ hasTexture
    /\ aborted' = CloneMismatch
    /\ blocks' = [blocks EXCEPT ![outputArena] = AfterAlloc(outputArena)]
    /\ tex' = [tex EXCEPT !["enc"] = Alloc(outputArena)]
    /\ pc' = [pc EXCEPT !["enc"] = "push"]
    /\ UNCHANGED <<ctlVars, scaleVars, available, outputArena, made, arenaFormat, ptr>>

\* Faulty variant: assignment copies the handle.
PushFrameCopies ==
    /\ pc["enc"] = "push"
    /\ ~available \/ ~encFlag
    /\ tex' = IF encFlag THEN [tex EXCEPT !["nextFrame"] = tex["enc"]] ELSE tex
    /\ available' = (available \/ encFlag)
    /\ pc' = [pc EXCEPT !["enc"] = "destroy"]
    /\ UNCHANGED <<ctlVars, scaleVars, arenaVars, ptr, aborted>>

\* pushFrame: loopEncoder_ is left with what nextFrame had, or with its own frame.
PushFrame ==
    /\ pc["enc"] = "push"
    /\ ~available \/ ~encFlag
    /\ tex' = IF encFlag THEN Swap("enc", "nextFrame") ELSE tex
    /\ available' = (available \/ encFlag)
    /\ pc' = [pc EXCEPT !["enc"] = "destroy"]
    /\ UNCHANGED <<ctlVars, scaleVars, arenaVars, ptr, aborted>>

TakeFrame ==
    /\ pc["run"] = "loop" /\ encFlag /\ available
    /\ tex' = Swap("run", "nextFrame")
    /\ available' = FALSE
    /\ pc' = [pc EXCEPT !["run"] = "destroy"]
    /\ UNCHANGED <<ctlVars, scaleVars, arenaVars, ptr, aborted>>

RunEnds ==
    /\ pc["run"] = "loop" /\ ~encFlag
    /\ pc' = [pc EXCEPT !["run"] = "exited"]
    /\ UNCHANGED <<ctlVars, scaleVars, available, arenaVars, tex, ptr, aborted>>
-----------------------------------------------------------------------------
Next ==
    /\ ~aborted
    /\ \/ \E f \in Formats : SetOutputFormat(f)
       \/ StartFlag \/ StartThreads \/ Stop
       \/ CaptureLoop \/ CaptureNothing \/ ConvertSame \/ ConvertChanged \/ ConvertDone
       \/ EncodeLoop \/ PickNothing \/ PopOutput \/ PushFrame
       \/ TakeFrame \/ RunEnds
       \/ \E t \in Threads : SkipDestroy(t) \/ FindBlock(t) \/ FreeSlot(t)

Spec == Init /\ [][Next]_vars
-----------------------------------------------------------------------------
(* Properties.                                                             *)

\* Every variable has its type; a handle is empty or names a slot of an arena.
TypeOK ==
    /\ ctl \in {"stopped", "joining", "running"} /\ flagRun \in BOOLEAN /\ encFlag \in BOOLEAN
    /\ pc \in [Threads -> Pcs]
    /\ format \in Formats \cup {NoFormat} /\ changed \in BOOLEAN /\ hasTexture \in BOOLEAN
    /\ available \in BOOLEAN
    /\ outputArena \in 0..MaxArenas /\ made \in 0..MaxArenas
    /\ arenaFormat \in [Arenas -> Formats \cup {NoFormat}]
    /\ blocks \in [Arenas -> Seq(SUBSET Slots)]
    /\ tex \in [Handles -> Textures \cup {NoTex}]
    /\ ptr \in [Threads -> Nat]
    /\ aborted \in BOOLEAN

\* Every slot that is not available belongs to exactly one handle, and no handle has
\* a slot that is available: nothing is leaked and no two pictures share memory.
SlotsAccounted ==
    /\ \A a \in Arenas : \A b \in 1..Len(blocks[a]) : \A s \in Slots :
           s \notin blocks[a][b] <=> \E h \in Handles : tex[h] = [arena |-> a, block |-> b, slot |-> s]
    /\ \A h \in Handles : tex[h] # NoTex => tex[h].block \in 1..Len(blocks[tex[h].arena])
    /\ \A h, g \in Handles : h # g /\ tex[h] # NoTex => tex[h] # tex[g]

\* Although ~TextureSoftware frees without the lock, the block it found has not moved:
\* the handles never need a second block.
PointersValid ==
    \A t \in Threads : pc[t] = "free" => ptr[t] = Len(blocks[tex[t].arena])

\* "Double free", "Destructed while something's allocated" and "Format mismatch while
\* cloning!" never happen, whatever the threads of two sessions do to each other.
NoAbort == ~aborted
=============================================================================
