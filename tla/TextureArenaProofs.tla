------------------------- MODULE TextureArenaProofs -------------------------
(***************************************************************************)
(* Proofs about module TextureArena, for every block size of five or more, *)
(* every set of formats and every number of arenas.                        *)
(***************************************************************************)
EXTENDS TextureArena, WellFoundedInduction, TLAPS

\* The types of what is not Boolean.
DataOK ==
    /\ ctl \in {"stopped", "joining", "running"}
    /\ pc \in [Threads -> Pcs]
    /\ format \in Formats \cup {NoFormat}
    /\ outputArena \in 0..MaxArenas /\ made \in 0..MaxArenas
    /\ arenaFormat \in [Arenas -> Formats \cup {NoFormat}]
    /\ blocks \in [Arenas -> Seq(SUBSET Slots)]
    /\ tex \in [Handles -> Textures \cup {NoTex}]
    /\ ptr \in [Threads -> Nat]

\* The types of what is Boolean.
FlagsOK ==
    /\ flagRun \in BOOLEAN /\ encFlag \in BOOLEAN /\ changed \in BOOLEAN /\ hasTexture \in BOOLEAN
    /\ available \in BOOLEAN /\ aborted \in BOOLEAN

\* No arena needs a second block.
OneBlock == \A a \in Arenas : Len(blocks[a]) <= 1

\* A thread has a texture in hand only where the code has one.
InHand ==
    /\ pc["cap"] \in {"exited", "loop", "read", "scale", "destroy", "free"}
    /\ pc["enc"] \in {"exited", "loop", "pick", "push", "destroy", "free"}
    /\ pc["run"] \in {"exited", "loop", "destroy", "free"}
    /\ \A t \in Threads : /\ pc[t] \notin {"push", "destroy", "free"} => tex[t] = NoTex
                          /\ pc[t] = "free" => tex[t] # NoTex

\* outputTex is of outputArena; there is one as soon as a picture was scaled.
OutputOK ==
    /\ outputArena <= made
    /\ tex["outputTex"].arena = outputArena
    /\ hasTexture => outputArena # 0
    /\ ctl # "stopped" \/ pc["cap"] # "exited" => format # NoFormat
    /\ format # NoFormat => changed \/ outputArena # 0
    /\ pc["cap"] \in {"scale", "destroy", "free"} => outputArena # 0

\* The inductive invariant.
ArenaInv ==
    /\ DataOK /\ FlagsOK /\ SlotsAccounted /\ OneBlock /\ InHand /\ OutputOK /\ PointersValid /\ NoAbort

\* A number of blocks that is at most one.
LEMMA OneOf ==
    /\ \A n \in Nat : n <= 1 => \A b \in 1..n : b = 1 /\ n = 1
    /\ \A n \in Nat : n = 1 => 1 \in 1..n /\ n <= 1 /\ \A b \in 1..n : b = 1
OBVIOUS

\* A block that is not full has a first available slot.
LEMMA AllocSlotFound ==
    ASSUME NEW blk, blk \subseteq Slots, blk # {}
    PROVE  AllocSlot(blk) \in blk
<1>1. blk \subseteq Nat
  BY BlockAssumption DEF Slots
<1>2. PICK x \in blk : \A y \in blk : ~ (<<y, x>> \in OpToRel(<, Nat))
  BY <1>1, NatLessThanWellFounded, WFMin
<1>3. OpToRel(<, Nat) = {ss \in Nat \X Nat : ss[1] < ss[2]}
  BY Zenon DEF OpToRel
<1>4. \A y \in blk : ~ (<<y, x>> \in {ss \in Nat \X Nat : ss[1] < ss[2]})
  BY <1>2, <1>3, Zenon
<1>5. ASSUME NEW y \in blk PROVE x <= y
  <2>1. <<y, x>> \in Nat \X Nat /\ <<y, x>>[1] = y /\ <<y, x>>[2] = x
    BY <1>1
  <2>2. ~ (y < x)
    BY <1>4, <2>1
  <2> QED
    BY <1>1, <2>2
<1> QED
  BY <1>5 DEF AllocSlot

\* What alloc does to an arena while some handle is empty: five slots cannot all be
\* taken by the four other handles, so the first block has room.
LEMMA AllocFacts ==
    ASSUME DataOK, SlotsAccounted, OneBlock, NEW a \in Arenas, NEW h \in Handles, tex[h] = NoTex
    PROVE  \E B \in SUBSET Slots : \E s \in B :
              /\ Len(blocks[a]) = 1 => B = blocks[a][1]
              /\ Len(blocks[a]) = 0 => B = Slots
              /\ Alloc(a) = [arena |-> a, block |-> 1, slot |-> s]
              /\ AfterAlloc(a) = <<B \ {s}>>
<1> DEFINE bs == blocks[a]
<1>1. bs \in Seq(SUBSET Slots) /\ Len(bs) \in {0, 1}
  <2>1. bs \in Seq(SUBSET Slots) /\ Len(bs) <= 1
    BY DEF DataOK, OneBlock
  <2>2. Len(bs) \in Nat
    BY <2>1
  <2>3. \A n \in Nat : n <= 1 => n \in {0, 1}
    OBVIOUS
  <2> QED
    BY <2>1, <2>2, <2>3
<1>2. {0, 1, 2, 3, 4} \subseteq Slots
  BY BlockAssumption DEF Slots
<1>3. Len(bs) = 1 => bs[1] # {}
  <2> SUFFICES ASSUME Len(bs) = 1, bs[1] = {} PROVE FALSE
    OBVIOUS
  <2>1. \A s \in Slots : \E g \in Handles : tex[g] = [arena |-> a, block |-> 1, slot |-> s]
    BY DEF SlotsAccounted
  <2>2. \A s \in Slots : \E g \in Handles \ {h} : tex[g].slot = s
    <3>1. \A s \in Slots : tex[h] # [arena |-> a, block |-> 1, slot |-> s]
      BY ArenasAssumption DEF NoTex, Arenas
    <3>2. ASSUME NEW s \in Slots PROVE \E g \in Handles \ {h} : tex[g].slot = s
      <4>1. PICK g \in Handles : tex[g] = [arena |-> a, block |-> 1, slot |-> s]
        BY <2>1
      <4>2. g # h /\ tex[g].slot = s
        BY <3>1, <4>1
      <4> QED
        BY <4>2
    <3> QED
      BY <3>2
  <2> QED
    BY <1>2, <2>2 DEF Handles, Threads
<1>4. CASE Len(bs) = 1
  <2>1. AllocBlock(bs) = 1
    BY <1>1, <1>3, <1>4 DEF AllocBlock, Full
  <2>2. Grown(bs) = bs
    BY <1>4, <2>1 DEF Grown
  <2>3. bs[1] \subseteq Slots /\ AllocSlot(bs[1]) \in bs[1]
    BY <1>1, <1>3, <1>4, AllocSlotFound
  <2>4. bs = <<bs[1]>>
    BY <1>1, <1>4
  <2>5. AfterAlloc(a) = <<bs[1] \ {AllocSlot(bs[1])}>>
    BY <2>1, <2>2, <2>4 DEF AfterAlloc
  <2>6. Alloc(a) = [arena |-> a, block |-> 1, slot |-> AllocSlot(bs[1])]
    BY <2>1, <2>2 DEF Alloc
  <2> QED
    BY <1>4, <2>3, <2>5, <2>6
<1>5. CASE Len(bs) = 0
  <2>1. bs = <<>> /\ AllocBlock(bs) = 1
    BY <1>1, <1>5 DEF AllocBlock
  <2>2. Grown(bs) = <<Slots>>
    BY <1>5, <2>1 DEF Grown
  <2>3. AllocSlot(Slots) \in Slots
    BY <1>2, AllocSlotFound
  <2>4. AfterAlloc(a) = <<Slots \ {AllocSlot(Slots)}>>
    BY <2>1, <2>2 DEF AfterAlloc
  <2>5. Alloc(a) = [arena |-> a, block |-> 1, slot |-> AllocSlot(Slots)]
    BY <2>1, <2>2 DEF Alloc
  <2> QED
    BY <1>5, <2>3, <2>4, <2>5
<1> QED
  BY <1>1, <1>4, <1>5

\* The flags stay Boolean.
LEMMA FlagsStep == FlagsOK /\ [Next]_vars => FlagsOK'
<1> SUFFICES ASSUME FlagsOK, [Next]_vars PROVE FlagsOK'
  OBVIOUS
<1> USE DEF FlagsOK, ctlVars, scaleVars, arenaVars
<1>1. CASE UNCHANGED vars
  BY <1>1 DEF vars
<1>2. CASE \E f \in Formats : SetOutputFormat(f)
  BY <1>2 DEF SetOutputFormat
<1>3. CASE StartFlag \/ StartThreads \/ Stop
  BY <1>3 DEF StartFlag, StartThreads, Stop
<1>4. CASE CaptureLoop \/ CaptureNothing \/ ConvertSame \/ ConvertChanged \/ ConvertDone
  BY <1>4 DEF CaptureLoop, CaptureNothing, ConvertSame, ConvertChanged, ConvertDone
<1>5. CASE EncodeLoop \/ PickNothing \/ RunEnds
  BY <1>5 DEF EncodeLoop, PickNothing, RunEnds
<1>6. CASE PopOutput
  BY <1>6 DEF PopOutput, CloneMismatch
<1>7. CASE PushFrame \/ TakeFrame
  BY <1>7 DEF PushFrame, TakeFrame
<1>8. ASSUME NEW t \in Threads, SkipDestroy(t) \/ FindBlock(t) \/ FreeSlot(t) PROVE FlagsOK'
  BY <1>8 DEF SkipDestroy, FindBlock, FreeSlot, LastReference
<1> QED
  BY <1>1, <1>2, <1>3, <1>4, <1>5, <1>6, <1>7, <1>8 DEF Next

\* The steps that move no texture.
LEMMA QuietStep ==
    ASSUME ArenaInv,
           \/ UNCHANGED vars
           \/ \E f \in Formats : SetOutputFormat(f)
           \/ StartFlag \/ StartThreads \/ Stop
           \/ CaptureLoop \/ CaptureNothing \/ ConvertSame \/ ConvertDone
           \/ EncodeLoop \/ PickNothing \/ RunEnds
           \/ \E t \in Threads : SkipDestroy(t)
    PROVE  DataOK' /\ SlotsAccounted' /\ OneBlock' /\ InHand' /\ OutputOK' /\ PointersValid' /\ NoAbort'
<1> USE DEF ArenaInv, ctlVars, scaleVars, arenaVars
<1>1. UNCHANGED <<arenaVars, tex, ptr, aborted>>
  BY DEF vars, SetOutputFormat, StartFlag, StartThreads, Stop, CaptureLoop, CaptureNothing,
         ConvertSame, ConvertDone, EncodeLoop, PickNothing, RunEnds, SkipDestroy
<1>2. SlotsAccounted' /\ OneBlock' /\ NoAbort'
  BY <1>1 DEF SlotsAccounted, OneBlock, NoAbort
<1>3. DataOK' /\ InHand' /\ OutputOK' /\ PointersValid'
  <2> USE <1>1 DEF DataOK, InHand, OutputOK, PointersValid, Threads, Pcs
  <2>1. CASE UNCHANGED vars
    BY <2>1 DEF vars
  <2>2. CASE \E f \in Formats : SetOutputFormat(f)
    BY <2>2, NoFormatAssumption DEF SetOutputFormat
  <2>3. CASE StartFlag \/ StartThreads \/ Stop
    BY <2>3 DEF StartFlag, StartThreads, Stop
  <2>4. CASE CaptureLoop \/ CaptureNothing
    BY <2>4 DEF CaptureLoop, CaptureNothing
  <2>5. CASE ConvertSame \/ ConvertDone
    BY <2>5 DEF ConvertSame, ConvertDone
  <2>6. CASE EncodeLoop \/ PickNothing \/ RunEnds
    BY <2>6 DEF EncodeLoop, PickNothing, RunEnds
  <2>7. ASSUME NEW t \in Threads, SkipDestroy(t) PROVE DataOK' /\ InHand' /\ OutputOK' /\ PointersValid'
    BY <2>7 DEF SkipDestroy
  <2> QED
    BY <2>1, <2>2, <2>3, <2>4, <2>5, <2>6, <2>7
<1> QED
  BY <1>2, <1>3

\* findBlock.
LEMMA FindStep ==
    ASSUME ArenaInv, NEW t \in Threads, FindBlock(t)
    PROVE  DataOK' /\ SlotsAccounted' /\ OneBlock' /\ InHand' /\ OutputOK' /\ PointersValid' /\ NoAbort'
<1> USE DEF ArenaInv, FindBlock, ctlVars, scaleVars, arenaVars
<1>1. SlotsAccounted' /\ OneBlock' /\ NoAbort'
  BY DEF SlotsAccounted, OneBlock, NoAbort
<1>2. InHand' /\ OutputOK'
  BY DEF DataOK, InHand, OutputOK, Threads
<1>3. Len(blocks[tex[t].arena]) \in Nat
  <2>1. tex[t] \in Textures
    BY DEF DataOK, Handles
  <2>2. blocks[tex[t].arena] \in Seq(SUBSET Slots)
    BY <2>1 DEF DataOK, Textures
  <2> QED
    BY <2>2
<1>4. DataOK' /\ PointersValid'
  BY <1>3 DEF DataOK, PointersValid, Pcs
<1> QED
  BY <1>1, <1>2, <1>4

\* pushFrame and the taking of nextFrame exchange two handles, or nothing.
LEMMA SwapStep ==
    ASSUME ArenaInv, PushFrame \/ TakeFrame
    PROVE  DataOK' /\ SlotsAccounted' /\ OneBlock' /\ InHand' /\ OutputOK' /\ PointersValid' /\ NoAbort'
<1> USE DEF ArenaInv, ctlVars, scaleVars, arenaVars
<1>1. PICK t \in {"enc", "run"} : /\ tex' = Swap(t, "nextFrame") \/ tex' = tex
                                 /\ pc' = [pc EXCEPT ![t] = "destroy"]
                                 /\ pc[t] \in {"push", "loop"}
  BY DEF PushFrame, TakeFrame
<1>2. UNCHANGED <<ctlVars, scaleVars, arenaVars, ptr, aborted>>
  BY DEF PushFrame, TakeFrame
<1>3. \A h \in Handles : /\ h \notin {t, "nextFrame"} => tex'[h] = tex[h]
                         /\ \/ tex'[t] = tex["nextFrame"] /\ tex'["nextFrame"] = tex[t]
                            \/ tex'[t] = tex[t] /\ tex'["nextFrame"] = tex["nextFrame"]
  BY <1>1 DEF Swap, DataOK, Handles, Threads
<1>4. DataOK'
  BY <1>1, <1>2 DEF DataOK, Swap, Pcs, Handles, Threads
<1>5. OneBlock' /\ NoAbort' /\ OutputOK'
  BY <1>1, <1>2, <1>3 DEF OneBlock, NoAbort, OutputOK, DataOK, Handles, Threads
<1>6. InHand' /\ PointersValid'
  BY <1>1, <1>2, <1>3 DEF InHand, PointersValid, DataOK, Handles, Threads
<1>7. SlotsAccounted'
  <2>1. \A x : (\E h \in Handles : tex[h] = x) <=> (\E h \in Handles : tex'[h] = x)
    BY <1>3 DEF Handles, Threads
  <2>2. \A h, g \in Handles : h # g /\ tex'[h] # NoTex => tex'[h] # tex'[g]
    BY <1>3 DEF SlotsAccounted, Handles, Threads
  <2>3. \A h \in Handles : tex'[h] # NoTex => tex'[h].block \in 1..Len(blocks[tex'[h].arena])
    BY <1>3 DEF SlotsAccounted, Handles, Threads
  <2> QED
    BY <1>2, <2>1, <2>2, <2>3 DEF SlotsAccounted
<1> QED
  BY <1>4, <1>5, <1>6, <1>7

\* freeSlot: the slot becomes available in the one block there is, and an arena that
\* nobody else refers to is empty.
LEMMA FreeStep ==
    ASSUME ArenaInv, NEW t \in Threads, FreeSlot(t)
    PROVE  DataOK' /\ SlotsAccounted' /\ OneBlock' /\ InHand' /\ OutputOK' /\ PointersValid' /\ NoAbort'
<1> DEFINE x == tex[t]
           a == x.arena
<1> USE DEF ArenaInv
<1>1. x \in Textures /\ a \in Arenas /\ x.slot \in Slots /\ x # NoTex
  <2>1. x \in Textures \cup {NoTex} /\ x # NoTex
    BY DEF FreeSlot, InHand, DataOK, Handles
  <2> QED
    BY <2>1 DEF Textures
<1>2. blocks[a] \in Seq(SUBSET Slots) /\ Len(blocks[a]) \in Nat /\ Len(blocks[a]) <= 1
  BY <1>1 DEF DataOK, OneBlock
<1>3. x.block = 1 /\ Len(blocks[a]) = 1
  <2>1. x.block \in 1..Len(blocks[a])
    BY <1>1 DEF SlotsAccounted, Handles
  <2> QED
    BY <1>2, <2>1, OneOf
<1>4. x = [arena |-> a, block |-> 1, slot |-> x.slot]
  BY <1>1, <1>3 DEF Textures
<1>5. x.slot \notin blocks[a][1] /\ blocks[a][1] \subseteq Slots
  BY <1>1, <1>2, <1>3, <1>4 DEF SlotsAccounted, Handles
<1>6. ptr[t] = Len(blocks[a])
  BY DEF FreeSlot, PointersValid
<1>7. blocks' = [blocks EXCEPT ![a][1] = @ \cup {x.slot}]
  BY <1>3, <1>6 DEF FreeSlot
<1>8. /\ blocks' \in [Arenas -> Seq(SUBSET Slots)]
      /\ \A c \in Arenas : Len(blocks'[c]) = Len(blocks[c])
      /\ blocks'[a][1] = blocks[a][1] \cup {x.slot}
      /\ \A c \in Arenas \ {a} : blocks'[c] = blocks[c]
  <2>1. [blocks[a] EXCEPT ![1] = @ \cup {x.slot}] \in Seq(SUBSET Slots)
    BY <1>1, <1>2, <1>3, <1>5
  <2>2. Len([blocks[a] EXCEPT ![1] = @ \cup {x.slot}]) = Len(blocks[a])
    BY <1>2
  <2>3. blocks' = [blocks EXCEPT ![a] = [blocks[a] EXCEPT ![1] = @ \cup {x.slot}]]
    BY <1>7
  <2> QED
    BY <1>1, <1>2, <1>3, <2>1, <2>2, <2>3 DEF DataOK
<1>9. UNCHANGED <<ctl, flagRun, encFlag, format, changed, hasTexture, available, outputArena, made, arenaFormat>>
  BY DEF FreeSlot, ctlVars, scaleVars
<1>10. tex' = [tex EXCEPT ![t] = NoTex] /\ ptr' = [ptr EXCEPT ![t] = 0]
  BY DEF FreeSlot
<1>11. pc' = [pc EXCEPT ![t] = IF t = "cap" THEN "scale" ELSE "loop"] /\ pc[t] = "free"
  BY DEF FreeSlot
<1>12. DataOK'
  BY <1>8, <1>9, <1>10, <1>11 DEF DataOK, Pcs
<1>13. OneBlock'
  BY <1>8 DEF OneBlock
<1>14. InHand'
  BY <1>10, <1>11 DEF InHand, DataOK, Handles, Threads
<1>15. OutputOK'
  BY <1>9, <1>10, <1>11 DEF OutputOK, DataOK, Handles, Threads
<1>16. PointersValid'
  <2>1. ASSUME NEW u \in Threads, pc'[u] = "free" PROVE ptr'[u] = Len(blocks'[tex'[u].arena])
    <3>1. u # t /\ pc[u] = "free" /\ tex'[u] = tex[u] /\ ptr'[u] = ptr[u]
      BY <1>10, <1>11, <2>1 DEF DataOK, Handles
    <3>2. tex[u] \in Textures
      BY <3>1 DEF InHand, DataOK, Handles
    <3> QED
      BY <1>8, <3>1, <3>2 DEF PointersValid, Textures
  <2> QED
    BY <2>1 DEF PointersValid
<1>17. SlotsAccounted'
  <2>1. \A h \in Handles \ {t} : tex'[h] = tex[h]
    BY <1>10 DEF DataOK
  <2>2. tex'[t] = NoTex
    BY <1>10 DEF DataOK, Handles
  <2>3. ASSUME NEW c \in Arenas, NEW b \in 1..Len(blocks'[c]), NEW s \in Slots
        PROVE  s \notin blocks'[c][b] <=> \E h \in Handles : tex'[h] = [arena |-> c, block |-> b, slot |-> s]
    <3> DEFINE y == [arena |-> c, block |-> b, slot |-> s]
    <3>1. y # NoTex
      BY ArenasAssumption DEF NoTex, Arenas
    <3>2. (\E h \in Handles : tex'[h] = y) <=> (\E h \in Handles : tex[h] = y) /\ y # x
      <4>1. \A h \in Handles : h # t /\ tex[h] = x => FALSE
        BY <1>1 DEF SlotsAccounted, Handles
      <4> QED
        BY <2>1, <2>2, <3>1, <4>1
    <3>3. s \notin blocks[c][b] <=> \E h \in Handles : tex[h] = y
      BY <1>8 DEF SlotsAccounted
    <3>4. CASE c # a
      <4>1. y # x
        BY <3>4
      <4> QED
        BY <1>8, <3>2, <3>3, <3>4, <4>1
    <3>5. CASE c = a
      <4>1. b = 1
        <5>1. Len(blocks'[c]) = Len(blocks[a])
          BY <1>8, <3>5
        <5>2. b \in 1..Len(blocks[a])
          BY <5>1
        <5> QED
          BY <1>2, <5>2, OneOf
      <4>2. y = x <=> s = x.slot
        BY <1>4, <3>5, <4>1
      <4> QED
        BY <1>8, <3>2, <3>3, <3>5, <4>1, <4>2
    <3> QED
      BY <3>4, <3>5
  <2>4. ASSUME NEW h \in Handles, tex'[h] # NoTex PROVE tex'[h].block \in 1..Len(blocks'[tex'[h].arena])
    <3>1. tex'[h] = tex[h] /\ tex[h] # NoTex
      BY <2>1, <2>2, <2>4
    <3>2. tex[h].arena \in Arenas
      BY <3>1 DEF DataOK, Textures
    <3>3. Len(blocks'[tex[h].arena]) = Len(blocks[tex[h].arena])
      BY <1>8, <3>2
    <3> QED
      BY <3>1, <3>3 DEF SlotsAccounted
  <2>5. \A h, g \in Handles : h # g /\ tex'[h] # NoTex => tex'[h] # tex'[g]
    BY <2>1, <2>2 DEF SlotsAccounted
  <2> QED
    BY <2>3, <2>4, <2>5 DEF SlotsAccounted
<1>18. NoAbort'
  <2>1. ASSUME LastReference(t) PROVE blocks'[a][1] = Slots
    <3>1. ASSUME NEW s \in Slots, s \notin blocks'[a][1] PROVE FALSE
      <4>1. PICK h \in Handles : tex'[h] = [arena |-> a, block |-> 1, slot |-> s]
        BY <1>1, <1>3, <1>8, <1>17, <3>1 DEF SlotsAccounted
      <4>2. tex'[h].arena = a /\ h # t
        BY <1>1, <1>10, <4>1, ArenasAssumption DEF DataOK, Handles, NoTex, Arenas
      <4>3. tex'[h] = tex[h]
        BY <1>10, <4>2 DEF DataOK
      <4> QED
        BY <2>1, <4>2, <4>3 DEF LastReference
    <3> QED
      BY <1>1, <1>5, <1>8, <3>1
  <2>2. aborted' = (\/ x.slot \in blocks[a][1]
                    \/ LastReference(t) /\ \E b \in 1..Len(blocks'[a]) : blocks'[a][b] # Slots)
    BY <1>3, <1>6 DEF FreeSlot
  <2>3. LastReference(t) => \A b \in 1..Len(blocks'[a]) : blocks'[a][b] = Slots
    <3>1. Len(blocks'[a]) = Len(blocks[a])
      BY <1>1, <1>8
    <3>2. \A b \in 1..Len(blocks'[a]) : b = 1
      BY <1>2, <3>1, OneOf
    <3> QED
      BY <2>1, <3>2
  <2> QED
    BY <1>5, <2>2, <2>3 DEF NoAbort
<1> QED
  BY <1>12, <1>13, <1>14, <1>15, <1>16, <1>17, <1>18

\* alloc gives a free slot to handle g, whose old texture goes to the empty handle h.
LEMMA AllocStep ==
    ASSUME DataOK, SlotsAccounted, OneBlock,
           NEW a \in Arenas, NEW g \in Handles, NEW h \in Handles, tex[h] = NoTex,
           blocks' = [blocks EXCEPT ![a] = AfterAlloc(a)],
           tex' = [tex EXCEPT ![h] = tex[g], ![g] = Alloc(a)]
    PROVE  /\ blocks' \in [Arenas -> Seq(SUBSET Slots)] /\ tex' \in [Handles -> Textures \cup {NoTex}]
           /\ OneBlock' /\ SlotsAccounted'
           /\ \A c \in Arenas : Len(blocks[c]) = 1 => Len(blocks'[c]) = 1
           /\ tex'[g].arena = a /\ tex'[g] # NoTex
<1>1. PICK B \in SUBSET Slots, s \in Slots :
           /\ s \in B
           /\ Len(blocks[a]) = 1 => B = blocks[a][1]
           /\ Len(blocks[a]) = 0 => B = Slots
           /\ Alloc(a) = [arena |-> a, block |-> 1, slot |-> s]
           /\ AfterAlloc(a) = <<B \ {s}>>
  BY AllocFacts
<1> DEFINE new == [arena |-> a, block |-> 1, slot |-> s]
<1>2. new \in Textures /\ new # NoTex /\ new.arena = a /\ new.block = 1
  BY <1>1, ArenasAssumption DEF Textures, NoTex, Arenas
<1>3. /\ tex' \in [Handles -> Textures \cup {NoTex}] /\ tex'[g] = new
      /\ g # h => tex'[h] = tex[g]
      /\ \A k \in Handles \ {g, h} : tex'[k] = tex[k]
  BY <1>1, <1>2 DEF DataOK
<1>4. <<B \ {s}>> \in Seq(SUBSET Slots) /\ Len(<<B \ {s}>>) = 1 /\ <<B \ {s}>>[1] = B \ {s}
  OBVIOUS
<1>5. /\ blocks' \in [Arenas -> Seq(SUBSET Slots)]
      /\ Len(blocks'[a]) = 1 /\ blocks'[a][1] = B \ {s}
      /\ \A c \in Arenas \ {a} : blocks'[c] = blocks[c]
  BY <1>1, <1>4 DEF DataOK
<1>6. OneBlock' /\ \A c \in Arenas : Len(blocks[c]) = 1 => Len(blocks'[c]) = 1
  <2>1. Len(blocks'[a]) <= 1
    BY <1>5, OneOf
  <2>2. \A c \in Arenas : c = a \/ blocks'[c] = blocks[c]
    BY <1>5
  <2>3. OneBlock'
    BY <2>1, <2>2 DEF OneBlock
  <2> QED
    BY <1>5, <2>2, <2>3
<1>7. \A k \in Handles : /\ Len(blocks[a]) \in {0, 1}
                         /\ tex[k] # NoTex /\ tex[k].arena = a => Len(blocks[a]) = 1 /\ tex[k].block = 1
  <2>1. Len(blocks[a]) \in Nat /\ Len(blocks[a]) <= 1
    BY DEF DataOK, OneBlock
  <2>2. \A n \in Nat : n <= 1 => n \in {0, 1}
    OBVIOUS
  <2> QED
    BY <2>1, <2>2, OneOf DEF SlotsAccounted
<1>8. \A k \in Handles : tex[k] # new
  <2> SUFFICES ASSUME NEW k \in Handles, tex[k] = new PROVE FALSE
    OBVIOUS
  <2>1. Len(blocks[a]) = 1 /\ s \in blocks[a][1]
    BY <1>1, <1>2, <1>7
  <2> QED
    BY <1>1, <2>1 DEF SlotsAccounted
<1>9. \A y : y # NoTex => ((\E k \in Handles : tex'[k] = y) <=> (\E k \in Handles : tex[k] = y) \/ y = new)
  BY <1>3
<1>10. ASSUME NEW c \in Arenas, NEW b \in 1..Len(blocks'[c]), NEW r \in Slots
       PROVE  r \notin blocks'[c][b] <=> \E k \in Handles : tex'[k] = [arena |-> c, block |-> b, slot |-> r]
  <2> DEFINE y == [arena |-> c, block |-> b, slot |-> r]
  <2>1. y # NoTex
    BY ArenasAssumption DEF NoTex, Arenas
  <2>2. CASE c # a
    <3>1. y # new /\ blocks'[c] = blocks[c]
      BY <1>5, <2>2
    <3>2. b \in 1..Len(blocks[c])
      BY <3>1
    <3>3. r \notin blocks[c][b] <=> \E k \in Handles : tex[k] = y
      BY <3>2 DEF SlotsAccounted
    <3>4. (\E k \in Handles : tex'[k] = y) <=> (\E k \in Handles : tex[k] = y)
      BY <1>9, <2>1, <3>1
    <3> QED
      BY <3>1, <3>3, <3>4
  <2>3. CASE c = a
    <3>1. b = 1
      <4>1. b \in 1..Len(blocks'[a]) /\ Len(blocks'[a]) \in Nat /\ Len(blocks'[a]) = 1
        BY <1>5, <2>3
      <4> QED
        BY <4>1, OneOf
    <3>2. r \notin blocks'[c][b] <=> r \notin B \/ r = s
      <4>1. blocks'[c][b] = B \ {s}
        BY <1>5, <2>3, <3>1
      <4> QED
        BY <4>1
    <3>3. y = new <=> r = s
      BY <2>3, <3>1
    <3>4. r \notin B <=> \E k \in Handles : tex[k] = y
      <4>1. CASE Len(blocks[a]) = 1
        BY <1>1, <2>3, <3>1, <4>1 DEF SlotsAccounted
      <4>2. CASE Len(blocks[a]) = 0
        BY <1>1, <1>7, <2>1, <2>3, <4>2
      <4> QED
        BY <1>7, <4>1, <4>2
    <3> QED
      BY <1>9, <2>1, <3>2, <3>3, <3>4
  <2> QED
    BY <2>2, <2>3
<1>11. ASSUME NEW k \in Handles, tex'[k] # NoTex PROVE tex'[k].block \in 1..Len(blocks'[tex'[k].arena])
  <2> DEFINE n == Len(blocks'[a])
  <2>1. n \in Nat /\ n = 1
    BY <1>5
  <2>2. 1 \in 1..n
    BY <2>1, OneOf
  <2>3. CASE tex'[k] = new
    <3>1. tex'[k].block = 1 /\ tex'[k].arena = a
      BY <1>2, <2>3
    <3> QED
      BY <2>2, <3>1
  <2>4. CASE tex'[k] # new
    <3>1. PICK j \in Handles : tex[j] = tex'[k]
      BY <1>9, <1>11, <2>4
    <3>2. tex[j].arena \in Arenas /\ tex[j].block \in 1..Len(blocks[tex[j].arena])
      BY <1>11, <3>1 DEF DataOK, Textures, SlotsAccounted
    <3>3. CASE tex[j].arena = a
      <4>1. tex[j].block = 1
        BY <1>7, <1>11, <3>1, <3>3
      <4> QED
        BY <2>2, <3>1, <3>3, <4>1
    <3>4. CASE tex[j].arena # a
      BY <1>5, <3>1, <3>2, <3>4
    <3> QED
      BY <3>3, <3>4
  <2> QED
    BY <2>3, <2>4
<1>12. \A k, j \in Handles : k # j /\ tex'[k] # NoTex => tex'[k] # tex'[j]
  BY <1>2, <1>3, <1>8 DEF SlotsAccounted
<1>13. SlotsAccounted'
  BY <1>10, <1>11, <1>12 DEF SlotsAccounted
<1> QED
  BY <1>2, <1>3, <1>5, <1>6, <1>13

\* A thread that is about to free a slot of an arena is not disturbed by an alloc.
LEMMA AllocPointers ==
    ASSUME ArenaInv, ptr' = ptr,
           \A c \in Arenas : Len(blocks[c]) = 1 => Len(blocks'[c]) = 1,
           \A u \in Threads : pc'[u] = "free" => pc[u] = "free" /\ tex'[u] = tex[u]
    PROVE  PointersValid'
<1> USE DEF ArenaInv
<1>1. ASSUME NEW u \in Threads, pc'[u] = "free" PROVE ptr'[u] = Len(blocks'[tex'[u].arena])
  <2>1. pc[u] = "free" /\ tex'[u] = tex[u] /\ tex[u] # NoTex /\ u \in Handles
    BY <1>1 DEF InHand, Handles
  <2>2. tex[u].arena \in Arenas
    BY <2>1 DEF DataOK, Textures
  <2>3. Len(blocks[tex[u].arena]) \in Nat /\ Len(blocks[tex[u].arena]) <= 1
    BY <2>2 DEF DataOK, OneBlock
  <2>4. Len(blocks[tex[u].arena]) = 1
    BY <2>1, <2>3, OneOf DEF SlotsAccounted
  <2> QED
    BY <2>1, <2>2, <2>4 DEF PointersValid
<1> QED
  BY <1>1 DEF PointersValid

\* popOutput.
LEMMA PopStep ==
    ASSUME ArenaInv, PopOutput
    PROVE  DataOK' /\ SlotsAccounted' /\ OneBlock' /\ InHand' /\ OutputOK' /\ PointersValid' /\ NoAbort'
<1> USE DEF ArenaInv, ctlVars, scaleVars
<1>1. outputArena \in Arenas
  BY ArenasAssumption DEF PopOutput, OutputOK, DataOK, Arenas
<1>2. tex["enc"] = NoTex /\ "enc" \in Handles /\ pc["enc"] = "pick"
  BY DEF PopOutput, InHand, Handles, Threads
<1>3. tex' = [tex EXCEPT !["enc"] = tex["enc"], !["enc"] = Alloc(outputArena)]
  BY DEF PopOutput, DataOK
<1>4. blocks' = [blocks EXCEPT ![outputArena] = AfterAlloc(outputArena)]
  BY DEF PopOutput
<1>5. /\ blocks' \in [Arenas -> Seq(SUBSET Slots)] /\ tex' \in [Handles -> Textures \cup {NoTex}]
      /\ OneBlock' /\ SlotsAccounted'
      /\ \A c \in Arenas : Len(blocks[c]) = 1 => Len(blocks'[c]) = 1
      /\ tex'["enc"].arena = outputArena /\ tex'["enc"] # NoTex
  BY <1>1, <1>2, <1>3, <1>4, AllocStep
<1>6. pc' = [pc EXCEPT !["enc"] = "push"]
  BY DEF PopOutput
<1>7. UNCHANGED <<ctl, flagRun, encFlag, format, changed, hasTexture, available, outputArena, made, arenaFormat, ptr>>
  BY DEF PopOutput
<1>8. \A k \in Handles \ {"enc"} : tex'[k] = tex[k]
  BY <1>3 DEF DataOK
<1>9. DataOK'
  BY <1>5, <1>6, <1>7 DEF DataOK, Pcs
<1>10. InHand'
  BY <1>5, <1>6, <1>8 DEF InHand, DataOK, Handles, Threads
<1>11. OutputOK'
  BY <1>6, <1>7, <1>8 DEF OutputOK, DataOK, Handles, Threads
<1>12. PointersValid'
  <2>1. \A u \in Threads : pc'[u] = "free" => pc[u] = "free" /\ tex'[u] = tex[u]
    BY <1>6, <1>8 DEF DataOK, Handles
  <2> QED
    BY <1>5, <1>7, <2>1, AllocPointers
<1>13. NoAbort'
  BY DEF PopOutput, CloneMismatch, OutputOK, NoAbort
<1> QED
  BY <1>5, <1>9, <1>10, <1>11, <1>12, <1>13

\* convert_ with a format that was set anew.
LEMMA ConvertStep ==
    ASSUME ArenaInv, ConvertChanged
    PROVE  DataOK' /\ SlotsAccounted' /\ OneBlock' /\ InHand' /\ OutputOK' /\ PointersValid' /\ NoAbort'
<1> DEFINE a == EnsureFormat
<1> USE DEF ArenaInv, ctlVars, scaleVars
<1>1. a \in Arenas /\ a # 0 /\ (a <= made \/ a = made + 1)
  BY ArenasAssumption DEF ConvertChanged, EnsureFormat, OutputOK, DataOK, Arenas
<1> HIDE DEF a
<1>2. tex["cap"] = NoTex /\ "cap" \in Handles /\ "outputTex" \in Handles /\ pc["cap"] = "read"
  BY DEF ConvertChanged, InHand, Handles, Threads
<1>3. tex' = [tex EXCEPT !["cap"] = tex["outputTex"], !["outputTex"] = Alloc(a)]
  BY DEF ConvertChanged, DataOK, a
<1>4. blocks' = [blocks EXCEPT ![a] = AfterAlloc(a)]
  BY DEF ConvertChanged, a
<1>5. /\ blocks' \in [Arenas -> Seq(SUBSET Slots)] /\ tex' \in [Handles -> Textures \cup {NoTex}]
      /\ OneBlock' /\ SlotsAccounted'
      /\ \A c \in Arenas : Len(blocks[c]) = 1 => Len(blocks'[c]) = 1
      /\ tex'["outputTex"].arena = a
  BY <1>1, <1>2, <1>3, <1>4, AllocStep
<1>6. pc' = [pc EXCEPT !["cap"] = "destroy"] /\ hasTexture' = TRUE /\ outputArena' = a
  BY DEF ConvertChanged, a
<1>7. /\ made' = (IF a > made THEN a ELSE made)
      /\ arenaFormat' = [arenaFormat EXCEPT ![a] = format]
      /\ UNCHANGED <<ctl, flagRun, encFlag, format, changed, available, ptr, aborted>>
  BY DEF ConvertChanged, a
<1>8. \A k \in Handles \ {"cap", "outputTex"} : tex'[k] = tex[k]
  BY <1>3 DEF DataOK
<1>9. made' \in 0..MaxArenas /\ outputArena' <= made'
  BY <1>1, <1>6, <1>7, ArenasAssumption DEF DataOK, Arenas
<1>10. DataOK'
  <2>1. outputArena' \in 0..MaxArenas
    BY <1>1, <1>6, ArenasAssumption DEF Arenas
  <2> QED
    BY <1>5, <1>6, <1>7, <1>9, <2>1 DEF DataOK, Pcs
<1>11. InHand'
  BY <1>6, <1>8 DEF InHand, DataOK, Handles, Threads
<1>12. OutputOK'
  BY <1>1, <1>2, <1>5, <1>6, <1>7, <1>9 DEF OutputOK, DataOK, Threads
<1>13. PointersValid'
  <2>1. \A u \in Threads : pc'[u] = "free" => pc[u] = "free" /\ tex'[u] = tex[u]
    BY <1>6, <1>8 DEF DataOK, Handles, Threads
  <2> QED
    BY <1>5, <1>7, <2>1, AllocPointers
<1>14. NoAbort'
  BY <1>7 DEF NoAbort
<1> QED
  BY <1>5, <1>10, <1>11, <1>12, <1>13, <1>14

\* The initial states.
LEMMA ArenaInit == Init => ArenaInv
<1> SUFFICES ASSUME Init PROVE ArenaInv
  OBVIOUS
<1>1. FlagsOK /\ NoAbort
  BY DEF Init, FlagsOK, NoAbort
<1>2. blocks \in [Arenas -> Seq(SUBSET Slots)] /\ \A c \in Arenas : Len(blocks[c]) = 0
  BY DEF Init
<1>3. DataOK
  BY <1>2, ArenasAssumption DEF Init, DataOK, Pcs
<1>4. OneBlock /\ SlotsAccounted
  BY <1>2 DEF Init, OneBlock, SlotsAccounted
<1>5. InHand /\ OutputOK /\ PointersValid
  BY DEF Init, InHand, OutputOK, PointersValid, Handles, Threads, NoTex
<1> QED
  BY <1>1, <1>3, <1>4, <1>5 DEF ArenaInv

\* Every step keeps the invariant.
LEMMA ArenaStep == ArenaInv /\ [Next]_vars => ArenaInv'
<1> SUFFICES ASSUME ArenaInv, [Next]_vars PROVE ArenaInv'
  OBVIOUS
<1> DEFINE Rest == DataOK' /\ SlotsAccounted' /\ OneBlock' /\ InHand' /\ OutputOK' /\ PointersValid' /\ NoAbort'
<1>1. FlagsOK'
  BY FlagsStep DEF ArenaInv
<1>2. CASE \/ UNCHANGED vars
           \/ \E f \in Formats : SetOutputFormat(f)
           \/ StartFlag \/ StartThreads \/ Stop
           \/ CaptureLoop \/ CaptureNothing \/ ConvertSame \/ ConvertDone
           \/ EncodeLoop \/ PickNothing \/ RunEnds
           \/ \E t \in Threads : SkipDestroy(t)
  BY <1>1, <1>2, QuietStep DEF ArenaInv
<1>3. CASE ConvertChanged
  BY <1>1, <1>3, ConvertStep DEF ArenaInv
<1>4. CASE PopOutput
  BY <1>1, <1>4, PopStep DEF ArenaInv
<1>5. CASE PushFrame \/ TakeFrame
  BY <1>1, <1>5, SwapStep DEF ArenaInv
<1>6. ASSUME NEW t \in Threads, FindBlock(t) PROVE ArenaInv'
  BY <1>1, <1>6, FindStep DEF ArenaInv
<1>7. ASSUME NEW t \in Threads, FreeSlot(t) PROVE ArenaInv'
  BY <1>1, <1>7, FreeStep DEF ArenaInv
<1> QED
  BY <1>2, <1>3, <1>4, <1>5, <1>6, <1>7 DEF Next

\* The invariant holds in every reachable state.
THEOREM ArenaCorrect == Spec => []ArenaInv
BY ArenaInit, ArenaStep, PTL DEF Spec

\* Every variable keeps its type, whatever the threads do.
THEOREM TypeCorrect == Spec => []TypeOK
<1>1. ArenaInv => TypeOK
  BY DEF ArenaInv, DataOK, FlagsOK, TypeOK
<1> QED
  BY <1>1, ArenaCorrect, PTL

\* A slot is taken exactly while one handle names it, and no two handles name one slot:
\* alloc, clone, the exchanges and the destructors lose no slot and hand out none twice.
THEOREM SlotsCorrect == Spec => []SlotsAccounted
<1>1. ArenaInv => SlotsAccounted
  BY DEF ArenaInv
<1> QED
  BY <1>1, ArenaCorrect, PTL

\* The address that findBlock returns is still good when freeSlot uses it.
THEOREM PointersCorrect == Spec => []PointersValid
<1>1. ArenaInv => PointersValid
  BY DEF ArenaInv
<1> QED
  BY <1>1, ArenaCorrect, PTL

\* None of the three abort() calls is reached.
THEOREM NoAbortCorrect == Spec => []NoAbort
<1>1. ArenaInv => NoAbort
  BY DEF ArenaInv
<1> QED
  BY <1>1, ArenaCorrect, PTL
=============================================================================
