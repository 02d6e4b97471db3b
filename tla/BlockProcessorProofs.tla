------------------------- MODULE BlockProcessorProofs -------------------------
(***************************************************************************)
(* The properties of BlockProcessor for every size of the buffers, every   *)
(* length of the filter, every limit and every set of estimates.           *)
(*                                                                         *)
(* None of them is inductive.  The invariant has three parts.  Sound: the  *)
(* spectra are the blocks in a mirror, the slots as well as the indices,   *)
(* since the two buffers run in opposite directions from slot 0 on.  Aged  *)
(* and OnTarget: a slot is as old as its distance from the write index     *)
(* says, and the read index keeps the distance that delay_ and the latency *)
(* ask for, so that overruns are noticed before it is passed.  Watched:    *)
(* when the excess has lasted for longer than the current interval, the    *)
(* minimum of this interval is an excess as well.                          *)
(*                                                                         *)
(* The operators of RenderDelayBuffer are taken one by one.  Each lemma    *)
(* says which fields its operator leaves alone and what it makes of the    *)
(* others; the composed operators follow from the lemmas of their parts.   *)
(***************************************************************************)
EXTENDS BlockProcessor, TLAPS

(* The slot of spectra_ that belongs to slot i of blocks_. *)
Mirror(i) == IF i = 0 THEN 0 ELSE Size - i

Fields == {"bw", "br", "sw", "sr", "lw", "lr", "blocks", "spectra", "delay", "ext",
           "min_latency", "excess_counter", "active_counter", "activity"}

-----------------------------------------------------------------------------
(* Arithmetic. *)

(* std::min() of two integers. *)
LEMMA MinOfTwo ==
  ASSUME NEW x \in Int, NEW y \in Int
  PROVE  Min({x, y}) = IF x <= y THEN x ELSE y
<1>1. CASE x <= y
  <2>1. \A z \in {x, y} : x <= z
    BY <1>1
  <2>2. \A m \in {x, y} : (\A z \in {x, y} : m <= z) => m = x
    BY <1>1
  <2> QED
    BY <1>1, <2>1, <2>2 DEF Min
<1>2. CASE ~ (x <= y)
  <2>1. \A z \in {x, y} : y <= z
    BY <1>2
  <2>2. \A m \in {x, y} : (\A z \in {x, y} : m <= z) => m = y
    BY <1>2
  <2> QED
    BY <1>2, <2>1, <2>2 DEF Min
<1> QED
  BY <1>1, <1>2

(* std::max() of two integers. *)
LEMMA MaxOfTwo ==
  ASSUME NEW x \in Int, NEW y \in Int
  PROVE  Max({x, y}) = IF x >= y THEN x ELSE y
<1>1. CASE x >= y
  <2>1. \A z \in {x, y} : x >= z
    BY <1>1
  <2>2. \A m \in {x, y} : (\A z \in {x, y} : m >= z) => m = x
    BY <1>1
  <2> QED
    BY <1>1, <2>1, <2>2 DEF Max
<1>2. CASE ~ (x >= y)
  <2>1. \A z \in {x, y} : y >= z
    BY <1>2
  <2>2. \A m \in {x, y} : (\A z \in {x, y} : m >= z) => m = y
    BY <1>2
  <2> QED
    BY <1>2, <2>1, <2>2 DEF Max
<1> QED
  BY <1>1, <1>2

(* The remainder of a number less than three times the divisor. *)
LEMMA ModOnce ==
  ASSUME NEW n \in Nat \ {0}, NEW x \in 0 .. 3 * n - 1
  PROVE  x % n = IF x < n THEN x ELSE IF x < 2 * n THEN x - n ELSE x - 2 * n
  OBVIOUS

(* OffsetIndex() by at most one turn, without the remainder. *)
LEMMA Offset ==
  ASSUME NEW n \in Nat \ {0}, NEW i \in 0 .. n - 1, NEW d \in (0 - n) .. n
  PROVE  OffsetIndex(n, i, d) = IF i + d < 0 THEN n + i + d
                                ELSE IF i + d < n THEN i + d ELSE i + d - n
<1> DEFINE x == n + i + d
<1>1. x \in 0 .. 3 * n - 1
  OBVIOUS
<1>2. x % n = IF x < n THEN x ELSE IF x < 2 * n THEN x - n ELSE x - 2 * n
  <2> HIDE DEF x
  <2> QED
    BY <1>1, ModOnce, ZenonT(30)
<1> QED
  BY <1>2 DEF OffsetIndex

-----------------------------------------------------------------------------
(* What the lemmas say about a buffer. *)

(* BufferLatency() without the remainder. *)
Latency(lr, lw) == IF lr >= lw THEN lr - lw ELSE LowRateSize + lr - lw

(* BufferLatency() is the distance of the low-rate indices. *)
LEMMA LatencyOf ==
  ASSUME NEW b, b.lr \in 0 .. LowRateSize - 1, b.lw \in 0 .. LowRateSize - 1
  PROVE  BufferLatency(b) = Latency(b.lr, b.lw)
<1> DEFINE x == LowRateSize + b.lr - b.lw
<1>1. LowRateSize \in Nat \ {0}
  BY BufferAssumption
<1>2. x \in 0 .. 3 * LowRateSize - 1
  BY <1>1
<1>3. x % LowRateSize = IF x < LowRateSize THEN x
                        ELSE IF x < 2 * LowRateSize THEN x - LowRateSize
                        ELSE x - 2 * LowRateSize
  BY <1>1, <1>2, ModOnce, SMTT(30)
<1> QED
  BY <1>1, <1>3 DEF BufferLatency, Latency

(* The blocks and their spectra mirror each other, and so do the indices. *)
Matched(b) ==
  /\ b.bw \in 0 .. Size - 1 /\ b.br \in 0 .. Size - 1
  /\ b.sw = Mirror(b.bw) /\ b.sr = Mirror(b.br)
  /\ DOMAIN b.blocks = 0 .. Size - 1 /\ DOMAIN b.spectra = 0 .. Size - 1
  /\ \A i \in 0 .. Size - 1 : b.spectra[Mirror(i)] = b.blocks[i]

(* The object has its members, the indices are in range. *)
Sound(b) ==
  /\ DOMAIN b = Fields
  /\ b.ext \in Nat \cup {None}
  /\ b.lw \in 0 .. LowRateSize - 1 /\ b.lr \in 0 .. LowRateSize - 1
  /\ Matched(b)

(* The distance from slot i back to the write index, in blocks. *)
Behind(write, i) == IF i <= write THEN write - i ELSE Size + write - i

(* A slot that holds a block is as old as it lies behind. *)
Aged(b) == \A i \in 0 .. Size - 1 : b.blocks[i] \in {Behind(b.bw, i), Size}

(* The read index is where delay_ and the latency put it. *)
OnTarget(b) ==
  b.delay # None => /\ b.delay \in Nat
                    /\ Behind(b.bw, b.br) = Latency(b.lr, b.lw) + b.delay

SameContents(b, c) == c.bw = b.bw /\ c.blocks = b.blocks
SameWatch(b, c) == /\ c.min_latency = b.min_latency
                   /\ c.excess_counter = b.excess_counter

(* What Reset() establishes. *)
Fresh(c) == /\ Sound(c) /\ Latency(c.lr, c.lw) = 1 /\ OnTarget(c)
            /\ c.min_latency = 0 /\ c.excess_counter = 0

(* c differs from b at most in delay_, the detection and the activity. *)
Alike(b, c) ==
  /\ DOMAIN c = DOMAIN b
  /\ c.ext = b.ext
  /\ c.lw = b.lw /\ c.lr = b.lr
  /\ c.bw = b.bw /\ c.br = b.br /\ c.sw = b.sw /\ c.sr = b.sr
  /\ c.blocks = b.blocks /\ c.spectra = b.spectra

(* Such a difference does not matter to Sound. *)
LEMMA AlikeSound ==
  ASSUME NEW b, NEW c, Sound(b), Alike(b, c)
  PROVE  Sound(c) /\ Latency(c.lr, c.lw) = Latency(b.lr, b.lw)
  BY DEF Sound, Alike, Matched, Latency

(* The sizes the constructor computes leave room for every delay. *)
LEMMA Sizes == /\ Size \in Nat \ {0, 1} /\ LowRateSize \in Nat \ {0, 1}
               /\ MaxDelay \in 1 .. Size - 1
               /\ DefaultDelay \in 1 .. Size - 1
  BY BufferAssumption DEF Size, MaxDelay

-----------------------------------------------------------------------------
(* The operators of RenderDelayBuffer. *)

(* ApplyTotalDelay() sets both read indices d blocks behind. *)
LEMMA ApplySound ==
  ASSUME NEW b, Sound(b), NEW d \in 0 .. Size - 1
  PROVE  LET c == ApplyTotalDelay(b, d)
         IN  /\ Sound(c) /\ c.lr = b.lr /\ c.lw = b.lw
             /\ SameContents(b, c) /\ SameWatch(b, c) /\ c.delay = b.delay
             /\ Behind(c.bw, c.br) = d
<1> DEFINE c == ApplyTotalDelay(b, d)
<1> USE Sizes
<1>1. /\ DOMAIN c = DOMAIN b /\ c.ext = b.ext /\ c.lr = b.lr /\ c.lw = b.lw
      /\ c.bw = b.bw /\ c.sw = b.sw
      /\ c.blocks = b.blocks /\ c.spectra = b.spectra
      /\ c.br = OffsetIndex(Size, b.bw, - d)
      /\ c.sr = OffsetIndex(Size, b.sw, d)
      /\ SameContents(b, c) /\ SameWatch(b, c) /\ c.delay = b.delay
  BY DEF ApplyTotalDelay, Sound, Fields, SameContents, SameWatch
<1>2. b.bw \in 0 .. Size - 1 /\ b.sw = Mirror(b.bw) /\ b.sw \in 0 .. Size - 1
  <2>1. b.bw \in 0 .. Size - 1 /\ b.sw = Mirror(b.bw)
    BY DEF Sound, Matched
  <2>2. Mirror(b.bw) \in 0 .. Size - 1
    BY <2>1 DEF Mirror
  <2> QED
    BY <2>1, <2>2
<1>3. c.br = IF b.bw - d < 0 THEN Size + b.bw - d ELSE b.bw - d
  <2>1. - d \in (0 - Size) .. Size
    OBVIOUS
  <2>2. OffsetIndex(Size, b.bw, - d) = IF b.bw + (- d) < 0 THEN Size + b.bw + (- d)
                ELSE IF b.bw + (- d) < Size THEN b.bw + (- d) ELSE b.bw + (- d) - Size
    BY <1>2, <2>1, Offset
  <2> QED
    BY <1>1, <1>2, <2>2
<1>4. c.sr = IF b.sw + d < Size THEN b.sw + d ELSE b.sw + d - Size
  <2>1. d \in (0 - Size) .. Size
    OBVIOUS
  <2>2. OffsetIndex(Size, b.sw, d) = IF b.sw + d < 0 THEN Size + b.sw + d
                ELSE IF b.sw + d < Size THEN b.sw + d ELSE b.sw + d - Size
    BY <1>2, <2>1, Offset
  <2> QED
    BY <1>1, <1>2, <2>2
<1>5. c.br \in 0 .. Size - 1 /\ c.sr = Mirror(c.br)
  BY <1>2, <1>3, <1>4 DEF Mirror
<1> HIDE DEF c
<1>6. Sound(c)
  BY <1>1, <1>5 DEF Sound, Matched
<1>7. Behind(c.bw, c.br) = d
  BY <1>1, <1>2, <1>3 DEF Behind
<1> QED
  BY <1>1, <1>6, <1>7 DEF c

(* The delay that Reset() derives is at least one block. *)
LEMMA AudioBufferDelayRange ==
  ASSUME NEW e \in Nat
  PROVE  AudioBufferDelay(e) \in 1 .. Size - 1
  BY MinOfTwo, Sizes DEF AudioBufferDelay

(* ComputeDelay() undoes ApplyTotalDelay(). *)
LEMMA ComputeDelayOf ==
  ASSUME NEW b, Sound(b)
  PROVE  ComputeDelay(b) = Behind(b.bw, b.br) - Latency(b.lr, b.lw)
<1>1. InternalDelay(b) = Behind(b.bw, b.br)
  BY Sizes, SMTT(30) DEF InternalDelay, Behind, Sound, Matched, Mirror
<1> QED
  BY <1>1, LatencyOf DEF ComputeDelay, Sound

(* Reset(): one unread block, and the read index where delay_ says. *)
LEMMA ResetSound ==
  ASSUME NEW b, Sound(b)
  PROVE  Fresh(Reset(b)) /\ SameContents(b, Reset(b))
<1> USE Sizes
<1> DEFINE a == [b EXCEPT !.min_latency = 0, !.excess_counter = 0,
                          !.lr = OffsetIndex(LowRateSize, b.lw, 1)]
           d == IF b.ext # None THEN AudioBufferDelay(b.ext) ELSE DefaultDelay
           e == ApplyTotalDelay(a, d)
           c == [e EXCEPT !.delay = IF b.ext # None THEN ComputeDelay(e) ELSE None]
<1>1. Reset(b) = c
  BY DEF Reset
<1>2. b.lw \in 0 .. LowRateSize - 1 /\ 1 \in (0 - LowRateSize) .. LowRateSize
  BY DEF Sound
<1>3. OffsetIndex(LowRateSize, b.lw, 1)
        = IF b.lw + 1 < LowRateSize THEN b.lw + 1 ELSE 0
  <2>1. OffsetIndex(LowRateSize, b.lw, 1)
          = IF b.lw + 1 < 0 THEN LowRateSize + b.lw + 1
            ELSE IF b.lw + 1 < LowRateSize THEN b.lw + 1 ELSE b.lw + 1 - LowRateSize
    BY <1>2, Offset
  <2> QED
    BY <1>2, <2>1
<1>4. /\ DOMAIN a = DOMAIN b /\ a.ext = b.ext /\ a.lw = b.lw
      /\ a.lr = OffsetIndex(LowRateSize, b.lw, 1)
      /\ a.bw = b.bw /\ a.br = b.br /\ a.sw = b.sw /\ a.sr = b.sr
      /\ a.blocks = b.blocks /\ a.spectra = b.spectra
      /\ a.min_latency = 0 /\ a.excess_counter = 0
  BY DEF Sound, Fields
<1>5. Sound(a) /\ Latency(a.lr, a.lw) = 1
  <2> HIDE DEF a
  <2>1. a.lr \in 0 .. LowRateSize - 1 /\ Latency(a.lr, a.lw) = 1
    BY <1>2, <1>3, <1>4 DEF Latency
  <2> QED
    BY <1>4, <2>1 DEF Sound, Matched
<1>6. d \in 1 .. Size - 1 /\ d \in 0 .. Size - 1
  BY AudioBufferDelayRange DEF Sound
<1>7. /\ Sound(e) /\ e.lr = a.lr /\ e.lw = a.lw
      /\ SameContents(a, e) /\ SameWatch(a, e) /\ Behind(e.bw, e.br) = d
  <2> HIDE DEF a, d
  <2> QED
    BY <1>5, <1>6, ApplySound
<1>8. /\ Alike(e, c) /\ SameWatch(e, c)
      /\ c.delay = IF b.ext # None THEN ComputeDelay(e) ELSE None
  <2> HIDE DEF e
  <2> QED
    BY <1>7 DEF Alike, SameWatch, Sound, Fields
<1> HIDE DEF a, c, d, e
<1>9. Sound(c) /\ Latency(c.lr, c.lw) = Latency(e.lr, e.lw)
  BY <1>7, <1>8, AlikeSound
<1>10. Latency(e.lr, e.lw) = 1
  BY <1>5, <1>7
<1>11. OnTarget(c)
  <2>1. ComputeDelay(e) = d - 1
    BY <1>7, <1>10, ComputeDelayOf
  <2> QED
    BY <1>6, <1>7, <1>8, <1>9, <1>10, <2>1 DEF OnTarget, Alike
<1>12. SameContents(b, c) /\ c.min_latency = 0 /\ c.excess_counter = 0
  BY <1>4, <1>7, <1>8 DEF SameContents, SameWatch, Alike
<1> QED
  BY <1>1, <1>9, <1>10, <1>11, <1>12 DEF Fresh

(* The indices of spectra_ step back when those of blocks_ step on. *)
LEMMA MirrorSteps ==
  ASSUME NEW i \in 0 .. Size - 1
  PROVE  /\ IncIndex(i) \in 0 .. Size - 1
         /\ Mirror(i) \in 0 .. Size - 1
         /\ DecIndex(Mirror(i)) = Mirror(IncIndex(i))
         /\ \A j \in 0 .. Size - 1 : Mirror(j) = Mirror(i) <=> j = i
  BY Sizes DEF IncIndex, DecIndex, Mirror

(* A step of a low-rate index. *)
LEMMA LowRateStep ==
  ASSUME NEW i \in 0 .. LowRateSize - 1
  PROVE  OffsetIndex(LowRateSize, i, -1) = IF i = 0 THEN LowRateSize - 1 ELSE i - 1
<1>1. LowRateSize \in Nat \ {0} /\ -1 \in (0 - LowRateSize) .. LowRateSize
  BY Sizes
<1>2. OffsetIndex(LowRateSize, i, -1)
        = IF i + (-1) < 0 THEN LowRateSize + i + (-1)
          ELSE IF i + (-1) < LowRateSize THEN i + (-1) ELSE i + (-1) - LowRateSize
  BY <1>1, Offset
<1> QED
  BY <1>1, <1>2

(* InsertBlock() writes a block and its spectrum to slots that match. *)
LEMMA WrittenMatched ==
  ASSUME NEW b, Sound(b)
  PROVE  LET c == InsertBlock(b)
         IN  /\ Sound(c) /\ c.lr = b.lr /\ c.lw = b.lw /\ c.bw = b.bw /\ c.br = b.br
             /\ c.blocks = Written(b.blocks, b.bw)
             /\ SameWatch(b, c) /\ c.delay = b.delay
<1> DEFINE c == InsertBlock(b)
<1>1. /\ DOMAIN c = DOMAIN b /\ c.ext = b.ext /\ c.lr = b.lr /\ c.lw = b.lw
      /\ c.bw = b.bw /\ c.br = b.br /\ c.sw = b.sw /\ c.sr = b.sr
      /\ c.blocks = Written(b.blocks, b.bw)
      /\ c.spectra = Written(b.spectra, b.sw)
      /\ SameWatch(b, c) /\ c.delay = b.delay
  BY DEF InsertBlock, Sound, Fields, SameWatch
<1>2. /\ DOMAIN c.blocks = 0 .. Size - 1 /\ DOMAIN c.spectra = 0 .. Size - 1
  BY <1>1 DEF Written, Sound, Matched
<1>3. ASSUME NEW i \in 0 .. Size - 1
      PROVE  c.spectra[Mirror(i)] = c.blocks[i]
  <2>1. /\ Mirror(i) \in 0 .. Size - 1
        /\ Mirror(i) = b.sw <=> i = b.bw
    <3>1. b.bw \in 0 .. Size - 1 /\ b.sw = Mirror(b.bw)
      BY DEF Sound, Matched
    <3> QED
      BY <3>1, MirrorSteps
  <2>2. b.spectra[Mirror(i)] = b.blocks[i]
    BY DEF Sound, Matched
  <2>3. c.blocks[i] = IF i = b.bw THEN 0 ELSE Min({b.blocks[i] + 1, Size})
    BY <1>1 DEF Written, Sound, Matched
  <2>4. c.spectra[Mirror(i)] = IF Mirror(i) = b.sw THEN 0
                               ELSE Min({b.spectra[Mirror(i)] + 1, Size})
    BY <1>1, <2>1 DEF Written, Sound, Matched
  <2> QED
    BY <2>1, <2>2, <2>3, <2>4
<1> HIDE DEF c
<1>4. Sound(c)
  BY <1>1, <1>2, <1>3 DEF Sound, Matched
<1> QED
  BY <1>1, <1>4 DEF c

(* Insert(): an overrun is noticed before an unread block is lost. *)
LEMMA InsertSound ==
  ASSUME NEW b, Sound(b), NEW active
  PROVE  LET c == Insert(b, active)
         IN  /\ Sound(c) /\ c.bw = IncIndex(b.bw)
             /\ c.blocks = Written(b.blocks, c.bw)
             /\ InsertOverruns(b) => Fresh(c)
             /\ ~ InsertOverruns(b) =>
                  /\ Latency(c.lr, c.lw) = Latency(b.lr, b.lw) + 1
                  /\ c.br = b.br /\ c.br # c.bw
                  /\ c.delay = b.delay /\ SameWatch(b, c)
<1> DEFINE w == IncrementWriteIndices(b)
           a == DetectActiveRender(w, active)
           c == InsertBlock(a)
<1>1. /\ DOMAIN w = DOMAIN b /\ w.ext = b.ext /\ w.lr = b.lr
      /\ w.lw = OffsetIndex(LowRateSize, b.lw, -1)
      /\ w.br = b.br /\ w.sr = b.sr
      /\ w.bw = IncIndex(b.bw) /\ w.sw = DecIndex(b.sw)
      /\ w.blocks = b.blocks /\ w.spectra = b.spectra
      /\ w.delay = b.delay /\ SameWatch(b, w)
  BY DEF IncrementWriteIndices, Sound, Fields, SameWatch
<1>2. w.lw = IF b.lw = 0 THEN LowRateSize - 1 ELSE b.lw - 1
  BY <1>1, LowRateStep DEF Sound
<1>3. w.lw \in 0 .. LowRateSize - 1
  BY <1>2, Sizes DEF Sound
<1>4. w.bw \in 0 .. Size - 1 /\ w.sw = Mirror(w.bw)
  BY <1>1, MirrorSteps, ZenonT(30) DEF Sound, Matched
<1>5. InsertOverruns(b) = (w.lr = w.lw \/ w.br = w.bw)
  BY DEF InsertOverruns, RenderOverrun
<1>6. Insert(b, active) = IF InsertOverruns(b) THEN Reset(c) ELSE c
  BY DEF Insert
<1> HIDE DEF w
<1>7. Sound(w)
  BY <1>1, <1>3, <1>4 DEF Sound, Matched
<1>8. Alike(w, a) /\ a.delay = w.delay /\ SameWatch(w, a)
  BY <1>7 DEF Alike, SameWatch, DetectActiveRender, Sound, Fields
<1> HIDE DEF a
<1>9. Sound(a)
  BY <1>7, <1>8, AlikeSound
<1>10. /\ Sound(c) /\ c.lr = b.lr /\ c.lw = w.lw /\ c.br = b.br
       /\ c.bw = IncIndex(b.bw) /\ c.blocks = Written(b.blocks, c.bw)
       /\ c.delay = b.delay /\ SameWatch(b, c)
  BY <1>1, <1>8, <1>9, WrittenMatched DEF Alike, SameWatch
<1> HIDE DEF c
<1>11. CASE InsertOverruns(b)
  BY <1>6, <1>10, <1>11, ResetSound DEF Fresh, SameContents
<1>12. CASE ~ InsertOverruns(b)
  <2>1. Latency(b.lr, w.lw) = Latency(b.lr, b.lw) + 1
    <3>1. b.lr # w.lw
      BY <1>1, <1>5, <1>12, ZenonT(30)
    <3>2. b.lr \in 0 .. LowRateSize - 1 /\ b.lw \in 0 .. LowRateSize - 1
      BY DEF Sound
    <3> QED
      BY <1>2, <3>1, <3>2, Sizes DEF Latency
  <2>2. c.br # c.bw
    BY <1>1, <1>5, <1>10, <1>12, ZenonT(30)
  <2> QED
    BY <1>6, <1>10, <1>12, <2>1, <2>2
<1> QED
  BY <1>11, <1>12

(* A new block makes every other one a block older, and the slot it takes   *)
(* is the one that would be as old as the buffer is long.                   *)
LEMMA InsertAged ==
  ASSUME NEW b, Sound(b), Aged(b), NEW c, c.bw = IncIndex(b.bw),
         c.blocks = Written(b.blocks, c.bw)
  PROVE  Aged(c)
<1> USE Sizes
<1> SUFFICES ASSUME NEW i \in 0 .. Size - 1
             PROVE  c.blocks[i] \in {Behind(c.bw, i), Size}
  BY DEF Aged
<1>1. b.bw \in 0 .. Size - 1 /\ c.bw \in 0 .. Size - 1
  <2>1. b.bw \in 0 .. Size - 1
    BY DEF Sound, Matched
  <2> QED
    BY <2>1, MirrorSteps
<1>2. c.blocks[i] = IF i = c.bw THEN 0 ELSE Min({b.blocks[i] + 1, Size})
  <2>1. DOMAIN b.blocks = 0 .. Size - 1
    BY DEF Sound, Matched
  <2> QED
    BY <2>1 DEF Written
<1>3. b.blocks[i] \in {Behind(b.bw, i), Size}
  BY DEF Aged
<1>4. CASE i = c.bw
  BY <1>1, <1>2, <1>4 DEF Behind
<1>5. CASE i # c.bw
  <2>1. Behind(b.bw, i) \in Nat /\ Behind(c.bw, i) = Behind(b.bw, i) + 1
    BY <1>1, <1>5 DEF Behind, IncIndex
  <2>2. Behind(c.bw, i) < Size
    BY <1>1, <1>5 DEF Behind
  <2> DEFINE m == b.blocks[i] + 1
  <2>3. m \in Int /\ m \in {Behind(c.bw, i), Size + 1}
    BY <1>3, <2>1
  <2> HIDE DEF m
  <2>4. Min({m, Size}) = IF m <= Size THEN m ELSE Size
    BY <2>3, MinOfTwo
  <2>5. c.blocks[i] = Min({m, Size})
    BY <1>2, <1>5 DEF m
  <2> QED
    BY <2>1, <2>2, <2>3, <2>4, <2>5
<1> QED
  BY <1>4, <1>5

(* Each inserted block puts the read index one further behind. *)
LEMMA InsertOnTarget ==
  ASSUME NEW b, Sound(b), OnTarget(b), NEW active, ~ InsertOverruns(b)
  PROVE  OnTarget(Insert(b, active))
<1> DEFINE c == Insert(b, active)
<1>1. /\ c.bw = IncIndex(b.bw) /\ c.br = b.br /\ c.br # c.bw /\ c.delay = b.delay
      /\ Latency(c.lr, c.lw) = Latency(b.lr, b.lw) + 1
  BY InsertSound
<1> HIDE DEF c
<1>2. Behind(c.bw, c.br) = Behind(b.bw, b.br) + 1
  <2>1. b.bw \in 0 .. Size - 1 /\ b.br \in 0 .. Size - 1
    BY DEF Sound, Matched
  <2> QED
    BY <1>1, <2>1, Sizes DEF Behind, IncIndex
<1>3. Latency(b.lr, b.lw) \in Int
  BY Sizes DEF Latency, Sound
<1>4. OnTarget(c)
  BY <1>1, <1>2, <1>3 DEF OnTarget
<1> QED
  BY <1>4 DEF c

(* IncrementReadIndices() comes one block closer, up to the write index. *)
LEMMA IncrementReadSound ==
  ASSUME NEW b, Sound(b)
  PROVE  LET c == IncrementReadIndices(b)
         IN  /\ Sound(c) /\ c.lr = b.lr /\ c.lw = b.lw /\ c.delay = b.delay
             /\ SameContents(b, c) /\ SameWatch(b, c)
             /\ Behind(c.bw, c.br) = IF Behind(b.bw, b.br) = 0 THEN 0
                                     ELSE Behind(b.bw, b.br) - 1
<1> DEFINE c == [b EXCEPT !.br = IncIndex(@), !.sr = DecIndex(@)]
<1>1. /\ DOMAIN c = DOMAIN b /\ c.ext = b.ext /\ c.lr = b.lr /\ c.lw = b.lw
      /\ c.bw = b.bw /\ c.sw = b.sw
      /\ c.br = IncIndex(b.br) /\ c.sr = DecIndex(b.sr)
      /\ c.blocks = b.blocks /\ c.spectra = b.spectra
      /\ SameContents(b, c) /\ SameWatch(b, c) /\ c.delay = b.delay
  BY DEF Sound, Fields, SameContents, SameWatch
<1>2. c.br \in 0 .. Size - 1 /\ c.sr = Mirror(c.br)
  BY <1>1, MirrorSteps DEF Sound, Matched
<1>3. IncrementReadIndices(b) = IF b.br = b.bw THEN b ELSE c
  BY DEF IncrementReadIndices
<1> HIDE DEF c
<1>4. Sound(c)
  BY <1>1, <1>2 DEF Sound, Matched
<1>5. b.bw \in 0 .. Size - 1 /\ b.br \in 0 .. Size - 1
  BY DEF Sound, Matched
<1>6. CASE b.br = b.bw
  BY <1>3, <1>5, <1>6 DEF Behind, SameContents, SameWatch
<1>7. CASE b.br # b.bw
  <2>1. Behind(c.bw, c.br) = Behind(b.bw, b.br) - 1 /\ Behind(b.bw, b.br) # 0
    BY <1>1, <1>5, <1>7, Sizes DEF Behind, IncIndex
  <2> QED
    BY <1>1, <1>3, <1>4, <1>7, <2>1
<1> QED
  BY <1>6, <1>7

(* Underrun(): with no unread block, the delay shrinks with the distance.   *)
LEMMA UnderrunSound ==
  ASSUME NEW b, Sound(b), b.lr = b.lw
  PROVE  LET c == Underrun(b)
         IN  /\ Sound(c) /\ Latency(c.lr, c.lw) = 0
             /\ SameContents(b, c) /\ SameWatch(b, c)
             /\ OnTarget(b) => OnTarget(c)
<1> DEFINE r == IncrementReadIndices(b)
           c == Underrun(b)
<1>1. /\ Sound(r) /\ r.lr = b.lr /\ r.lw = b.lw /\ r.delay = b.delay
      /\ SameContents(b, r) /\ SameWatch(b, r)
      /\ Behind(r.bw, r.br) = IF Behind(b.bw, b.br) = 0 THEN 0
                              ELSE Behind(b.bw, b.br) - 1
  BY IncrementReadSound
<1>2. c = [r EXCEPT !.delay = IF @ # None /\ @ > 0 THEN @ - 1 ELSE @]
  BY DEF Underrun
<1> HIDE DEF r, c
<1>3. /\ Alike(r, c) /\ SameWatch(r, c)
      /\ c.delay = IF r.delay # None /\ r.delay > 0 THEN r.delay - 1 ELSE r.delay
  BY <1>1, <1>2 DEF Alike, SameWatch, Sound, Fields
<1>4. Latency(b.lr, b.lw) = 0
  BY DEF Latency, Sound
<1>5. Sound(c) /\ Latency(c.lr, c.lw) = 0
  BY <1>1, <1>3, <1>4, AlikeSound
<1>6. SameContents(b, c) /\ SameWatch(b, c)
  BY <1>1, <1>3 DEF Alike, SameContents, SameWatch
<1>7. ASSUME OnTarget(b) PROVE OnTarget(c)
  <2>1. CASE b.delay = None
    BY <1>1, <1>3, <2>1 DEF OnTarget
  <2>2. CASE b.delay # None
    <3>1. b.delay \in Nat /\ Behind(b.bw, b.br) = b.delay
      BY <1>4, <1>7, <2>2 DEF OnTarget
    <3>2. c.delay = IF b.delay > 0 THEN b.delay - 1 ELSE b.delay
      BY <1>1, <1>3, <2>2
    <3>3. Behind(c.bw, c.br) = c.delay /\ c.delay \in Nat
      BY <1>1, <1>3, <3>1, <3>2 DEF Alike
    <3> QED
      BY <1>5, <3>3 DEF OnTarget
  <2> QED
    BY <2>1, <2>2
<1> QED
  BY <1>5, <1>6, <1>7 DEF c

(* A block is read: latency and distance both go down by one.  The read     *)
(* index is not at the write index, since a block is unread.                *)
LEMMA ReadSound ==
  ASSUME NEW b, Sound(b), b.lr # b.lw
  PROVE  LET c == IncrementReadIndices(IncrementLowRateReadIndices(b))
         IN  /\ Sound(c) /\ Latency(c.lr, c.lw) = Latency(b.lr, b.lw) - 1
             /\ SameContents(b, c) /\ SameWatch(b, c)
             /\ OnTarget(b) => OnTarget(c)
<1> DEFINE l == IncrementLowRateReadIndices(b)
           c == IncrementReadIndices(l)
<1>1. /\ DOMAIN l = DOMAIN b /\ l.ext = b.ext /\ l.lw = b.lw
      /\ l.lr = OffsetIndex(LowRateSize, b.lr, -1)
      /\ l.bw = b.bw /\ l.br = b.br /\ l.sw = b.sw /\ l.sr = b.sr
      /\ l.blocks = b.blocks /\ l.spectra = b.spectra
      /\ SameContents(b, l) /\ SameWatch(b, l) /\ l.delay = b.delay
  BY DEF IncrementLowRateReadIndices, Sound, Fields, SameContents, SameWatch
<1>2. l.lr = IF b.lr = 0 THEN LowRateSize - 1 ELSE b.lr - 1
  BY <1>1, LowRateStep DEF Sound
<1> HIDE DEF l
<1>3. b.lr \in 0 .. LowRateSize - 1 /\ b.lw \in 0 .. LowRateSize - 1
  BY DEF Sound
<1>4. /\ l.lr \in 0 .. LowRateSize - 1
      /\ Latency(l.lr, l.lw) = Latency(b.lr, b.lw) - 1
      /\ Latency(b.lr, b.lw) \in Nat \ {0}
  BY <1>1, <1>2, <1>3, Sizes DEF Latency
<1>5. Sound(l)
  BY <1>1, <1>4 DEF Sound, Matched
<1>6. /\ Sound(c) /\ c.lr = l.lr /\ c.lw = l.lw /\ c.delay = l.delay
      /\ SameContents(l, c) /\ SameWatch(l, c)
      /\ Behind(c.bw, c.br) = IF Behind(l.bw, l.br) = 0 THEN 0
                              ELSE Behind(l.bw, l.br) - 1
  BY <1>5, IncrementReadSound
<1> HIDE DEF c
<1>7. SameContents(b, c) /\ SameWatch(b, c)
  BY <1>1, <1>6 DEF SameContents, SameWatch
<1>8. ASSUME OnTarget(b) PROVE OnTarget(c)
  <2> SUFFICES ASSUME b.delay # None
               PROVE  c.delay \in Nat /\ Behind(c.bw, c.br) = Latency(c.lr, c.lw) + c.delay
    BY <1>1, <1>6 DEF OnTarget
  <2>1. b.delay \in Nat /\ Behind(b.bw, b.br) = Latency(b.lr, b.lw) + b.delay
    BY <1>8 DEF OnTarget
  <2>2. Behind(c.bw, c.br) = Behind(b.bw, b.br) - 1
    BY <1>1, <1>4, <1>6, <2>1
  <2> QED
    BY <1>1, <1>4, <1>6, <2>1, <2>2
<1> QED
  BY <1>4, <1>6, <1>7, <1>8 DEF c, l

(* PrepareCaptureProcessing(), one case per event. *)
LEMMA PrepareSound ==
  ASSUME NEW b, Sound(b)
  PROVE  LET c == PrepareCaptureProcessing(b)
         IN  /\ Sound(c) /\ SameContents(b, c)
             /\ PrepareEvent(b) = "kRenderOverrun" => Fresh(c)
             /\ PrepareEvent(b) # "kRenderOverrun" =>
                  /\ Latency(c.lr, c.lw) = IF PrepareEvent(b) = "kRenderUnderrun"
                                             THEN 0 ELSE Latency(b.lr, b.lw) - 1
                  /\ SameWatch(AfterDetection(b), c)
                  /\ OnTarget(b) => OnTarget(c)
<1> DEFINE a == AfterDetection(b)
           e == IF PrepareEvent(b) = "kRenderOverrun" THEN Reset(a)
                ELSE IF PrepareEvent(b) = "kRenderUnderrun" THEN Underrun(a)
                ELSE IncrementReadIndices(IncrementLowRateReadIndices(a))
           c == ReportActivity(e)
<1>1. PrepareCaptureProcessing(b) = c
  BY DEF PrepareCaptureProcessing
<1>2. Alike(b, a) /\ a.delay = b.delay
  BY DEF Alike, AfterDetection, Sound, Fields
<1> HIDE DEF a
<1>3. Sound(a) /\ a.lr = b.lr /\ a.lw = b.lw /\ SameContents(b, a)
  BY <1>2, AlikeSound DEF Alike, SameContents
<1>4. OnTarget(b) => OnTarget(a)
  BY <1>2, SMTT(30) DEF OnTarget, Alike
<1>5. /\ Sound(e) /\ SameContents(b, e)
      /\ PrepareEvent(b) = "kRenderOverrun" => Fresh(e)
      /\ PrepareEvent(b) # "kRenderOverrun" =>
           /\ Latency(e.lr, e.lw) = IF PrepareEvent(b) = "kRenderUnderrun"
                                      THEN 0 ELSE Latency(b.lr, b.lw) - 1
           /\ SameWatch(a, e)
           /\ OnTarget(b) => OnTarget(e)
  <2>1. CASE PrepareEvent(b) = "kRenderOverrun"
    BY <1>3, <2>1, ResetSound, SMTT(30) DEF Fresh, SameContents
  <2>2. CASE PrepareEvent(b) = "kRenderUnderrun"
    <3>1. e = Underrun(a)
      BY <2>2, SMTT(30)
    <3>2. a.lr = a.lw
      BY <1>3, <2>2 DEF PrepareEvent, RenderUnderrun
    <3> HIDE DEF e
    <3> QED
      BY <1>3, <1>4, <2>2, <3>1, <3>2, UnderrunSound DEF SameContents
  <2>3. CASE PrepareEvent(b) \notin {"kRenderOverrun", "kRenderUnderrun"}
    <3>1. e = IncrementReadIndices(IncrementLowRateReadIndices(a))
      BY <2>3
    <3>2. a.lr # a.lw
      BY <1>3, <2>3 DEF PrepareEvent, RenderUnderrun
    <3> HIDE DEF e
    <3> QED
      BY <1>3, <1>4, <2>3, <3>1, <3>2, ReadSound DEF SameContents
  <2> QED
    BY <2>1, <2>2, <2>3
<1> HIDE DEF e
<1>6. Alike(e, c) /\ SameWatch(e, c) /\ c.delay = e.delay
  BY <1>5 DEF Alike, SameWatch, ReportActivity, Sound, Fields
<1> HIDE DEF c
<1>7. Sound(c) /\ Latency(c.lr, c.lw) = Latency(e.lr, e.lw)
  BY <1>5, <1>6, AlikeSound
<1>8. (OnTarget(e) => OnTarget(c)) /\ SameContents(b, c)
  BY <1>5, <1>6, <1>7 DEF OnTarget, SameContents, Alike
<1>9. PrepareEvent(b) = "kRenderOverrun" => Fresh(c)
  BY <1>5, <1>6, <1>7, <1>8 DEF Fresh, SameWatch
<1>10. SameWatch(a, e) => SameWatch(a, c)
  BY <1>6 DEF SameWatch
<1> QED
  BY <1>1, <1>5, <1>7, <1>8, <1>9, <1>10 DEF a

(* AlignFromDelay(): on target, unless it has to limit the delay. *)
LEMMA AlignSound ==
  ASSUME NEW b, Sound(b), NEW d \in Nat
  PROVE  LET c == AlignFromDelay(b, d)
         IN  /\ Sound(c) /\ Latency(c.lr, c.lw) = Latency(b.lr, b.lw)
             /\ SameContents(b, c) /\ SameWatch(b, c)
             /\ (IF b.delay = d THEN OnTarget(b) ELSE ~ Clamps(b, d)) => OnTarget(c)
<1> DEFINE a == [b EXCEPT !.delay = d]
           total == MapDelayToTotalDelay(b, d)
           n == LimitedDelay(total)
           m == Max({total, 0})
           c == ApplyTotalDelay(a, n)
<1>1. Alike(b, a) /\ SameWatch(b, a) /\ a.delay = d
  BY DEF Alike, SameWatch, Sound, Fields
<1>2. AlignFromDelay(b, d) = IF b.delay = d THEN b ELSE c
  BY DEF AlignFromDelay
<1>3. n = Min({MaxDelay, m})
  BY DEF LimitedDelay
<1> HIDE DEF a, n
<1>4. Sound(a) /\ a.lr = b.lr /\ a.lw = b.lw /\ SameContents(b, a)
  BY <1>1, AlikeSound DEF Alike, SameContents
<1>5. BufferLatency(b) = Latency(b.lr, b.lw) /\ Latency(b.lr, b.lw) \in Nat
  BY LatencyOf, Sizes DEF Latency, Sound
<1>6. total \in Nat /\ total = Latency(b.lr, b.lw) + d
  BY <1>5 DEF MapDelayToTotalDelay
<1>7. (~ Clamps(b, d)) <=> ~ (total > MaxDelay)
  BY DEF Clamps
<1> HIDE DEF total
<1>8. m = total
  BY <1>6, MaxOfTwo
<1> HIDE DEF m
<1>9. n = IF MaxDelay <= m THEN MaxDelay ELSE m
  BY <1>3, <1>6, <1>8, MinOfTwo, Sizes
<1>10. n \in 0 .. Size - 1
  BY <1>6, <1>8, <1>9, Sizes
<1>11. /\ Sound(c) /\ c.lr = a.lr /\ c.lw = a.lw
       /\ SameContents(a, c) /\ SameWatch(a, c) /\ c.delay = a.delay
       /\ Behind(c.bw, c.br) = n
  BY <1>4, <1>10, ApplySound
<1> HIDE DEF c
<1>12. ~ Clamps(b, d) => OnTarget(c)
  <2> SUFFICES ASSUME ~ Clamps(b, d) PROVE OnTarget(c)
    OBVIOUS
  <2>1. n = total
    BY <1>6, <1>7, <1>8, <1>9, Sizes
  <2> QED
    BY <1>1, <1>4, <1>6, <1>11, <2>1 DEF OnTarget
<1>13. CASE b.delay = d
  BY <1>2, <1>13 DEF SameContents, SameWatch
<1>14. CASE b.delay # d
  BY <1>1, <1>2, <1>4, <1>11, <1>12, <1>14 DEF SameContents, SameWatch
<1> QED
  BY <1>13, <1>14

-----------------------------------------------------------------------------
(* The detection of excess render data. *)

(* The excess has lasted for x capture blocks.  An excess that is older     *)
(* than the interval is in the minimum of the interval.                     *)
Watched(b, x) ==
  /\ x \in Nat /\ b.min_latency \in Nat
  /\ b.excess_counter \in 0 .. DetectionInterval - 1
  /\ x <= DetectionInterval + b.excess_counter
  /\ x > b.excess_counter => b.min_latency > MaxExcess

(* DetectExcessRenderBlocks() lets no excess get older than the previous    *)
(* interval.                                                                *)
LEMMA DetectionWatched ==
  ASSUME NEW b, Sound(b), NEW x, Watched(b, x), ~ ExcessRender(b)
  PROVE  LET a == AfterDetection(b)
         IN  /\ Watched(a, IF BufferLatency(b) > MaxExcess THEN x + 1 ELSE 0)
             /\ Watched(a, 0)
<1> DEFINE a == AfterDetection(b)
           y == BufferLatency(b)
           least == Min({b.min_latency, y})
<1>1. DetectionInterval \in Nat \ {0} /\ MaxExcess \in Nat
  BY BufferAssumption
<1>2. y \in Nat
  BY LatencyOf, Sizes DEF Latency, Sound
<1>3. IntervalEnds(b) <=> b.excess_counter + 1 >= DetectionInterval
  BY DEF IntervalEnds
<1>4. /\ a.min_latency = IF IntervalEnds(b) THEN y ELSE least
      /\ a.excess_counter = IF IntervalEnds(b) THEN 0 ELSE b.excess_counter + 1
  BY DEF AfterDetection, Sound, Fields
<1>5. ~ (IntervalEnds(b) /\ least > MaxExcess)
  BY DEF ExcessRender
<1> HIDE DEF a, y
<1>6. b.min_latency \in Nat
  BY DEF Watched
<1>7. least = IF b.min_latency <= y THEN b.min_latency ELSE y
  BY <1>2, <1>6, MinOfTwo
<1> HIDE DEF least
<1>8. Watched(a, IF y > MaxExcess THEN x + 1 ELSE 0) /\ Watched(a, 0)
  <2>1. CASE IntervalEnds(b)
    BY <1>1, <1>2, <1>3, <1>4, <1>5, <1>7, <2>1 DEF Watched
  <2>2. CASE ~ IntervalEnds(b)
    BY <1>1, <1>2, <1>3, <1>4, <1>7, <2>2 DEF Watched
  <2> QED
    BY <2>1, <2>2
<1> QED
  BY <1>8 DEF a, y

(* Watched depends on the members of the detection only. *)
LEMMA SameWatched ==
  ASSUME NEW b, NEW c, NEW x, Watched(b, x), SameWatch(b, c)
  PROVE  Watched(c, x)
  BY DEF Watched, SameWatch

(* After a reset there is no excess to watch. *)
LEMMA FreshWatched ==
  ASSUME NEW c, Fresh(c)
  PROVE  Watched(c, 0)
  BY BufferAssumption DEF Fresh, Watched

-----------------------------------------------------------------------------
(* The invariant of BlockProcessor. *)

IInv == /\ Sound(render_buffer) /\ Aged(render_buffer)
        /\ Latency(render_buffer.lr, render_buffer.lw) = unread
        /\ ~ clamped => OnTarget(render_buffer)
        /\ Watched(render_buffer, excess)
        /\ estimate \in Estimates \cup {None}

(* Aged depends on the contents only. *)
LEMMA SameAged ==
  ASSUME NEW b, NEW c, Aged(b), SameContents(b, c)
  PROVE  Aged(c)
  BY DEF Aged, SameContents

(* The constructor leaves empty buffers after a reset. *)
LEMMA InitInv == Init => IInv
<1> SUFFICES ASSUME Init PROVE IInv
  OBVIOUS
<1> DEFINE b == [bw |-> 0, br |-> 0, sw |-> 0, sr |-> 0, lw |-> 0, lr |-> 0,
                 blocks |-> [i \in 0 .. Size - 1 |-> Size],
                 spectra |-> [i \in 0 .. Size - 1 |-> Size],
                 delay |-> DefaultDelay, ext |-> None,
                 min_latency |-> 0, excess_counter |-> 0,
                 active_counter |-> 0, activity |-> FALSE]
<1>1. Matched(b) /\ Aged(b)
  <2>1. /\ b.bw = 0 /\ b.br = 0 /\ b.sw = 0 /\ b.sr = 0
        /\ b.blocks = [i \in 0 .. Size - 1 |-> Size]
        /\ b.spectra = [i \in 0 .. Size - 1 |-> Size]
    OBVIOUS
  <2> HIDE DEF b
  <2>2. \A i \in 0 .. Size - 1 : Mirror(i) \in 0 .. Size - 1
    BY Sizes DEF Mirror
  <2>3. 0 \in 0 .. Size - 1 /\ Mirror(0) = 0
    BY Sizes DEF Mirror
  <2>4. Matched(b)
    BY <2>1, <2>2, <2>3 DEF Matched
  <2>5. Aged(b)
    BY <2>1 DEF Aged
  <2> QED
    BY <2>4, <2>5
<1>2. Sound(b)
  <2>1. DOMAIN b = Fields
    BY DEF Fields
  <2>2. b.ext = None /\ b.lw = 0 /\ b.lr = 0
    OBVIOUS
  <2> HIDE DEF b
  <2>3. 0 \in 0 .. LowRateSize - 1
    BY Sizes
  <2> QED
    BY <1>1, <2>1, <2>2, <2>3 DEF Sound
<1>3. render_buffer = Reset(b)
  BY DEF Init, NewBuffer
<1> HIDE DEF b
<1>4. Fresh(render_buffer) /\ Aged(render_buffer)
  BY <1>1, <1>2, <1>3, ResetSound, SameAged
<1>5. Watched(render_buffer, 0)
  BY <1>4, FreshWatched
<1> QED
  BY <1>4, <1>5 DEF Fresh, Init, IInv

(* A render block. *)
LEMMA BufferRenderInv ==
  ASSUME IInv, BufferRender
  PROVE  IInv'
<1> DEFINE b == render_buffer
           overrun == InsertOverruns(render_buffer)
<1>1. PICK active \in BOOLEAN :
        /\ render_buffer' = Insert(b, active)
        /\ unread' = IF overrun THEN 1 ELSE unread + 1
        /\ clamped' = (clamped /\ ~ overrun)
        /\ excess' = IF overrun THEN 0 ELSE excess
        /\ estimate' = estimate
  BY SMTT(30) DEF BufferRender
<1> DEFINE c == Insert(b, active)
<1>2. /\ Sound(c) /\ c.bw = IncIndex(b.bw) /\ c.blocks = Written(b.blocks, c.bw)
      /\ overrun => Fresh(c)
      /\ ~ overrun => /\ Latency(c.lr, c.lw) = Latency(b.lr, b.lw) + 1
                      /\ SameWatch(b, c)
  BY InsertSound DEF IInv
<1>3. ~ overrun /\ ~ clamped => OnTarget(c)
  BY InsertOnTarget DEF IInv
<1> HIDE DEF c
<1>4. Aged(c)
  BY <1>2, InsertAged DEF IInv
<1>5. CASE overrun
  BY <1>1, <1>2, <1>4, <1>5, FreshWatched DEF Fresh, IInv, c
<1>6. CASE ~ overrun
  <2>1. Watched(c, excess)
    BY <1>2, <1>6, SameWatched DEF IInv
  <2> QED
    BY <1>1, <1>2, <1>3, <1>4, <1>6, <2>1, ZenonT(30) DEF IInv, c
<1> QED
  BY <1>5, <1>6

(* A capture block: the reset at the start of the capture stream, the       *)
(* preparation, and the alignment with the estimate, if there is one.       *)
LEMMA ProcessCaptureInv ==
  ASSUME IInv, ProcessCapture
  PROVE  IInv'
<1> DEFINE first == ~ capture_started
           b == IF first THEN Reset(render_buffer) ELSE render_buffer
           event == PrepareEvent(b)
           p == PrepareCaptureProcessing(b)
           x == IF first THEN 0 ELSE excess
<1>1. PICK d \in Estimates \cup {KnownEstimate(event, first)} :
        /\ estimate' = d
        /\ render_buffer' = Aligned(p, d)
        /\ clamped' = IF d # None /\ d # p.delay THEN Clamps(p, d)
                      ELSE clamped /\ ~ first /\ event # "kRenderOverrun"
  BY ZenonT(30) DEF ProcessCapture, Prepared
<1>2. /\ unread' = IF event = "kRenderOverrun" THEN 1
                   ELSE IF event = "kRenderUnderrun" THEN 0
                   ELSE IF first THEN 0 ELSE unread - 1
      /\ excess' = IF first \/ event = "kRenderOverrun" THEN 0
                   ELSE IF BufferLatency(b) > MaxExcess THEN excess + 1 ELSE 0
  BY DEF ProcessCapture
<1>3. /\ Sound(b) /\ Aged(b) /\ Watched(b, x)
      /\ Latency(b.lr, b.lw) = IF first THEN 1 ELSE unread
      /\ ~ (clamped /\ ~ first) => OnTarget(b)
  <2>1. CASE first
    BY <2>1, ResetSound, SameAged, FreshWatched DEF IInv, Fresh
  <2>2. CASE ~ first
    BY <2>2 DEF IInv
  <2> QED
    BY <2>1, <2>2
<1> HIDE DEF b
<1>4. /\ Sound(p) /\ SameContents(b, p)
      /\ event = "kRenderOverrun" => Fresh(p)
      /\ event # "kRenderOverrun" =>
           /\ Latency(p.lr, p.lw) = IF event = "kRenderUnderrun"
                                      THEN 0 ELSE Latency(b.lr, b.lw) - 1
           /\ SameWatch(AfterDetection(b), p)
           /\ OnTarget(b) => OnTarget(p)
  BY <1>3, PrepareSound
<1>5. event # "kRenderOverrun" => ~ ExcessRender(b)
  BY DEF PrepareEvent
<1>6. d \in Estimates \cup {None}
  BY DEF KnownEstimate, IInv
<1> HIDE DEF event, p, first
<1>7. Latency(p.lr, p.lw) = unread'
  BY <1>2, <1>3, <1>4 DEF Fresh
<1>8. Watched(p, excess')
  <2>1. CASE event = "kRenderOverrun"
    BY <1>2, <1>4, <2>1, FreshWatched
  <2>2. CASE event # "kRenderOverrun"
    <3>1. /\ Watched(AfterDetection(b), IF BufferLatency(b) > MaxExcess THEN x + 1 ELSE 0)
          /\ Watched(AfterDetection(b), 0)
      <4> HIDE DEF x
      <4> QED
        BY <1>3, <1>5, <2>2, DetectionWatched
    <3>2. Watched(AfterDetection(b), excess')
      BY <1>2, <2>2, <3>1
    <3> QED
      BY <1>4, <2>2, <3>2, SameWatched
  <2> QED
    BY <2>1, <2>2
<1>9. ~ (clamped /\ ~ first /\ event # "kRenderOverrun") => OnTarget(p)
  BY <1>3, <1>4, SMTT(30) DEF Fresh
<1> DEFINE c == Aligned(p, d)
<1>10. /\ Sound(c) /\ Latency(c.lr, c.lw) = Latency(p.lr, p.lw)
       /\ SameContents(p, c) /\ SameWatch(p, c)
       /\ ~ clamped' => OnTarget(c)
  <2>1. CASE d = None
    <3>1. c = p
      BY <2>1 DEF Aligned
    <3> QED
      BY <1>1, <1>4, <1>9, <2>1, <3>1, ZenonT(30) DEF SameContents, SameWatch
  <2>2. CASE d # None
    <3>1. c = AlignFromDelay(p, d) /\ d \in Nat
      BY <1>6, <2>2, EstimatesAssumption DEF Aligned
    <3> HIDE DEF c
    <3> QED
      BY <1>1, <1>4, <1>9, <2>2, <3>1, AlignSound, ZenonT(30)
  <2> QED
    BY <2>1, <2>2, SMTT(30)
<1> HIDE DEF c
<1>11. Aged(c)
  BY <1>3, <1>4, <1>10, SameAged DEF SameContents
<1>12. Watched(c, excess')
  BY <1>8, <1>10, SameWatched
<1> QED
  BY <1>1, <1>6, <1>7, <1>10, <1>11, <1>12 DEF IInv, c

(* A reported delay has no effect before the next reset. *)
LEMMA SetDelayInv ==
  ASSUME IInv, SetDelay
  PROVE  IInv'
<1>1. PICK ms \in DelaysMs :
        /\ render_buffer' = SetAudioBufferDelay(render_buffer, ms)
        /\ UNCHANGED <<estimate, unread, clamped, excess>>
  BY DEF SetDelay
<1> DEFINE b == render_buffer
           c == SetAudioBufferDelay(b, ms)
<1>2. ms \div 4 \in Nat
  BY EstimatesAssumption
<1>3. /\ DOMAIN c = DOMAIN b /\ c.ext = ms \div 4
      /\ c.lr = b.lr /\ c.lw = b.lw
      /\ c.bw = b.bw /\ c.br = b.br /\ c.sw = b.sw /\ c.sr = b.sr
      /\ c.blocks = b.blocks /\ c.spectra = b.spectra
      /\ c.delay = b.delay /\ SameContents(b, c) /\ SameWatch(b, c)
  BY SMTT(30) DEF SetAudioBufferDelay, IInv, Sound, Fields, SameContents, SameWatch
<1> HIDE DEF c
<1>4. Sound(c)
  BY <1>2, <1>3 DEF IInv, Sound, Matched
<1>5. Aged(c) /\ Watched(c, excess)
  BY <1>3, SameAged, SameWatched, SMTT(30) DEF IInv
<1>6. ~ clamped => OnTarget(c)
  BY <1>3 DEF IInv, OnTarget
<1> QED
  BY <1>1, <1>3, <1>4, <1>5, <1>6 DEF IInv, c

(* No step disturbs the invariant. *)
LEMMA StepInv == IInv /\ [Next]_vars => IInv'
<1>1. IInv /\ (CaptureTooEarly \/ UNCHANGED vars) => IInv'
  BY DEF IInv, CaptureTooEarly, vars
<1> QED
  BY <1>1, BufferRenderInv, ProcessCaptureInv, SetDelayInv DEF Next

-----------------------------------------------------------------------------
(* BufferLatency() is the number of blocks inserted and not yet read,       *)
(* whatever the order of calls, overruns and underruns.                     *)
THEOREM LatencyIsExact == Spec => []LatencyIsUnread
<1>1. IInv => LatencyIsUnread
  BY LatencyOf DEF IInv, Sound, LatencyIsUnread
<1> QED
  BY <1>1, InitInv, StepInv, PTL DEF Spec

(* The mirror at any distance from the read indices. *)
LEMMA MatchedEverywhere ==
  ASSUME NEW b, Sound(b), NEW i \in 0 .. Size - 1
  PROVE  b.spectra[OffsetIndex(Size, b.sr, i)]
           = b.blocks[OffsetIndex(Size, b.br, - i)]
<1> USE Sizes
<1>1. b.br \in 0 .. Size - 1 /\ b.sr = Mirror(b.br) /\ b.sr \in 0 .. Size - 1
  <2>1. b.br \in 0 .. Size - 1 /\ b.sr = Mirror(b.br)
    BY DEF Sound, Matched
  <2>2. Mirror(b.br) \in 0 .. Size - 1
    BY <2>1 DEF Mirror
  <2> QED
    BY <2>1, <2>2
<1>2. i \in (0 - Size) .. Size /\ - i \in (0 - Size) .. Size
  OBVIOUS
<1>3. OffsetIndex(Size, b.sr, i) = IF b.sr + i < 0 THEN Size + b.sr + i
               ELSE IF b.sr + i < Size THEN b.sr + i ELSE b.sr + i - Size
  BY <1>1, <1>2, Offset
<1>4. OffsetIndex(Size, b.br, - i) = IF b.br + (- i) < 0 THEN Size + b.br + (- i)
               ELSE IF b.br + (- i) < Size THEN b.br + (- i)
               ELSE b.br + (- i) - Size
  BY <1>1, <1>2, Offset
<1> DEFINE j == OffsetIndex(Size, b.br, - i)
<1>5. j \in 0 .. Size - 1 /\ OffsetIndex(Size, b.sr, i) = Mirror(j)
  BY <1>1, <1>3, <1>4, SMTT(30) DEF Mirror
<1> HIDE DEF j
<1> QED
  BY <1>5, SMTT(30) DEF Sound, Matched, j

(* The echo remover finds the spectra of the very blocks it finds, though   *)
(* blocks_ and spectra_ run in opposite directions.                         *)
THEOREM SpectraBelongToBlocks == Spec => []SpectraMatchBlocks
<1>1. IInv => SpectraMatchBlocks
  BY MatchedEverywhere DEF IInv, SpectraMatchBlocks
<1> QED
  BY <1>1, InitInv, StepInv, PTL DEF Spec

(* The echo remover starts from the block that delay_ asks for, unless      *)
(* AlignFromDelay() had to limit the delay.                                 *)
THEOREM AlignedBlockIsRead == Spec => []ReadsAlignedBlock
<1>1. IInv => ReadsAlignedBlock
  <2> SUFFICES ASSUME IInv, render_buffer.delay # None, ~ clamped
               PROVE  render_buffer.blocks[render_buffer.br]
                        \in {unread + render_buffer.delay, Size}
    BY DEF ReadsAlignedBlock
  <2>1. Behind(render_buffer.bw, render_buffer.br) = unread + render_buffer.delay
    BY DEF IInv, OnTarget
  <2> QED
    BY <2>1 DEF IInv, Aged, Sound, Matched
<1> QED
  BY <1>1, InitInv, StepInv, PTL DEF Spec

(* An excess of render data is found within two detection intervals.        *)
THEOREM ExcessIsFound == Spec => []ExcessIsBounded
<1>1. IInv => ExcessIsBounded
  BY BufferAssumption DEF IInv, Watched, ExcessIsBounded
<1> QED
  BY <1>1, InitInv, StepInv, PTL DEF Spec
===============================================================================
