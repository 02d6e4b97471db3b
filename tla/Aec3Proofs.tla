------------------------------ MODULE Aec3Proofs ------------------------------
(***************************************************************************)
(* The framing of AEC3 (module EchoCanceller3), for any number of frames   *)
(* and every size of the transfer queue.                                   *)
(*                                                                         *)
(* Neither property is inductive: a block lies across two sub-frames, a    *)
(* sub-frame across two blocks.  The invariant says what waits in the      *)
(* blockers and in the framer.  On the capture side blocker and framer     *)
(* together always hold one block, which is the delay; on the render side  *)
(* the blocker has what is left over when the frames are cut into blocks.  *)
(***************************************************************************)
EXTENDS MCAec3, SequenceTheorems, TLAPS

(* The n chunks of a stream from number c on; before the first is silence. *)
Delayed(c, n) == [i \in 1 .. n |-> IF c + i - 1 > 0 THEN c + i - 1 ELSE 0]

(* The frames that EmptyRenderQueue() has taken out of the queue. *)
Taken == accepted - Len(queue)

(* What does not fill a block when n frames are cut. *)
LeftOver(n) == 2 * (n % 2)

(* The queue has the last frames that it accepted. *)
Transfer ==
  /\ queue \in Seq(Seq(Nat))
  /\ accepted \in Nat
  /\ Len(queue) <= accepted
  /\ \A i \in 1 .. Len(queue) : queue[i] = Delayed(10 * (Taken + i) - 9, 10)

(* The render stream up to the frames taken out. *)
Render ==
  /\ buffered \in Nat
  /\ 4 * buffered = 10 * Taken - LeftOver(Taken)
  /\ render_blocker = Delayed(4 * buffered + 1, LeftOver(Taken))
  /\ buffered > 0 => render_block = Delayed(4 * buffered - 3, 4)

(* No later frame is processed before those handed over at the call. *)
InTime ==
  /\ seen \in Nat
  /\ pc \in {"idle", "empty", "sub_frame_0", "sub_frame_1", "remaining"}
  /\ seen <= accepted
  /\ pc \in {"sub_frame_0", "sub_frame_1", "remaining"} => seen <= Taken

(* The sub-frames of the current frame that are processed. *)
SubFrames == IF pc \in {"empty", "sub_frame_0"} THEN 0
             ELSE IF pc = "sub_frame_1" THEN 1 ELSE 2

(* The chunks that capture_blocker_ has taken in, and those still in it. *)
TakenIn == IF pc = "idle" THEN 10 * captured
           ELSE 10 * (captured - 1) + 5 * SubFrames
Waiting == IF pc = "idle" THEN LeftOver(captured)
           ELSE LeftOver(captured - 1) + SubFrames

(* Blocker and framer have together one block, the frame is what came in   *)
(* or, as far as it is processed, what came in one block earlier.          *)
Capture ==
  /\ captured \in Nat
  /\ pc # "idle" => captured > 0
  /\ capture_blocker = Delayed(TakenIn - Waiting + 1, Waiting)
  /\ output_framer = Delayed(TakenIn - 3, 4 - Waiting)
  /\ pc \in {"empty", "sub_frame_0"} => capture = Delayed(10 * captured - 9, 10)
  /\ pc = "sub_frame_1" =>
       capture = Delayed(10 * captured - 13, 5) \o Delayed(10 * captured - 4, 5)
  /\ pc \in {"idle", "remaining"} /\ captured > 0 =>
       capture = Delayed(10 * captured - 13, 10)

FramingInv == Transfer /\ Render /\ InTime /\ Capture

-----------------------------------------------------------------------------
(* Stretches of a stream. *)

(* The operators on sequences under names that a proof need not look into. *)
Part(s, a, b) == SubSeq(s, a, b)
Then(s, t) == s \o t

(* A stretch is a sequence of n chunk numbers.                             *)
LEMMA DelayedType ==
  ASSUME NEW c \in Int, NEW n \in Nat
  PROVE  /\ Delayed(c, n) \in Seq(Nat)
         /\ Len(Delayed(c, n)) = n
         /\ \A i \in 1 .. n : Delayed(c, n)[i] = IF c + i - 1 > 0 THEN c + i - 1 ELSE 0
  BY DEF Delayed

(* Past the start of the stream there is no silence in it.                 *)
LEMMA ChunksAreDelayed ==
  ASSUME NEW c \in Int, c > 0, NEW n \in Nat
  PROVE  F!Chunks(c, n) = Delayed(c, n)
  BY DEF F!Chunks, Delayed

(* The frame that comes in as number n.                                    *)
LEMMA FrameIsDelayed ==
  ASSUME NEW n \in Nat, n > 0
  PROVE  F!FrameNumber(n) = Delayed(10 * n - 9, 10)
  BY ChunksAreDelayed DEF F!FrameNumber, F!Frame, F!SubFrame

(* A stretch and the one that follows it.                                  *)
LEMMA Joined ==
  ASSUME NEW c \in Int, NEW n \in Nat, NEW m \in Nat,
         NEW d \in Int, d = c + n, NEW k \in Nat, k = n + m
  PROVE  Then(Delayed(c, n), Delayed(d, m)) = Delayed(c, k)
<1> DEFINE s == Delayed(c, n)
           t == Delayed(c + n, m)
           u == Delayed(c, n + m)
           w == s \o t
<1>1. /\ s \in Seq(Nat) /\ Len(s) = n
      /\ \A i \in 1 .. n : s[i] = IF c + i - 1 > 0 THEN c + i - 1 ELSE 0
  BY DelayedType
<1>2. /\ t \in Seq(Nat) /\ Len(t) = m
      /\ \A i \in 1 .. m : t[i] = IF c + n + i - 1 > 0 THEN c + n + i - 1 ELSE 0
  BY DelayedType
<1>3. /\ u \in Seq(Nat) /\ Len(u) = n + m
      /\ \A i \in 1 .. n + m : u[i] = IF c + i - 1 > 0 THEN c + i - 1 ELSE 0
  BY DelayedType
<1> HIDE DEF s, t, u
<1>4. /\ w \in Seq(Nat)
      /\ Len(w) = Len(s) + Len(t)
      /\ \A i \in 1 .. Len(s) + Len(t) :
           w[i] = IF i <= Len(s) THEN s[i] ELSE t[i - Len(s)]
  <2>1. s \in Seq(Nat) /\ t \in Seq(Nat)
    BY <1>1, <1>2
  <2> QED
    BY <2>1, ConcatProperties, Zenon
<1> HIDE DEF w
<1>5. ASSUME NEW i \in 1 .. n + m
      PROVE  w[i] = u[i]
  <2>1. CASE i <= n
    <3>1. i \in 1 .. n
      BY <2>1
    <3>2. w[i] = s[i]
      BY <1>1, <1>2, <1>4, <2>1
    <3> QED
      BY <1>1, <1>3, <3>1, <3>2, Zenon
  <2>2. CASE i > n
    <3>1. i - n \in 1 .. m
      BY <2>2
    <3>2. t[i - n] = IF c + i - 1 > 0 THEN c + i - 1 ELSE 0
      BY <1>2, <3>1
    <3>3. i \in 1 .. Len(s) + Len(t) /\ ~ (i <= Len(s)) /\ i - Len(s) = i - n
      BY <1>1, <1>2, <2>2
    <3>4. w[i] = t[i - n]
      BY <1>4, <3>3, Zenon
    <3> QED
      BY <1>3, <3>2, <3>4, Zenon
  <2> QED
    BY <2>1, <2>2
<1>6. w = u
  BY <1>1, <1>2, <1>3, <1>4, <1>5, SeqEqual
<1> QED
  BY <1>6, Zenon DEF s, t, u, w, Then

(* A part of a stretch.                                                    *)
LEMMA Cut ==
  ASSUME NEW c \in Int, NEW n \in Nat,
         NEW a \in Nat, NEW b \in Nat, 1 <= a, a <= b + 1, b <= n,
         NEW d \in Int, d = c + a - 1, NEW k \in Nat, k = b - a + 1
  PROVE  Part(Delayed(c, n), a, b) = Delayed(d, k)
<1> DEFINE s == Delayed(c, n)
           u == Delayed(c + a - 1, b - a + 1)
           w == SubSeq(s, a, b)
<1>1. /\ s \in Seq(Nat) /\ Len(s) = n
      /\ \A i \in 1 .. n : s[i] = IF c + i - 1 > 0 THEN c + i - 1 ELSE 0
  BY DelayedType
<1>2. /\ u \in Seq(Nat) /\ Len(u) = b - a + 1
      /\ \A i \in 1 .. b - a + 1 :
           u[i] = IF c + a - 1 + i - 1 > 0 THEN c + a - 1 + i - 1 ELSE 0
  <2>1. c + a - 1 \in Int /\ b - a + 1 \in Nat
    OBVIOUS
  <2> QED
    BY <2>1, DelayedType, Zenon
<1> HIDE DEF s, u
<1>3. \A i \in a .. b : s[i] \in Nat
  BY <1>1
<1>4. /\ w \in Seq(Nat)
      /\ Len(w) = b - a + 1
      /\ \A i \in 1 .. b - a + 1 : w[i] = s[a + i - 1]
  BY <1>3, SubSeqProperties
<1> HIDE DEF w
<1>5. ASSUME NEW i \in 1 .. b - a + 1
      PROVE  w[i] = u[i]
  <2>1. a + i - 1 \in 1 .. n /\ c + (a + i - 1) - 1 = c + a - 1 + i - 1
    OBVIOUS
  <2>2. s[a + i - 1] = u[i]
    BY <1>1, <1>2, <2>1, Zenon
  <2> QED
    BY <1>4, <2>2, Zenon
<1>6. w = u
  BY <1>2, <1>4, <1>5, SeqEqual
<1> QED
  BY <1>6, Zenon DEF s, u, w, Part

(* No chunks.                                                              *)
LEMMA NoChunks ==
  ASSUME NEW c \in Int
  PROVE  Delayed(c, 0) = <<>>
  BY DEF Delayed

(* The two sub-frames of a frame: neither needs to follow the other.       *)
LEMMA SubFramesOf ==
  ASSUME NEW c \in Int, NEW d \in Int
  PROVE  /\ F!SubFrameOf(Delayed(c, 10), 0) = Delayed(c, 5)
         /\ F!SubFrameOf(Delayed(c, 10), 1) = Delayed(c + 5, 5)
         /\ F!SubFrameOf(Delayed(c, 5) \o Delayed(d, 5), 0) = Delayed(c, 5)
         /\ F!SubFrameOf(Delayed(c, 5) \o Delayed(d, 5), 1) = Delayed(d, 5)
<1> DEFINE s == Delayed(c, 5)
           t == Delayed(d, 5)
           w == s \o t
<1>1. s \in Seq(Nat) /\ t \in Seq(Nat) /\ Len(s) = 5 /\ Len(t) = 5
  BY DelayedType, Zenon
<1>2. Part(Delayed(c, 10), 1, 5) = Delayed(c, 5)
  BY Cut
<1>3. Part(Delayed(c, 10), 6, 10) = Delayed(c + 5, 5)
  BY Cut
<1> HIDE DEF s, t
<1>4. /\ w \in Seq(Nat)
      /\ Len(w) = Len(s) + Len(t)
      /\ \A i \in 1 .. Len(s) + Len(t) :
           w[i] = IF i <= Len(s) THEN s[i] ELSE t[i - Len(s)]
  BY <1>1, ConcatProperties, ZenonT(30)
<1> HIDE DEF w
<1>5. ASSUME NEW a \in {1, 6}, NEW x \in Seq(Nat), Len(x) = 5,
             \A i \in 1 .. 5 : w[a + i - 1] = x[i]
      PROVE  SubSeq(w, a, a + 4) = x
  <2> DEFINE v == SubSeq(w, a, a + 4)
  <2>1. \A i \in a .. a + 4 : w[i] \in Nat
    <3>1. \A i \in 1 .. 10 : w[i] \in Nat
      <4>1. Len(w) = 10
        BY <1>1, <1>4
      <4> QED
        BY <1>4, <4>1, ElementOfSeq, Zenon
    <3>2. a .. a + 4 \subseteq 1 .. 10
      OBVIOUS
    <3> QED
      BY <3>1, <3>2, Zenon
  <2>2. /\ v \in Seq(Nat)
        /\ Len(v) = a + 4 - a + 1
        /\ \A i \in 1 .. a + 4 - a + 1 : v[i] = w[a + i - 1]
    BY <2>1, SubSeqProperties
  <2> HIDE DEF v
  <2>3. Len(v) = 5 /\ \A i \in 1 .. 5 : v[i] = w[a + i - 1]
    BY <2>2, SMTT(30)
  <2>4. Len(v) = Len(x) /\ \A i \in 1 .. Len(v) : v[i] = x[i]
    BY <1>5, <2>3, Zenon
  <2>5. v = x
    BY <2>2, <2>4, SeqEqual, Zenon
  <2> QED
    BY <2>5 DEF v
<1>6. \A i \in 1 .. 5 : w[1 + i - 1] = s[i]
  BY <1>1, <1>4
<1>7. \A i \in 1 .. 5 : w[6 + i - 1] = t[i]
  BY <1>1, <1>4, SMTT(30)
<1>8. SubSeq(w, 1, 5) = s /\ SubSeq(w, 6, 10) = t
  BY <1>1, <1>5, <1>6, <1>7, SMTT(30)
<1>9. \A x : /\ F!SubFrameOf(x, 0) = SubSeq(x, 1, 5)
             /\ F!SubFrameOf(x, 1) = SubSeq(x, 6, 10)
  BY DEF F!SubFrameOf, F!SubFrame
<1> QED
  BY <1>2, <1>3, <1>8, <1>9, Zenon DEF s, t, w, Part

(* FrameBlocker: the block has what waited and the start of the sub-frame, *)
(* the rest of the sub-frame waits.                                        *)
LEMMA Blocking ==
  ASSUME NEW c \in Int, NEW n \in 0 .. 4
  PROVE  /\ F!BlockFrom(Delayed(c, n), Delayed(c + n, 5)) = Delayed(c, 4)
         /\ F!RestOf(Delayed(c, n), Delayed(c + n, 5)) = Delayed(c + 4, n + 1)
<1>1. Len(Delayed(c, n)) = n
  BY DelayedType
<1>2. Part(Delayed(c + n, 5), 1, 4 - n) = Delayed(c + n, 4 - n)
  BY Cut, SMTT(30)
<1>3. Then(Delayed(c, n), Delayed(c + n, 4 - n)) = Delayed(c, 4)
  <2> DEFINE m == 4 - n
             d == c + n
  <2>1. /\ n \in Nat /\ m \in Nat /\ 4 \in Nat /\ 4 = n + m
        /\ d \in Int /\ d = c + n
    OBVIOUS
  <2> HIDE DEF m, d
  <2>2. Then(Delayed(c, n), Delayed(d, m)) = Delayed(c, 4)
    BY <2>1, Joined
  <2> QED
    BY <2>2 DEF m, d
<1>4. Part(Delayed(c + n, 5), 4 - n + 1, 5) = Delayed(c + 4, n + 1)
  <2>1. /\ 4 - n + 1 \in Nat /\ n + 1 \in Nat /\ c + n \in Int /\ c + 4 \in Int
        /\ c + 4 = (c + n) + (4 - n + 1) - 1 /\ n + 1 = 5 - (4 - n + 1) + 1
    OBVIOUS
  <2> QED
    BY <2>1, Cut
<1> QED
  BY <1>1, <1>2, <1>3, <1>4, Zenon
  DEF F!BlockFrom, F!RestOf, F!Block, F!SubFrame, Part, Then

(* BlockFramer: the sub-frame has what waited and the start of the block,  *)
(* the rest of the block waits.                                            *)
LEMMA Framing ==
  ASSUME NEW c \in Int, NEW n \in 1 .. 4
  PROVE  /\ F!SubFrameFrom(Delayed(c, n), Delayed(c + n, 4)) = Delayed(c, 5)
         /\ F!Left(Delayed(c, n), Delayed(c + n, 4)) = Delayed(c + 5, n - 1)
<1>1. Len(Delayed(c, n)) = n
  BY DelayedType
<1>2. Part(Delayed(c + n, 4), 1, 5 - n) = Delayed(c + n, 5 - n)
  BY Cut, SMTT(30)
<1>3. Then(Delayed(c, n), Delayed(c + n, 5 - n)) = Delayed(c, 5)
  <2> DEFINE m == 5 - n
             d == c + n
  <2>1. /\ n \in Nat /\ m \in Nat /\ 5 \in Nat /\ 5 = n + m
        /\ d \in Int /\ d = c + n
    OBVIOUS
  <2> HIDE DEF m, d
  <2>2. Then(Delayed(c, n), Delayed(d, m)) = Delayed(c, 5)
    BY <2>1, Joined
  <2> QED
    BY <2>2 DEF m, d
<1>4. Part(Delayed(c + n, 4), 5 - n + 1, 4) = Delayed(c + 5, n - 1)
  <2>1. /\ 5 - n + 1 \in Nat /\ n - 1 \in Nat /\ c + n \in Int /\ c + 5 \in Int
        /\ c + 5 = (c + n) + (5 - n + 1) - 1 /\ n - 1 = 4 - (5 - n + 1) + 1
    OBVIOUS
  <2> QED
    BY <2>1, Cut
<1> QED
  BY <1>1, <1>2, <1>3, <1>4, Zenon
  DEF F!SubFrameFrom, F!Left, F!Block, F!SubFrame, Part, Then

-----------------------------------------------------------------------------
(* The steps on the buffers. *)

(* Two frames fill five blocks.                                            *)
LEMMA LeftOverCases ==
  /\ LeftOver(0) = 0
  /\ \A n \in Nat : /\ LeftOver(n) \in {0, 2}
                    /\ LeftOver(n + 1) = 2 - LeftOver(n)
  BY DEF LeftOver

(* The blocks of one more frame.                                           *)
LEMMA RenderCount ==
  ASSUME NEW t \in Nat, NEW b \in Nat, NEW k \in {0, 2}, 4 * b = 10 * t - k
  PROVE  LET m == IF k = 0 THEN 2 ELSE 3
         IN /\ 4 * b + 1 + 4 * m = 4 * (b + m) + 1
            /\ 4 * b + 1 + 4 * m - 4 = 4 * (b + m) - 3
            /\ 4 * (b + m) = 10 * (t + 1) - (2 - k)
  OBVIOUS

(* BufferRenderFrameContent(): one sub-frame, one block.                   *)
LEMMA RenderSubFrame ==
  ASSUME NEW c \in Int, NEW n \in 0 .. 4, NEW b, NEW N
  PROVE  F!AfterSubFrame([blocker |-> Delayed(c, n), block |-> b, n |-> N],
                         Delayed(c + n, 5))
           = [blocker |-> Delayed(c + 4, n + 1), block |-> Delayed(c, 4),
              n |-> N + 1]
  BY Blocking DEF F!AfterSubFrame

(* A render frame becomes two blocks, or three with what was left over.    *)
LEMMA RenderFrame ==
  ASSUME NEW c \in Int, NEW k \in {0, 2}, NEW b, NEW N \in Nat
  PROVE  LET r == F!AfterFrame([blocker |-> Delayed(c, k), block |-> b, n |-> N],
                               Delayed(c + k, 10))
             m == IF k = 0 THEN 2 ELSE 3
         IN r = [blocker |-> Delayed(c + 4 * m, 2 - k),
                 block |-> Delayed(c + 4 * m - 4, 4), n |-> N + m]
<1> DEFINE m == IF k = 0 THEN 2 ELSE 3
           f == Delayed(c + k, 10)
           r0 == [blocker |-> Delayed(c, k), block |-> b, n |-> N]
           r1 == [blocker |-> Delayed(c + 4, k + 1), block |-> Delayed(c, 4),
                  n |-> N + 1]
           r2 == [blocker |-> Delayed(c + 8, k + 2), block |-> Delayed(c + 4, 4),
                  n |-> N + 2]
           r3 == [blocker |-> Delayed(c + 4 * m, 2 - k),
                  block |-> Delayed(c + 4 * m - 4, 4), n |-> N + m]
<1>1. /\ F!SubFrameOf(f, 0) = Delayed(c + k, 5)
      /\ F!SubFrameOf(f, 1) = Delayed(c + k + 5, 5)
  <2>1. c + k \in Int
    OBVIOUS
  <2> QED
    BY <2>1, SubFramesOf
<1>2. F!AfterSubFrame(r0, F!SubFrameOf(f, 0)) = r1
  <2>1. k \in 0 .. 4
    OBVIOUS
  <2> QED
    BY <1>1, <2>1, RenderSubFrame
<1>3. F!AfterSubFrame(r1, F!SubFrameOf(f, 1)) = r2
  <2>1. /\ k + 1 \in 0 .. 4 /\ c + 4 \in Int
        /\ (c + 4) + (k + 1) = c + k + 5 /\ (c + 4) + 4 = c + 8
        /\ (k + 1) + 1 = k + 2 /\ (N + 1) + 1 = N + 2
    OBVIOUS
  <2>2. F!AfterSubFrame(r1, Delayed((c + 4) + (k + 1), 5))
          = [blocker |-> Delayed((c + 4) + 4, (k + 1) + 1),
             block |-> Delayed(c + 4, 4), n |-> (N + 1) + 1]
    BY <2>1, RenderSubFrame
  <2> QED
    BY <1>1, <2>1, <2>2, Zenon
<1>4. F!AfterRemaining(r2) = r3
  <2>1. Len(Delayed(c + 8, k + 2)) = k + 2
    BY DelayedType
  <2>2. CASE k = 0
    <3>1. r3 = r2
      BY <2>2
    <3>2. ~ F!IsBlockAvailable(r2.blocker)
      BY <2>1, <2>2 DEF F!IsBlockAvailable, F!Block
    <3> QED
      BY <3>1, <3>2 DEF F!AfterRemaining
  <2>3. CASE k = 2
    <3>1. r3 = [blocker |-> Delayed(c + 12, 0), block |-> Delayed(c + 8, 4),
                n |-> N + 3]
      BY <2>3
    <3>2. F!IsBlockAvailable(r2.blocker)
      BY <2>1, <2>3 DEF F!IsBlockAvailable, F!Block
    <3>3. Delayed(c + 12, 0) = <<>>
      BY NoChunks
    <3>4. r2.blocker = Delayed(c + 8, 4) /\ r2.n + 1 = N + 3
      BY <2>3
    <3> QED
      BY <3>1, <3>2, <3>3, <3>4 DEF F!AfterRemaining
  <2> QED
    BY <2>2, <2>3
<1> QED
  BY <1>2, <1>3, <1>4, Zenon DEF F!AfterFrame

(* ProcessCaptureFrameContent(): with a block in blocker and framer        *)
(* together, the sub-frame that comes out is one block behind the one that *)
(* goes in, and there is again a block in them.                            *)
LEMMA CaptureSubFrame ==
  ASSUME NEW c \in Int, NEW n \in 0 .. 3
  PROVE  LET blocker == Delayed(c - n + 1, n)
             framer == Delayed(c - 3, 4 - n)
             sub_frame == Delayed(c + 1, 5)
             block == F!BlockFrom(blocker, sub_frame)
         IN /\ block = Delayed(c - n + 1, 4)
            /\ F!RestOf(blocker, sub_frame) = Delayed(c - n + 5, n + 1)
            /\ F!SubFrameFrom(framer, block) = Delayed(c - 3, 5)
            /\ F!Left(framer, block) = Delayed(c + 2, 3 - n)
<1> DEFINE d == c - n + 1
           e == c - 3
           j == 4 - n
<1>1. /\ d \in Int /\ n \in 0 .. 4 /\ d + n = c + 1 /\ d + 4 = c - n + 5
      /\ e \in Int /\ j \in 1 .. 4 /\ e + j = d /\ e + 5 = c + 2 /\ j - 1 = 3 - n
  OBVIOUS
<1> HIDE DEF d, e, j
<1>2. /\ F!BlockFrom(Delayed(d, n), Delayed(c + 1, 5)) = Delayed(d, 4)
      /\ F!RestOf(Delayed(d, n), Delayed(c + 1, 5)) = Delayed(c - n + 5, n + 1)
  <2>1. /\ F!BlockFrom(Delayed(d, n), Delayed(d + n, 5)) = Delayed(d, 4)
        /\ F!RestOf(Delayed(d, n), Delayed(d + n, 5)) = Delayed(d + 4, n + 1)
    BY <1>1, Blocking, Zenon
  <2> QED
    BY <1>1, <2>1, Zenon
<1>3. /\ F!SubFrameFrom(Delayed(e, j), Delayed(d, 4)) = Delayed(e, 5)
      /\ F!Left(Delayed(e, j), Delayed(d, 4)) = Delayed(c + 2, 3 - n)
  <2>1. /\ F!SubFrameFrom(Delayed(e, j), Delayed(e + j, 4)) = Delayed(e, 5)
        /\ F!Left(Delayed(e, j), Delayed(e + j, 4)) = Delayed(e + 5, j - 1)
    BY <1>1, Framing, Zenon
  <2> QED
    BY <1>1, <2>1, Zenon
<1> QED
  BY <1>2, <1>3, Zenon DEF d, e, j

-----------------------------------------------------------------------------
(* The invariant. *)

(* AEC3 starts with a block of silence in the framer and nothing else.     *)
LEMMA FramingInit == F!Init => FramingInv
<1> SUFFICES ASSUME F!Init PROVE FramingInv
  OBVIOUS
<1>1. /\ accepted = 0 /\ queue = <<>> /\ pc = "idle" /\ seen = 0 /\ captured = 0
      /\ render_blocker = <<>> /\ buffered = 0 /\ capture_blocker = <<>>
      /\ output_framer = F!NewFramer
  BY DEF F!Init
<1>2. Transfer /\ Taken = 0
  <2>1. queue \in Seq(Seq(Nat)) /\ Len(queue) = 0
    BY <1>1
  <2>2. Taken = 0
    <3>1. accepted = 0 /\ Len(queue) = 0
      BY <1>1, <2>1, Zenon
    <3> QED
      BY <3>1 DEF Taken
  <2>3. 1 .. Len(queue) = {}
    BY <2>1
  <2> QED
    BY <1>1, <2>1, <2>2, <2>3 DEF Transfer
<1>3. Render
  BY <1>1, <1>2, LeftOverCases, NoChunks DEF Render
<1>4. InTime
  BY <1>1, <1>2 DEF InTime
<1>5. Capture
  <2>1. TakenIn = 0 /\ Waiting = 0
    BY <1>1, LeftOverCases DEF TakenIn, Waiting
  <2>2. output_framer = Delayed(0 - 3, 4 - 0)
    BY <1>1, SMTT(30) DEF F!NewFramer, F!Silence, F!Block, Delayed
  <2> QED
    BY <1>1, <2>1, <2>2, NoChunks DEF Capture
<1> QED
  BY <1>2, <1>3, <1>4, <1>5 DEF FramingInv

(* AnalyzeRender() on the render thread, at any moment of ProcessCapture().*)
LEMMA FramingAnalyzeRender ==
  ASSUME FramingInv, F!AnalyzeRender PROVE FramingInv'
<1> USE DEF FramingInv, F!AnalyzeRender, F!render_vars, F!capture_vars
<1>1. Capture'
  BY DEF Capture, TakenIn, Waiting, SubFrames
<1>2. CASE Len(queue) < QueueSize
  <2> DEFINE f == F!FrameNumber(accepted + 1)
  <2>1. f = Delayed(10 * (accepted + 1) - 9, 10) /\ f \in Seq(Nat)
    <3>1. accepted + 1 \in Nat /\ accepted + 1 > 0
      BY DEF Transfer
    <3>2. 10 * (accepted + 1) - 9 \in Int
      BY <3>1
    <3> QED
      BY <3>1, <3>2, FrameIsDelayed, DelayedType, ZenonT(30)
  <2>2. queue' = Append(queue, f) /\ accepted' = accepted + 1
    BY <1>2
  <2> HIDE DEF f
  <2>3. /\ queue' \in Seq(Seq(Nat)) /\ Len(queue') = Len(queue) + 1
        /\ \A i \in 1 .. Len(queue) : queue'[i] = queue[i]
        /\ queue'[Len(queue) + 1] = f
    BY <2>1, <2>2, AppendProperties DEF Transfer
  <2>4. Taken \in Nat /\ Taken' = Taken /\ Taken + Len(queue) + 1 = accepted + 1
    BY <2>2, <2>3 DEF Transfer, Taken
  <2>5. Transfer'
    <3>1. ASSUME NEW i \in 1 .. Len(queue')
          PROVE  queue'[i] = Delayed(10 * (Taken + i) - 9, 10)
      <4>1. CASE i \in 1 .. Len(queue)
        BY <2>3, <4>1 DEF Transfer
      <4>2. CASE i = Len(queue) + 1
        <5>1. Taken + i = accepted + 1
          BY <2>4, <4>2 DEF Transfer
        <5> QED
          BY <2>1, <2>3, <4>2, <5>1
      <4> QED
        BY <2>3, <4>1, <4>2 DEF Transfer
    <3> QED
      BY <2>2, <2>3, <2>4, <3>1, SMTT(30) DEF Transfer
  <2>6. Render'
    BY <2>4 DEF Render
  <2>7. InTime'
    BY <2>2, <2>4 DEF InTime, Transfer
  <2> QED
    BY <1>1, <2>5, <2>6, <2>7
<1>3. CASE ~ (Len(queue) < QueueSize)
  <2>1. queue' = queue /\ accepted' = accepted
    BY <1>3
  <2>2. Taken' = Taken
    BY <2>1 DEF Taken
  <2> QED
    BY <1>1, <2>1, <2>2 DEF Transfer, Render, InTime
<1> QED
  BY <1>2, <1>3

(* ProcessCapture() begins with the next capture frame.                    *)
LEMMA FramingProcessCapture ==
  ASSUME FramingInv, F!ProcessCapture PROVE FramingInv'
<1> USE DEF FramingInv, F!ProcessCapture, F!render_vars
<1>1. Taken' = Taken
  BY DEF Taken
<1>2. Transfer' /\ Render'
  BY <1>1 DEF Transfer, Render
<1>3. InTime'
  BY <1>1 DEF InTime, Transfer
<1>4. Capture'
  <2>1. /\ captured \in Nat /\ captured' = captured + 1 /\ pc = "idle"
        /\ pc' = "empty" /\ capture' = F!FrameNumber(captured + 1)
    BY DEF Capture
  <2>2. TakenIn' = TakenIn /\ Waiting' = Waiting
    BY <2>1 DEF TakenIn, Waiting, SubFrames, LeftOver
  <2>3. capture' = Delayed(10 * captured' - 9, 10)
    BY <2>1, FrameIsDelayed
  <2> QED
    BY <2>1, <2>2, <2>3 DEF Capture
<1> QED
  BY <1>2, <1>3, <1>4

(* EmptyRenderQueue() takes the next frame, or finds no more and goes on.  *)
LEMMA FramingEmptyRenderQueue ==
  ASSUME FramingInv, F!EmptyRenderQueue PROVE FramingInv'
<1> USE DEF FramingInv, F!EmptyRenderQueue, F!capture_vars
<1>1. CASE queue = <<>>
  <2>1. /\ queue' = queue /\ accepted' = accepted /\ pc = "empty"
        /\ pc' = "sub_frame_0" /\ UNCHANGED F!render_vars
    BY <1>1
  <2>2. Taken' = Taken /\ Taken = accepted
    BY <1>1, <2>1 DEF Taken, Transfer
  <2>3. Transfer' /\ Render' /\ InTime'
    BY <2>1, <2>2 DEF Transfer, Render, InTime, F!render_vars
  <2>4. TakenIn' = TakenIn /\ Waiting' = Waiting
    BY <2>1 DEF TakenIn, Waiting, SubFrames
  <2>5. Capture'
    BY <2>1, <2>4 DEF Capture
  <2> QED
    BY <2>3, <2>5
<1>2. CASE queue # <<>>
  <2> DEFINE k == LeftOver(Taken)
             c == 4 * buffered + 1
             m == IF k = 0 THEN 2 ELSE 3
             r == F!AfterFrame([blocker |-> render_blocker,
                                block |-> render_block, n |-> buffered],
                               Head(queue))
  <2>1. /\ queue' = Tail(queue) /\ accepted' = accepted /\ pc' = pc
        /\ pc = "empty" /\ render_blocker' = r.blocker
        /\ render_block' = r.block /\ buffered' = r.n
    BY <1>2
  <2>2. /\ queue \in Seq(Seq(Nat)) /\ Len(queue) > 0
        /\ queue' \in Seq(Seq(Nat)) /\ Len(queue') = Len(queue) - 1
        /\ \A i \in 1 .. Len(queue') : queue'[i] = queue[i + 1]
        /\ Head(queue) = queue[1]
    BY <1>2, <2>1 DEF Transfer
  <2>3. Taken \in Nat /\ Taken' = Taken + 1
    BY <2>1, <2>2 DEF Transfer, Taken
  <2>4. Transfer'
    <3>1. ASSUME NEW i \in 1 .. Len(queue')
          PROVE  queue'[i] = Delayed(10 * (Taken' + i) - 9, 10)
      <4>1. i + 1 \in 1 .. Len(queue) /\ Taken + (i + 1) = Taken' + i
        BY <2>2, <2>3
      <4> QED
        BY <2>2, <4>1, SMTT(30) DEF Transfer
    <3> QED
      BY <2>1, <2>2, <3>1 DEF Transfer
  <2>5. k \in {0, 2} /\ LeftOver(Taken') = 2 - k
    BY <2>3, LeftOverCases
  <2>6. r = [blocker |-> Delayed(c + 4 * m, 2 - k),
             block |-> Delayed(c + 4 * m - 4, 4), n |-> buffered + m]
    <3>1. /\ buffered \in Nat /\ c \in Int /\ c + k = 10 * (Taken + 1) - 9
          /\ render_blocker = Delayed(c, k)
      BY <2>3, <2>5, SMTT(30) DEF Render
    <3>2. Head(queue) = Delayed(c + k, 10)
      BY <2>2, <3>1 DEF Transfer
    <3> QED
      BY <2>5, <3>1, <3>2, RenderFrame
  <2> HIDE DEF r
  <2>7. Render'
    <3>1. /\ buffered \in Nat /\ buffered' = buffered + m
          /\ render_blocker' = Delayed(c + 4 * m, 2 - k)
          /\ render_block' = Delayed(c + 4 * m - 4, 4)
      BY <2>1, <2>6 DEF Render
    <3>2. /\ c + 4 * m = 4 * buffered' + 1 /\ c + 4 * m - 4 = 4 * buffered' - 3
          /\ 4 * buffered' = 10 * Taken' - (2 - k)
      <4>1. 4 * buffered = 10 * Taken - k
        BY DEF Render
      <4> HIDE DEF k
      <4> QED
        BY <2>3, <2>5, <3>1, <4>1, RenderCount, ZenonT(30)
    <3>3. buffered' \in Nat
      BY <3>1, SMTT(30)
    <3> HIDE DEF c, m, k
    <3> QED
      BY <2>5, <3>1, <3>2, <3>3 DEF Render
  <2>8. InTime'
    BY <2>1, <2>3 DEF InTime
  <2>9. Capture'
    BY <2>1 DEF Capture, TakenIn, Waiting, SubFrames
  <2> QED
    BY <2>4, <2>7, <2>8, <2>9
<1> QED
  BY <1>1, <1>2

(* ProcessCaptureFrameContent() on the first sub-frame: the frame is then  *)
(* half result and half input.                                             *)
LEMMA FramingSubFrame0 ==
  ASSUME FramingInv, F!ProcessSubFrame0 PROVE FramingInv'
<1> DEFINE c == 10 * (captured - 1)
           n == LeftOver(captured - 1)
<1>1. /\ captured \in Nat /\ captured > 0 /\ captured' = captured
      /\ pc = "sub_frame_0" /\ pc' = "sub_frame_1"
  BY DEF FramingInv, Capture, F!ProcessSubFrame0, F!ProcessCaptureFrameContent
<1>2. /\ Taken' = Taken /\ Transfer' /\ Render' /\ InTime'
  BY <1>1 DEF FramingInv, F!ProcessSubFrame0, F!ProcessCaptureFrameContent,
              F!render_vars, Transfer, Render, InTime, Taken
<1>3. c \in Int /\ n \in {0, 2}
  <2>1. captured - 1 \in Nat
    BY <1>1
  <2> QED
    BY <2>1, LeftOverCases
<1>4. /\ TakenIn = c /\ Waiting = n /\ TakenIn' = c + 5 /\ Waiting' = n + 1
      /\ 10 * captured - 9 = c + 1 /\ 10 * captured - 13 = c - 3
      /\ 10 * captured - 4 = c + 6
  BY <1>1, <1>3 DEF TakenIn, Waiting, SubFrames
<1> HIDE DEF c, n
<1>5. /\ capture_blocker = Delayed(c - n + 1, n)
      /\ output_framer = Delayed(c - 3, 4 - n)
      /\ capture = Delayed(c + 1, 10)
  BY <1>1, <1>4 DEF FramingInv, Capture
<1>6. /\ F!SubFrameOf(capture, 0) = Delayed(c + 1, 5)
      /\ F!SubFrameOf(capture, 1) = Delayed(c + 6, 5)
  <2>1. c + 1 \in Int /\ c + 1 + 5 = c + 6
    BY <1>3
  <2> QED
    BY <1>5, <2>1, SubFramesOf
<1>7. /\ capture_blocker' = Delayed(c - n + 5, n + 1)
      /\ output_framer' = Delayed(c + 2, 3 - n)
      /\ capture' = Delayed(c - 3, 5) \o Delayed(c + 6, 5)
  <2>1. n \in 0 .. 3
    BY <1>3
  <2> QED
    BY <1>3, <1>5, <1>6, <2>1, CaptureSubFrame, Zenon
    DEF F!ProcessSubFrame0, F!ProcessCaptureFrameContent
<1>8. Capture'
  <2>1. /\ c - n + 5 = TakenIn' - Waiting' + 1 /\ n + 1 = Waiting'
        /\ c + 2 = TakenIn' - 3 /\ 3 - n = 4 - Waiting'
    BY <1>3, <1>4
  <2> QED
    BY <1>1, <1>4, <1>7, <2>1, Zenon DEF Capture
<1> QED
  BY <1>2, <1>8 DEF FramingInv

(* ProcessCaptureFrameContent() on the second sub-frame: the frame is the  *)
(* stretch one block earlier.                                              *)
LEMMA FramingSubFrame1 ==
  ASSUME FramingInv, F!ProcessSubFrame1 PROVE FramingInv'
<1> DEFINE c == 10 * (captured - 1) + 5
           n == LeftOver(captured - 1) + 1
<1>1. /\ captured \in Nat /\ captured > 0 /\ captured' = captured
      /\ pc = "sub_frame_1" /\ pc' = "remaining"
  BY DEF FramingInv, Capture, F!ProcessSubFrame1, F!ProcessCaptureFrameContent
<1>2. /\ Taken' = Taken /\ Transfer' /\ Render' /\ InTime'
  BY <1>1 DEF FramingInv, F!ProcessSubFrame1, F!ProcessCaptureFrameContent,
              F!render_vars, Transfer, Render, InTime, Taken
<1>3. c \in Int /\ n \in {1, 3}
  <2>1. captured - 1 \in Nat
    BY <1>1
  <2> QED
    BY <2>1, LeftOverCases
<1>4. /\ TakenIn = c /\ Waiting = n /\ TakenIn' = c + 5 /\ Waiting' = n + 1
      /\ 10 * captured - 13 = c - 8 /\ 10 * captured - 4 = c + 1
  <2>1. LeftOver(captured - 1) \in Int
    BY <1>1, LeftOverCases
  <2> QED
    BY <1>1, <2>1 DEF TakenIn, Waiting, SubFrames
<1> HIDE DEF c, n
<1>5. /\ capture_blocker = Delayed(c - n + 1, n)
      /\ output_framer = Delayed(c - 3, 4 - n)
      /\ capture = Delayed(c - 8, 5) \o Delayed(c + 1, 5)
  BY <1>1, <1>4, Zenon DEF FramingInv, Capture
<1>6. /\ F!SubFrameOf(capture, 0) = Delayed(c - 8, 5)
      /\ F!SubFrameOf(capture, 1) = Delayed(c + 1, 5)
  <2>1. c - 8 \in Int /\ c + 1 \in Int
    BY <1>3
  <2> QED
    BY <1>5, <2>1, SubFramesOf, Zenon
<1>7. /\ capture_blocker' = Delayed(c - n + 5, n + 1)
      /\ output_framer' = Delayed(c + 2, 3 - n)
      /\ capture' = Then(Delayed(c - 8, 5), Delayed(c - 3, 5))
  <2>1. n \in 0 .. 3 /\ 1 # 0
    BY <1>3
  <2> QED
    BY <1>3, <1>5, <1>6, <2>1, CaptureSubFrame, ZenonT(30)
    DEF F!ProcessSubFrame1, F!ProcessCaptureFrameContent, Then
<1>8. capture' = Delayed(10 * captured' - 13, 10)
  <2>1. c - 8 \in Int /\ c - 3 \in Int /\ c - 3 = (c - 8) + 5
    BY <1>3
  <2>2. Then(Delayed(c - 8, 5), Delayed(c - 3, 5)) = Delayed(c - 8, 10)
    BY <2>1, Joined
  <2> QED
    BY <1>1, <1>4, <1>7, <2>2, Zenon
<1>9. Capture'
  <2>1. /\ c - n + 5 = TakenIn' - Waiting' + 1 /\ n + 1 = Waiting'
        /\ c + 2 = TakenIn' - 3 /\ 3 - n = 4 - Waiting'
    BY <1>3, <1>4
  <2> QED
    BY <1>1, <1>4, <1>7, <1>8, <2>1, Zenon DEF Capture
<1> QED
  BY <1>2, <1>9 DEF FramingInv

(* ProcessRemainingCaptureFrameContent(): a full blocker empties into the  *)
(* framer, which has nothing then.                                         *)
LEMMA FramingRemaining ==
  ASSUME FramingInv, F!ProcessRemainingCaptureFrameContent PROVE FramingInv'
<1> DEFINE c == 10 * captured
           n == LeftOver(captured - 1)
<1>1. /\ captured \in Nat /\ captured > 0 /\ captured' = captured
      /\ pc = "remaining" /\ pc' = "idle"
  BY DEF FramingInv, Capture, F!ProcessRemainingCaptureFrameContent
<1>2. /\ Taken' = Taken /\ Transfer' /\ Render' /\ InTime'
  BY <1>1 DEF FramingInv, F!ProcessRemainingCaptureFrameContent,
              F!render_vars, Transfer, Render, InTime, Taken
<1>3. c \in Int /\ n \in {0, 2} /\ LeftOver(captured) = 2 - n
  <2>1. captured - 1 \in Nat /\ (captured - 1) + 1 = captured
    BY <1>1
  <2> QED
    BY <1>1, <2>1, LeftOverCases
<1>4. TakenIn = c /\ Waiting = n + 2 /\ TakenIn' = c /\ Waiting' = 2 - n
  BY <1>1, <1>3 DEF TakenIn, Waiting, SubFrames
<1>5. capture' = Delayed(10 * captured' - 13, 10)
  BY <1>1 DEF FramingInv, Capture, F!ProcessRemainingCaptureFrameContent
<1> HIDE DEF c, n
<1>6. /\ capture_blocker = Delayed(c - (n + 2) + 1, n + 2)
      /\ output_framer = Delayed(c - 3, 4 - (n + 2))
      /\ Len(capture_blocker) = n + 2
  <2>1. /\ capture_blocker = Delayed(c - (n + 2) + 1, n + 2)
        /\ output_framer = Delayed(c - 3, 4 - (n + 2))
    BY <1>4, Zenon DEF FramingInv, Capture
  <2>2. c - (n + 2) + 1 \in Int /\ n + 2 \in Nat
    BY <1>3
  <2> QED
    BY <2>1, <2>2, DelayedType
<1>7. /\ capture_blocker' = Delayed(c - (2 - n) + 1, 2 - n)
      /\ output_framer' = Delayed(c - 3, 4 - (2 - n))
  <2>1. CASE n = 0
    <3>1. capture_blocker' = capture_blocker /\ output_framer' = output_framer
      <4>1. Len(capture_blocker) = 2
        BY <1>6, <2>1
      <4>2. ~ F!IsBlockAvailable(capture_blocker)
        BY <4>1 DEF F!IsBlockAvailable, F!Block
      <4> QED
        BY <4>2, Zenon DEF F!ProcessRemainingCaptureFrameContent
    <3> QED
      BY <1>3, <1>6, <2>1, <3>1
  <2>2. CASE n = 2
    <3>1. /\ capture_blocker = Delayed(c - 3, 4) /\ output_framer = Delayed(c - 3, 0)
          /\ Len(capture_blocker) = 4
      BY <1>3, <1>6, <2>2
    <3>2. /\ capture_blocker' = <<>>
          /\ output_framer' = Then(output_framer, capture_blocker)
      BY <3>1, Zenon
      DEF F!ProcessRemainingCaptureFrameContent, F!IsBlockAvailable, F!Block, Then
    <3>3. Then(Delayed(c - 3, 0), Delayed(c - 3, 4)) = Delayed(c - 3, 4)
      BY <1>3, Joined
    <3>4. capture_blocker' = Delayed(c + 1, 0) /\ output_framer' = Delayed(c - 3, 4)
      BY <1>3, <3>1, <3>2, <3>3, NoChunks
    <3> QED
      BY <1>3, <2>2, <3>4
  <2> QED
    BY <1>3, <2>1, <2>2
<1>8. Capture'
  BY <1>1, <1>4, <1>5, <1>7, Zenon DEF Capture
<1> QED
  BY <1>2, <1>8 DEF FramingInv

(* A step of the other machine, or none.                                   *)
LEMMA FramingUnchanged ==
  ASSUME FramingInv, UNCHANGED framingVars PROVE FramingInv'
<1> USE DEF framingVars
<1>1. Taken' = Taken
  BY DEF Taken
<1>2. TakenIn' = TakenIn /\ Waiting' = Waiting
  BY DEF TakenIn, Waiting, SubFrames
<1>3. Transfer' /\ Render' /\ InTime'
  BY <1>1 DEF FramingInv, Transfer, Render, InTime
<1>4. Capture'
  BY <1>2 DEF FramingInv, Capture
<1> QED
  BY <1>3, <1>4 DEF FramingInv

(* Every step of either thread.                                            *)
LEMMA FramingStep ==
  ASSUME FramingInv, [F!Next]_framingVars PROVE FramingInv'
<1>1. CASE F!Done
  BY <1>1, FramingUnchanged
  DEF F!Done, F!vars, F!render_vars, F!capture_vars, framingVars
<1> QED
  BY <1>1, FramingAnalyzeRender, FramingProcessCapture, FramingEmptyRenderQueue,
     FramingSubFrame0, FramingSubFrame1, FramingRemaining, FramingUnchanged
  DEF F!Next

(* What the invariant says of the frame that ProcessCapture() hands back.  *)
LEMMA InvOutput ==
  ASSUME FramingInv PROVE F!OutputDelayedByBlock
<1> SUFFICES ASSUME pc = "idle", captured > 0
             PROVE  capture = [i \in 1 .. 10 |->
                                 LET c == 10 * (captured - 1) + i - 4
                                 IN IF c > 0 THEN c ELSE 0]
  BY DEF F!OutputDelayedByBlock, F!Frame, F!SubFrame, F!Block
<1>1. captured \in Nat /\ capture = Delayed(10 * captured - 13, 10)
  BY DEF FramingInv, Capture
<1>2. \A i \in 1 .. 10 : 10 * captured - 13 + i - 1 = 10 * (captured - 1) + i - 4
  BY <1>1
<1> QED
  BY <1>1, <1>2 DEF Delayed

(* What the invariant says of the block that BufferRender() gets, and of   *)
(* the render frames handed over before the call.                          *)
LEMMA InvRender ==
  ASSUME FramingInv PROVE F!RenderUnbroken
<1>1. /\ buffered \in Nat /\ Taken \in Nat /\ 4 * buffered = 10 * Taken - LeftOver(Taken)
      /\ buffered > 0 => render_block = Delayed(4 * buffered - 3, 4)
  BY DEF FramingInv, Render, Transfer, Taken
<1>2. LeftOver(Taken) \in {0, 2}
  BY <1>1, LeftOverCases
<1>3. ASSUME buffered > 0
      PROVE  render_block = F!Chunks(4 * (buffered - 1) + 1, 4)
  <2>1. /\ 4 * buffered - 3 \in Int /\ 4 * buffered - 3 > 0
        /\ 4 * (buffered - 1) + 1 = 4 * buffered - 3
    BY <1>1, <1>3
  <2>2. F!Chunks(4 * buffered - 3, 4) = Delayed(4 * buffered - 3, 4)
    BY <2>1, ChunksAreDelayed
  <2> QED
    BY <1>1, <1>3, <2>1, <2>2, Zenon
<1>4. ASSUME pc \in {"sub_frame_0", "sub_frame_1", "remaining"}
      PROVE  4 * (buffered + 1) > 10 * seen
  <2>1. seen \in Nat /\ seen <= Taken
    BY <1>4 DEF FramingInv, InTime
  <2> QED
    BY <1>1, <1>2, <2>1
<1> QED
  BY <1>3, <1>4 DEF F!RenderUnbroken, F!Block, F!Frame, F!SubFrame

-----------------------------------------------------------------------------
(* The theorems. *)

(* FramingInv holds in every reachable state of AEC3's framing, alone and  *)
(* beside the block processor.                                             *)
THEOREM FramingInvariant ==
  /\ F!Spec => []FramingInv
  /\ AllSpec => []FramingInv
<1>1. FramingInv /\ [F!Next]_F!vars => FramingInv'
  <2>1. [F!Next]_F!vars => [F!Next]_framingVars
    BY DEF F!vars, F!render_vars, F!capture_vars, framingVars
  <2> QED
    BY <2>1, FramingStep
<1>2. FramingInv /\ [AllNext]_<<machine, vars, framingVars>> => FramingInv'
  <2>1. [AllNext]_<<machine, vars, framingVars>> => [F!Next]_framingVars
    BY DEF AllNext
  <2> QED
    BY <2>1, FramingStep
<1>3. F!Spec => []FramingInv
  BY <1>1, FramingInit, PTL DEF F!Spec
<1>4. AllSpec => []FramingInv
  BY <1>2, FramingInit, PTL DEF AllSpec, AllInit
<1> QED
  BY <1>3, <1>4

(* For every size of the transfer queue and any number of frames, AEC3     *)
(* delays the capture signal by exactly one block: the frame that          *)
(* ProcessCapture() hands back is the stretch of the capture stream that   *)
(* ends one block before its own end, whatever the render thread does.     *)
THEOREM OutputIsDelayedByBlock ==
  /\ F!Spec => []F!OutputDelayedByBlock
  /\ AllSpec => []OutputDelayedByBlock
<1>1. FramingInv => F!OutputDelayedByBlock
  BY InvOutput
<1>2. FramingInv => OutputDelayedByBlock
  BY <1>1 DEF OutputDelayedByBlock
<1> QED
  BY <1>1, <1>2, FramingInvariant, PTL

(* For every size of the transfer queue and any number of frames, the      *)
(* block processor gets the accepted render frames as one unbroken stream, *)
(* and those handed over before ProcessCapture() was called before the     *)
(* capture blocks of that call, up to the chunks that fill no block.       *)
THEOREM RenderStreamUnbroken ==
  /\ F!Spec => []F!RenderUnbroken
  /\ AllSpec => []RenderUnbroken
<1>1. FramingInv => F!RenderUnbroken
  BY InvRender
<1>2. FramingInv => RenderUnbroken
  BY <1>1 DEF RenderUnbroken
<1> QED
  BY <1>1, <1>2, FramingInvariant, PTL
===============================================================================
