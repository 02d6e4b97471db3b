-------------------------------- MODULE NetEq --------------------------------
(* NetEq (neteq_impl.cc): packets of a stream arrive over a network that      *)
(* loses, repeats and reorders them; InsertPacket puts them in the jitter     *)
(* buffer and keeps the NACK list; GetAudio, every 10 ms, lets the decision   *)
(* logic (decision_logic.cc) choose what to play and decodes.  Both hold      *)
(* crit_sect_ throughout, so each is one step.                                *)
(*                                                                            *)
(* One unit of time, and of timestamp in a decoder, is 10 ms.  The levels the *)
(* decision logic filters, the muting of an expansion and what time           *)
(* stretching changes are arbitrary.  Comfort noise, DTMF, RED and changes of *)
(* sample rate are left out.                                                  *)
EXTENDS NackTracker, FiniteSets

CONSTANTS PayloadTypes,
          SplitTypes,           \* those whose packets are split: see Frames
          FixedTypes,           \* of them, those with frames of a fixed size
          ScaledTypes,          \* those with an RTP clock of half the sample rate
          NoType,               \* no current payload type, no active decoder
          LastPacket,           \* the stream's packets are 0..LastPacket
          SeqStart, TsStart,    \* where its numbers start
          Dur,                  \* the duration of a packet of each type
          Channels,             \* of the decoders
          Horizon,              \* five_seconds_samples
          ReinitAfterExpands,   \* kReinitAfterExpands
          MaxWaitForPacket,     \* kMaxWaitForPacket
          Window,               \* bound: how late the network delivers
          MaxInputs,            \* bound: packets delivered and calls
          MaxCalls,             \* bound: of FlushBuffers, RemovePayloadType
          Streams               \* the payload types a sender may use, in order

VARIABLES stream,           \* the sender's packets: type, RTP timestamp, place
          newest, inserts, calls,     \* network and bounds
          buffer,           \* packet_buffer_
          current,          \* current_rtp_payload_type_
          registered,       \* decoder_database_
          active,           \* its active_decoder_type_
          first_packet, new_codec,    \* first_packet_, new_codec_
          scaler,           \* timestamp_scaler_
          end,              \* sync_buffer_->end_timestamp()
          left,             \* samples_left
          frame,            \* decoder_frame_length_
          mode,             \* last_mode_
          expands,          \* num_consecutive_expands_
          nack,             \* nack_
          received, origin, \* packets seen since nack_ was reset, the first
          played,           \* the furthest position decoded since new_codec_
          failed            \* the assertion of UpdateLastDecodedPacket has failed

network  == <<stream, newest, inserts>>
decoders == <<registered, active, frame>>
sync     == <<end, left>>
vars     == <<network, calls, buffer, current, decoders, first_packet,
              new_codec, scaler, sync, mode, expands, nack, received, origin, played, failed>>

NetEqAssumption ==
  /\ SplitTypes \subseteq PayloadTypes /\ ScaledTypes \subseteq PayloadTypes
  /\ FixedTypes \subseteq SplitTypes
  /\ \A pt \in PayloadTypes : Dur[pt] \in Nat \ {0} /\ Window * Dur[pt] < Horizon
  /\ Channels \in Nat \ {0} /\ 2 * Horizon < TsSpace
  /\ MaxNackListSize + NackThresholdPackets < SeqSpace \div 2

ASSUME NetEqAssumption

Packets == 0..LastPacket
SeqNumber(k) == (SeqStart + k) % SeqSpace
Nothing == 0 - TsSpace          \* before every position

(* The sample rate over the RTP clock rate: 2 for G.722.                      *)
Scale(pt) == IF pt \in ScaledTypes THEN 2 ELSE 1

Stream(types) ==
  [k \in Packets |->
     [pt  |-> types[k],
      pos |-> MapThenSumSet(LAMBDA j : Dur[types[j]], 0..(k - 1)),
      ts  |-> (TsStart + MapThenSumSet(LAMBDA j : Dur[types[j]] \div Scale(types[j]),
                                       0..(k - 1))) % TsSpace]]

(* TimestampScaler::ToInternal, and the references it leaves: the last packet *)
(* that was scaled, in both domains.                                          *)
NoScaling == [started |-> FALSE, external_ref |-> 0, internal_ref |-> 0]

ToInternal(sc, p) ==
  LET from == IF sc.started THEN sc
              ELSE [started |-> TRUE, external_ref |-> p.ts, internal_ref |-> p.ts]
      to   == from.internal_ref + (p.ts - from.external_ref) * Scale(p.pt)
  IN  IF Scale(p.pt) = 1 THEN sc
      ELSE [from EXCEPT !.external_ref = p.ts, !.internal_ref = to % TsSpace]

InternalTs(sc, p) ==
  IF Scale(p.pt) = 1 THEN p.ts ELSE ToInternal(sc, p).internal_ref

(* A packet made of a result of ParsePayload.                                 *)
Frame(k, sc, offset, level, dur) ==
  [seq |-> SeqNumber(k), ts |-> (InternalTs(sc, stream[k]) + offset) % TsSpace,
   pt |-> stream[k].pt, level |-> level, dur |-> dur, pos |-> stream[k].pos + offset]

(* ParsePayload of G.711, G.722 and iLBC: a long packet is split into chunks  *)
(* that keep its sequence number.                                             *)
SplitBySamples(k, sc) ==
  LET half == Dur[stream[k].pt] \div 2
  IN  <<Frame(k, sc, 0, 0, half), Frame(k, sc, half, 0, half)>>

(* ParsePayload of Opus: a redundant copy of the packet before comes first.   *)
WithRedundancy(k, sc) ==
  LET dur == Dur[stream[k].pt]
  IN  <<Frame(k, sc, 0 - dur, 1, dur), Frame(k, sc, 0, 0, dur)>>

(* ParsePayload, by codec.                                                    *)
Frames(k, sc) ==
  IF stream[k].pt \in SplitTypes THEN SplitBySamples(k, sc) ELSE WithRedundancy(k, sc)

Init ==
  /\ stream \in {Stream(types) : types \in Streams}
  /\ newest = -1 /\ inserts = 0 /\ calls = 0
  /\ buffer = <<>> /\ current = NoType
  /\ registered = {stream[k].pt : k \in Packets} /\ active = NoType /\ frame = 3
  /\ first_packet = TRUE /\ new_codec = FALSE
  /\ scaler = NoScaling /\ end = 0 /\ left = 0
  /\ mode = "Normal" /\ expands = 0
  /\ nack = Reset /\ received = {} /\ origin = -1 /\ played = Nothing /\ failed = FALSE
-----------------------------------------------------------------------------
(* Does not flush for another payload type.                                   *)
Mut_InsertPacketList(buf, frames) == FoldLeft(InsertPacket, buf, frames)

(* InsertPacketList: another payload type flushes the buffer, and so does     *)
(* each packet that finds it full.                                            *)
InsertPacketList(buf, frames) ==
  LET start == IF current \notin {NoType, frames[1].pt} THEN <<>> ELSE buf
  IN  FoldLeft(InsertPacket, start, frames)

Flushed(buf, frames) ==
  \/ current \notin {NoType, frames[1].pt}
  \/ \E i \in 1..Len(frames) :
       IsFull(FoldLeft(InsertPacket, buf, SubSeq(frames, 1, i - 1)))

(* What InsertPacketInternal does to the NACK list, whether or not the packet *)
(* is accepted afterwards.  The list gets the RTP timestamp; of a packet that *)
(* is decoded it gets the internal one.                                       *)
TrackReceived(k) ==
  LET t == IF first_packet THEN Reset ELSE nack
  IN  /\ nack' = UpdateLastReceivedPacket(t, SeqNumber(k), stream[k].ts)
      /\ received' = (IF first_packet THEN {} ELSE received) \union {k}
      /\ origin' = IF first_packet THEN k ELSE origin

Delivered(k) ==
  /\ inserts + calls < MaxInputs /\ inserts' = inserts + 1
  /\ k >= newest - Window
  /\ newest' = IF k > newest THEN k ELSE newest

(* The scaler, which a first packet resets.                                   *)
Scaler == IF first_packet THEN NoScaling ELSE scaler

(* InsertPacketInternal with an unknown payload type: it has flushed and      *)
(* reset for a first packet, and has counted the packet as received.          *)
RejectPacket(k) ==
  /\ Delivered(k)
  /\ stream[k].pt \notin registered
  /\ TrackReceived(k)
  /\ scaler' = Scaler
  /\ buffer' = IF first_packet THEN <<>> ELSE buffer
  /\ UNCHANGED <<stream, calls, current, decoders, first_packet, new_codec,
                 sync, mode, expands, played, failed>>

(* InsertPacketInternal.  The end timestamp it adjusts for a first packet is  *)
(* set anew before it is used, since new_codec_ is then set.                  *)
InsertPacketInternal(k) ==
  LET buf    == IF first_packet THEN <<>> ELSE buffer
      frames == Frames(k, Scaler)
  IN  /\ Delivered(k)
      /\ stream[k].pt \in registered
      /\ TrackReceived(k)
      /\ scaler' = ToInternal(Scaler, stream[k])
      /\ buffer' = InsertPacketList(buf, frames)
      /\ current' = stream[k].pt
      /\ new_codec' = (new_codec \/ first_packet \/ Flushed(buf, frames))
      /\ first_packet' = FALSE
      /\ UNCHANGED <<stream, calls, decoders, sync, mode, expands, played, failed>>

(* InsertPacketInternal with a payload that is not a whole number of frames,  *)
(* which iLBC cannot parse (audio_decoder_ilbc.cc): nothing is inserted, yet  *)
(* the first packet has come.                                                 *)
InsertUnparsed(k) ==
  /\ Delivered(k)
  /\ stream[k].pt \in registered \intersect FixedTypes
  /\ TrackReceived(k)
  /\ scaler' = ToInternal(Scaler, stream[k])
  /\ buffer' = IF first_packet THEN <<>> ELSE buffer
  /\ new_codec' = (new_codec \/ first_packet)
  /\ first_packet' = FALSE
  /\ UNCHANGED <<stream, calls, current, decoders, sync, mode, expands, played,
                 failed>>
-----------------------------------------------------------------------------
TimeScaling == {"Accelerate", "PreemptiveExpand"}
Concealing  == {"Expand", "CodecPlc"}

(* DecisionLogic::FuturePacketAvailable.                                      *)
FuturePacketAvailable(leap) ==
  LET tooEarly == /\ mode \in Concealing
                  /\ leap < ReinitAfterExpands
                  /\ expands < MaxWaitForPacket
                  /\ leap > expands
  IN  (IF tooEarly THEN {"Expand"} ELSE {})
        \union CASE mode = "CodecPlc" -> {"Normal"}
                 [] mode = "Expand"   -> {"Merge"}
                 [] OTHER             -> {"Expand"}

(* DecisionLogic::GetDecision.  After an expansion it may wait for more.      *)
GetDecision(buf) ==
  CASE mode = "Error"  -> {IF buf = <<>> THEN "Expand" ELSE "Undefined"}
    [] buf = <<>>      -> {"Expand"}
    [] expands > ReinitAfterExpands -> {"Normal"}
    [] OTHER ->
         (IF mode \in Concealing THEN {"Expand"} ELSE {})
           \union CASE buf[1].ts = end ->
                         {"Normal"} \union
                           (IF mode = "Expand" THEN {} ELSE TimeScaling)
                    [] ~ IsObsoleteTimestamp(buf[1].ts, end, Horizon) ->
                         FuturePacketAvailable((buf[1].ts - end) % TsSpace)
                    [] OTHER -> {"Undefined"}

(* Does not count.                                                            *)
Mut_ExpandDecision(op) == 0

(* DecisionLogic::ExpandDecision; more than the limit is all the same.        *)
ExpandDecision(op) ==
  CASE op # "Expand"                -> 0
    [] expands > ReinitAfterExpands -> expands
    [] OTHER                        -> expands + 1

(* Keeps obsolete packets.                                                    *)
Mut_Fresh == buffer

(* What NetEqImpl::GetDecision has in the buffer when it asks.                *)
Fresh ==
  IF new_codec THEN buffer ELSE DiscardOldPackets(buffer, end, Horizon)

(* samples_left covers the output, and the decision does not need more.       *)
Enough(op) == left >= 1 /\ op \notin TimeScaling \union {"Merge"}

IsReset(op) == new_codec \/ op = "Undefined"

(* The sync buffer already holds the 10 ms.                                   *)
PlayBuffered(op) ==
  /\ Enough(op)
  /\ buffer' = Fresh
  /\ left' = left - 1
  /\ UNCHANGED <<expands, new_codec, end, mode, nack, played, failed, frame,
                 active>>

(* A reset without a packet is an error, and stays pending.                   *)
PacketMissing(op) ==
  /\ ~ Enough(op) /\ IsReset(op) /\ Fresh = <<>>
  /\ buffer' = <<>>
  /\ mode' = "Error"
  /\ expands' = ExpandDecision(op)
  /\ UNCHANGED <<new_codec, sync, nack, played, failed, frame, active>>

(* DoCodecPlc, if the active decoder conceals by itself what is missing or    *)
(* more, or else DoExpand, whose samples may outlast the output.  After a     *)
(* decoder's error nothing may be missing.                                    *)
Conceal(decoder) ==
  \/ left >= 1 /\ mode' = mode /\ left' = left - 1
  \/ left = 0 /\ mode' = "Expand" /\ left' \in 0..1
  \/ /\ left <= 1 /\ current # NoType /\ decoder # NoType
     /\ mode' = "CodecPlc" /\ left' \in 0..1

Expand(op) ==
  /\ ~ Enough(op) /\ ~ IsReset(op) /\ op = "Expand"
  /\ buffer' = Fresh
  /\ expands' = ExpandDecision(op)
  /\ Conceal(active)
  /\ UNCHANGED <<new_codec, end, nack, played, failed, frame, active>>

(* Time stretching of what the sync buffer holds; Accelerate falls back to    *)
(* normal output where another frame might overflow it.                       *)
Stretch(op) ==
  /\ ~ IsReset(op) /\ op \in TimeScaling
  /\ left >= 3 \/ (left >= 1 /\ frame >= 3)
  /\ buffer' = Fresh
  /\ expands' = ExpandDecision(op)
  /\ CASE op = "PreemptiveExpand" -> mode' = "Normal" /\ left' \in {left - 1, left}
       [] left >= 3                -> mode' = "Normal" /\ left' \in {left - 2, left - 1}
       [] OTHER                    -> mode' = mode /\ left' = left - 1
  /\ UNCHANGED <<new_codec, end, nack, played, failed, frame, active>>
-----------------------------------------------------------------------------
(* ExtractPackets: after packet i of the buffer the loop goes on while more   *)
(* samples are required and the next packet follows on.                       *)
GoesOn(buf, i, required) ==
  /\ ((buf[i].ts - buf[1].ts) % TsSpace) + buf[i].dur < required
  /\ i < Len(buf)
  /\ buf[i + 1].pt = buf[1].pt
  /\ (buf[i + 1].seq - buf[i].seq) % SeqSpace \in {0, 1}
  /\ (buf[i + 1].ts - buf[i].ts) % TsSpace <= buf[i].dur

IsExtracted(buf, n, required) ==
  /\ \A i \in 1..(n - 1) : GoesOn(buf, i, required)
  /\ ~ GoesOn(buf, n, required)

(* Merge asks for 10 ms of every channel, in what the others count per        *)
(* channel.                                                                   *)
RequiredSamples(op) ==
  CASE op \in TimeScaling /\ left < 2 /\ frame < 3 -> 2
    [] op = "Merge"                                -> Channels
    [] OTHER                                       -> 1

Duration(frames) == FoldLeft(LAMBDA sum, p : sum + p.dur, 0, frames)

TrackDecoded(p) ==
  nack' = UpdateLastDecodedPacket(nack, p.seq, p.ts)

(* With 30 ms decoded there is enough to accelerate.                          *)
Accelerates(op, frames) ==
  /\ op = "Accelerate" /\ RequiredSamples(op) = 1
  /\ left + Duration(frames) >= 3

(* Decode and the operation: every frame is decoded, or the decoder fails at  *)
(* one of them and the output is concealed.                                   *)
DecodeAll(op, frames) ==
  LET now == left + Duration(frames) - 1
  IN  /\ played' = frames[Len(frames)].pos
      /\ end' = (frames[1].ts + Duration(frames)) % TsSpace
      /\ frame' = frames[Len(frames)].dur
      /\ mode' = "Normal"
      /\ left' \in CASE Accelerates(op, frames)   -> {now - 1, now}
                     [] op = "PreemptiveExpand" -> {now, now + 1}
                     [] op = "Merge"            -> {now - 1, now}
                     [] OTHER                   -> {now}
      /\ left' >= 0

DecodeError(frames) ==
  \E bad \in 1..Len(frames) :
    /\ frame' = IF bad = 1 THEN frame ELSE frames[bad - 1].dur
    /\ end' = (frames[1].ts + frame') % TsSpace
    /\ played' = frames[IF bad = 1 THEN 1 ELSE bad - 1].pos
    /\ Conceal(frames[1].pt)

DecodePackets(decision) ==
  LET buf == Fresh
      op  == IF IsReset(decision) THEN "Normal" ELSE decision
  IN  /\ ~ Enough(decision) /\ op # "Expand" /\ buf # <<>>
      /\ op \in TimeScaling => left < 1 \/ (left < 3 /\ frame < 3)
      /\ expands' = ExpandDecision(decision)
      /\ \E n \in 1..Len(buf) :
           LET frames == SubSeq(buf, 1, n)
           IN  /\ IsExtracted(buf, n, RequiredSamples(op))
               /\ buffer' = DiscardAllOldPackets(SubSeq(buf, n + 1, Len(buf)),
                                                 frames[n].ts)
               /\ DecodeAll(op, frames) \/ DecodeError(frames)
      /\ TrackDecoded(buf[1])
      /\ failed' = (failed \/ ~ UpdateLastDecodedAssert(nack, buf[1].seq))
      /\ active' = buf[1].pt
      /\ new_codec' = FALSE

GetAudio ==
  /\ \E op \in GetDecision(Fresh) :
       \/ PlayBuffered(op)
       \/ PacketMissing(op)
       \/ Expand(op)
       \/ Stretch(op)
       \/ DecodePackets(op)
  /\ UNCHANGED <<network, calls, current, registered, first_packet, scaler,
                 received, origin>>
-----------------------------------------------------------------------------
Called == /\ calls < MaxCalls /\ inserts + calls < MaxInputs
          /\ calls' = calls + 1

FlushBuffers ==
  /\ Called
  /\ buffer' = <<>> /\ end' = 0 /\ left' = 0
  /\ first_packet' = TRUE
  /\ UNCHANGED <<network, current, decoders, new_codec, scaler, mode, expands, nack,
                 received, origin, played, failed>>

RemovePayloadType(pt) ==
  /\ Called
  /\ pt \in registered
  /\ registered' = registered \ {pt}
  /\ active' = IF active = pt THEN NoType ELSE active
  /\ buffer' = DiscardPacketsWithPayloadType(buffer, pt)
  /\ UNCHANGED <<network, current, frame, first_packet, new_codec, scaler,
                 sync, mode, expands, nack, received, origin, played, failed>>

Next ==
  \/ \E k \in Packets :
       InsertPacketInternal(k) \/ InsertUnparsed(k) \/ RejectPacket(k)
  \/ GetAudio
  \/ FlushBuffers
  \/ \E pt \in PayloadTypes : RemovePayloadType(pt)

(* The audio device asks for 10 ms for ever.                                  *)
Spec == Init /\ [][Next]_vars /\ WF_vars(GetAudio)
-----------------------------------------------------------------------------
TypeOK ==
  /\ newest \in -1..LastPacket /\ inserts + calls \in 0..MaxInputs
  /\ \A i \in 1..Len(buffer) : buffer[i].pt \in PayloadTypes
  /\ current \in PayloadTypes \union {NoType}
  /\ registered \subseteq PayloadTypes
  /\ active \in registered \union {NoType}
  /\ mode \in Concealing \union {"Normal", "Error"}
  /\ expands \in 0..(ReinitAfterExpands + 1)
  /\ end \in 0..(TsSpace - 1) /\ left \in Nat

(* The jitter buffer never holds more than its capacity, and its packets are  *)
(* in the order of the sender's stream, one per position, however they came   *)
(* and across the wrap of timestamps (PacketBuffer::InsertPacket).            *)
BufferInOrder ==
  /\ Len(buffer) <= MaxNumberOfPackets
  /\ \A i \in 1..(Len(buffer) - 1) : buffer[i].pos < buffer[i + 1].pos

(* All packets in the buffer are of the current payload type and have a       *)
(* decoder, as ExtractPackets and the assertion on the decoder in Decode      *)
(* need: a change of codec flushes, removing a payload type discards.         *)
OneKnownCodec ==
  \A i \in 1..Len(buffer) : buffer[i].pt = current /\ buffer[i].pt \in registered

(* Except after a reset (new_codec_), nothing that GetAudio may decode next   *)
(* lies at or before what it has decoded: no frame is played twice or out of  *)
(* order (DiscardOldPackets and the end timestamp of the sync buffer).        *)
PlaysForward ==
  ~ new_codec => \A i \in 1..Len(Fresh) : Fresh[i].pos > played

(* The packet with sequence number n, and the newest one received.            *)
Unwrapped(n) == CHOOSE k \in (0 - SeqSpace \div 2)..LastPacket :
                  SeqNumber(k) = n /\ k > newest - SeqSpace \div 2
Newest == CHOOSE k \in received : \A j \in received : j <= k

(* Every number on the NACK list belongs to a packet not received since the   *)
(* list was reset, between what was decoded and the newest, no older than the *)
(* list's limit, and marked missing exactly when the threshold has passed.    *)
NackSound ==
  \A n \in DOMAIN nack.list :
    LET k == Unwrapped(n)
    IN  /\ k \notin received
        /\ k < Newest /\ k >= Newest - MaxNackListSize
        /\ IsNewerSequenceNumber(n, nack.seq_decoded)
        /\ nack.list[n].missing <=> k < Newest - NackThresholdPackets

(* What the list may take for the RTP timestamp of a packet: it lies evenly   *)
(* between those of two packets received before and after it.                 *)
Estimates(k) ==
  {(stream[a].ts
      + (k - a) * (((stream[b].ts - stream[a].ts) % TsSpace) \div (b - a))) % TsSpace :
     a \in {j \in received : j < k}, b \in {j \in received : j > k}}

(* A packet lost between two received ones is on the list, unless it is older *)
(* than the limit, than the last packet decoded, or than its playout time.    *)
NackComplete ==
  \A k \in (origin + 1)..newest :
    \/ k \in received \/ k > Newest
    \/ SeqNumber(k) \in DOMAIN nack.list
    \/ k < Newest - MaxNackListSize
    \/ ~ IsNewerSequenceNumber(SeqNumber(k), nack.seq_decoded)
    \/ \E ts \in Estimates(k) : ~ IsNewerTimestamp(ts, nack.ts_decoded)

(* The timestamp of a lost packet is estimated from two packets received      *)
(* around it, so it is the sender's unless the sender changed the duration of *)
(* its packets between the two; and if no timestamp is scaled, its time to    *)
(* play is what lies between the packet decoded last and that estimate        *)
(* (NackTracker::EstimateTimestamp and UpdateLastDecodedPacket).              *)
NackTimes ==
  \A n \in DOMAIN nack.list :
    LET k == Unwrapped(n)
        e == nack.list[n]
    IN  /\ e.est \in Estimates(k)
        /\ (\A j \in received : Scale(stream[j].pt) = 1)
             => e.ttp = TimeToPlay(nack, e.est)

(* Whatever arrives, GetAudio leaves no packet in the buffer for ever: the    *)
(* decision logic does not expand without end while it has something to play. *)
Drains == <>[](buffer = <<>>)

(* UpdateLastDecodedPacket's assertion: the packet decoded is newer than the  *)
(* last one, or the same.                                                     *)
DecodedNotOlder == ~ failed
=============================================================================
