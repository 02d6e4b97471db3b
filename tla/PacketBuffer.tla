----------------------------- MODULE PacketBuffer -----------------------------
(* The jitter buffer of NetEq (packet_buffer.cc, packet.h) as operators on a  *)
(* sequence of packets, and the wrapping comparison it shares with the NACK   *)
(* list (module_common_types_public.h).  A packet is a record                 *)
(*   [seq, ts, pt, level, dur, pos]:                                          *)
(* sequence_number, timestamp, payload_type, priority.codec_level, the        *)
(* duration of its frame, and pos, its unwrapped place in the sender's        *)
(* stream, which only the properties read.                                    *)
EXTENDS Integers, Sequences, SequencesExt

CONSTANTS TsSpace,                \* 2^32 in the code
          SeqSpace,               \* 2^16 in the code
          MaxNumberOfPackets    \* max_number_of_packets_

(* IsNewer<U>: values half the range apart are told apart by their size.      *)
IsNewer(value, prev, mod) ==
  IF value - prev = mod \div 2
  THEN value > prev
  ELSE value # prev /\ (value - prev) % mod < mod \div 2

IsNewerTimestamp(a, b) == IsNewer(a, b, TsSpace)

IsNewerSequenceNumber(a, b) == IsNewer(a, b, SeqSpace)

(* Compares timestamps that wrap as numbers.                                  *)
Mut_Before(a, b) == a.ts < b.ts

(* Packet::operator<: by timestamp, then sequence number, then priority.      *)
Before(a, b) ==
  CASE a.ts # b.ts   -> (b.ts - a.ts) % TsSpace < (TsSpace - 1) \div 2
    [] a.seq # b.seq -> (b.seq - a.seq) % SeqSpace < (SeqSpace - 1) \div 2
    [] OTHER         -> a.level < b.level

(* InsertPacket: a full buffer is flushed first; then the packet goes to the  *)
(* right of the last packet it is not before, unless that one has its         *)
(* timestamp, and replaces its right neighbour if that one has.               *)
IsFull(buffer) == Len(buffer) >= MaxNumberOfPackets

InsertPacket(buffer, p) ==
  LET kept == IF IsFull(buffer) THEN <<>> ELSE buffer
      left == SelectLastInSeq(kept, LAMBDA q : ~ Before(p, q))
      it   == left + 1
  IN  CASE left > 0 /\ kept[left].ts = p.ts        -> kept
        [] it <= Len(kept) /\ kept[it].ts = p.ts   -> ReplaceAt(kept, it, p)
        [] OTHER                                   -> InsertAt(kept, it, p)

(* IsObsoleteTimestamp; a horizon of 0 stands for half the range.             *)
IsObsoleteTimestamp(ts, limit, horizon) ==
  /\ IsNewerTimestamp(limit, ts)
  /\ \/ horizon = 0
     \/ IsNewerTimestamp(ts, (limit - horizon) % TsSpace)

DiscardOldPackets(buffer, limit, horizon) ==
  SelectSeq(buffer, LAMBDA p : ~ IsObsoleteTimestamp(p.ts, limit, horizon))

DiscardAllOldPackets(buffer, limit) == DiscardOldPackets(buffer, limit, 0)

DiscardPacketsWithPayloadType(buffer, pt) ==
  SelectSeq(buffer, LAMBDA p : p.pt # pt)
=============================================================================
