------------------------------- MODULE MCNetEq -------------------------------
(* Streams of a few packets that wrap both their sequence numbers and their   *)
(* timestamps, and whose sender changes codec, and with it the duration of    *)
(* its packets, after two of them.                                            *)
EXTENDS NetEq

MCPayloadTypes == {"ilbc", "g722", "opus"}
MCSplitTypes == {"ilbc", "g722"}
MCFixedTypes == {"ilbc"}
MCScaledTypes == {"g722"}
MCDur == [pt \in MCPayloadTypes |-> IF pt = "opus" THEN 2 ELSE 4]
MCStreams == {[k \in Packets |-> IF k < 2 THEN pt ELSE "opus"] : pt \in MCSplitTypes}
=============================================================================
