------------------------------ MODULE NackTracker ------------------------------
(* The list of lost packets NetEq asks to have sent again (nack_tracker.cc),  *)
(* as operators on a record t whose fields are the members of the class.      *)
(* nack_list_ maps a sequence number to [ttp, est, missing]: time_to_play_ms, *)
(* estimated_timestamp and is_missing.  Time runs in steps of 10 ms, one unit *)
(* of timestamp each.                                                         *)
EXTENDS PacketBuffer, TLC

CONSTANTS NackThresholdPackets,   \* nack_threshold_packets_
          MaxNackListSize,        \* max_nack_list_size_
          DefaultSamples          \* kDefaultPacketSizeMs at the sample rate

Reset ==
  [seq_received |-> 0, ts_received |-> 0, any_received |-> FALSE,
   seq_decoded |-> 0, ts_decoded |-> 0, any_decoded |-> FALSE,
   samples_per_packet |-> DefaultSamples, list |-> <<>>]

(* upper_bound and erase: what is left of the list is newer than the limit.   *)
EraseUpTo(list, limit) ==
  Restrict(list, {n \in DOMAIN list : IsNewerSequenceNumber(n, limit)})

TimeToPlay(t, ts) == (ts - t.ts_decoded) % TsSpace

EstimateTimestamp(t, n) ==
  (((n - t.seq_received) % SeqSpace) * t.samples_per_packet + t.ts_received)
    % TsSpace

(* Sequence numbers older than this one are missing, the others late.         *)
IsMissing(n, current) ==
  IsNewerSequenceNumber((current - NackThresholdPackets) % SeqSpace, n)

ChangeFromLateToMissing(list, current) ==
  [n \in DOMAIN list |->
     [list[n] EXCEPT !.missing = @ \/ IsMissing(n, current)]]

(* AddToList: the numbers between the last packet received and this one.      *)
Gap(t, current) ==
  {n \in 0..(SeqSpace - 1) : /\ IsNewerSequenceNumber(n, t.seq_received)
                           /\ IsNewerSequenceNumber(current, n)}

AddToList(t, current) ==
  [n \in Gap(t, current) |->
     LET ts == EstimateTimestamp(t, n)
     IN  [ttp |-> TimeToPlay(t, ts), est |-> ts,
          missing |-> IsMissing(n, current)]]

(* Limits the list to one packet less.                                        *)
Mut_LimitNackListSize(t) ==
  [t EXCEPT !.list = EraseUpTo(@, (t.seq_received - MaxNackListSize) % SeqSpace)]

LimitNackListSize(t) ==
  [t EXCEPT !.list =
     EraseUpTo(@, (t.seq_received - MaxNackListSize - 1) % SeqSpace)]

UpdateSamplesPerPacket(t, seq, ts) ==
  ((ts - t.ts_received) % TsSpace) \div ((seq - t.seq_received) % SeqSpace)

(* Whether UpdateLastReceivedPacket gets past its early returns.              *)
Advances(t, seq) ==
  /\ t.any_received
  /\ seq # t.seq_received
  /\ ~ IsNewerSequenceNumber(t.seq_received, seq)

FirstReceived(t, seq, ts) ==
  [t EXCEPT !.seq_received = seq, !.ts_received = ts, !.any_received = TRUE,
            !.seq_decoded = IF t.any_decoded THEN @ ELSE seq,
            !.ts_decoded = IF t.any_decoded THEN @ ELSE ts]

(* Leaves a packet that is received late on the list.                         *)
Mut_UpdateLastReceivedPacket(t, seq, ts) ==
  CASE ~ t.any_received -> FirstReceived(t, seq, ts)
    [] t.any_received /\ ~ Advances(t, seq) -> t
    [] OTHER ->
         LET u == [t EXCEPT !.samples_per_packet =
                              UpdateSamplesPerPacket(t, seq, ts)]
         IN  LimitNackListSize(
               [u EXCEPT !.list = ChangeFromLateToMissing(@, seq)
                                    @@ AddToList(u, seq),
                         !.seq_received = seq, !.ts_received = ts])

UpdateLastReceivedPacket(t, seq, ts) ==
  CASE ~ t.any_received -> FirstReceived(t, seq, ts)
    [] t.any_received /\ seq = t.seq_received -> t
    [] t.any_received /\ IsNewerSequenceNumber(t.seq_received, seq) ->
         [t EXCEPT !.list = Restrict(@, (DOMAIN @) \ {seq})]
    [] OTHER ->
         LET u == [t EXCEPT !.samples_per_packet =
                              UpdateSamplesPerPacket(t, seq, ts),
                            !.list = Restrict(@, (DOMAIN @) \ {seq})]
         IN  LimitNackListSize(
               [u EXCEPT !.list = ChangeFromLateToMissing(@, seq)
                                    @@ AddToList(u, seq),
                         !.seq_received = seq, !.ts_received = ts])

(* UpdateEstimatedPlayoutTimeBy10ms: the oldest elements go while they have   *)
(* 10 ms left or less, and the others come 10 ms nearer.                      *)
UpdateEstimatedPlayoutTimeBy10ms(list) ==
  LET Stays(n) == \E m \in DOMAIN list :
                    /\ ~ IsNewerSequenceNumber(m, n)
                    /\ list[m].ttp > 1
  IN  [n \in {m \in DOMAIN list : Stays(m)} |->
         [list[n] EXCEPT !.ttp = @ - 1]]

TakesDecoded(t, seq) ==
  IsNewerSequenceNumber(seq, t.seq_decoded) \/ ~ t.any_decoded

(* The assertion of UpdateLastDecodedPacket.                                  *)
UpdateLastDecodedAssert(t, seq) == TakesDecoded(t, seq) \/ seq = t.seq_decoded

(* Does not compute the times to play anew.                                   *)
Mut_UpdateLastDecodedPacket(t, seq, ts) ==
  IF TakesDecoded(t, seq)
  THEN [t EXCEPT !.seq_decoded = seq, !.ts_decoded = ts, !.any_decoded = TRUE,
                 !.list = EraseUpTo(@, seq)]
  ELSE [t EXCEPT !.list = UpdateEstimatedPlayoutTimeBy10ms(@),
                 !.ts_decoded = (@ + 1) % TsSpace, !.any_decoded = TRUE]

UpdateLastDecodedPacket(t, seq, ts) ==
  IF TakesDecoded(t, seq)
  THEN LET u == [t EXCEPT !.seq_decoded = seq, !.ts_decoded = ts,
                          !.any_decoded = TRUE, !.list = EraseUpTo(@, seq)]
       IN  [u EXCEPT !.list =
              [n \in DOMAIN u.list |->
                 [u.list[n] EXCEPT !.ttp = TimeToPlay(u, u.list[n].est)]]]
  ELSE [t EXCEPT !.list = UpdateEstimatedPlayoutTimeBy10ms(@),
                 !.ts_decoded = (@ + 1) % TsSpace, !.any_decoded = TRUE]
=============================================================================
