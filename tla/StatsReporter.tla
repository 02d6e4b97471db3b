---------------------------- MODULE StatsReporter ----------------------------
(***************************************************************************)
(* ApmStatsReporter: the statistics of each capture frame go through a     *)
(* SwapQueue of size 1 to the threads that call GetStatistics().  Those    *)
(* threads are the consumer together, under crit_stats_; each operation of *)
(* the queue takes effect in one step, as BoundedQueue has it.             *)
(*                                                                         *)
(* The statistics of a frame are represented by its number; 0 is a         *)
(* default-constructed AudioProcessingStats.                               *)
(***************************************************************************)
EXTENDS Integers

CONSTANTS Monitors,   \* threads that call GetStatistics() now and then
          MaxFrames,  \* bound on the number of ProcessStream() calls
          Proxy       \* capture through ProcessAudioFrame()?

StatsAssumption == /\ MaxFrames \in Nat
                   /\ Proxy \in BOOLEAN
                   /\ "capture" \notin Monitors
                   /\ "free" \notin Monitors

VARIABLES frame,     \* ProcessStream() calls so far
          reported,  \* latest frame passed to UpdateStatistics()
          slot,      \* the element of stats_message_queue_, 0 if it is empty
          cached,    \* cached_stats_
          crit_stats,\* the owner of crit_stats_, or "free"
          pc,        \* where each thread is in GetStatistics()
          floor,     \* reported when the call began
          got        \* what the thread's latest call returned

vars == <<frame, reported, slot, cached, crit_stats, pc, floor, got>>

Threads == Monitors \cup {"capture"}
Goto(t, l) == pc' = [pc EXCEPT ![t] = l]

Init == /\ frame = 0 /\ reported = 0
        /\ slot = 0 /\ cached = 0
        /\ crit_stats = "free"
        /\ pc = [t \in Threads |-> "idle"]
        /\ floor = [t \in Threads |-> 0]
        /\ got = [t \in Threads |-> 0]

(* Reports the statistics of the frame before. *)
Mut_UpdateStatistics(f) == /\ reported' = f
                           /\ slot' = IF slot = 0 THEN f - 1 ELSE slot

(* The new statistics are discarded when the queue is full. *)
UpdateStatistics(f) == /\ reported' = f
                       /\ slot' = IF slot = 0 THEN f ELSE slot

(* One ProcessStream() call.  Every error return comes before the call of  *)
(* UpdateStatistics(); ProcessAudioFrame() calls GetStatistics() next,     *)
(* whatever the result.                                                    *)
ProcessStream ==
  /\ pc["capture"] = "idle"
  /\ frame < MaxFrames
  /\ frame' = frame + 1
  /\ \/ UpdateStatistics(frame + 1)
     \/ UNCHANGED <<reported, slot>>
  /\ IF Proxy THEN /\ Goto("capture", "lock")
                   /\ floor' = [floor EXCEPT !["capture"] = reported']
              ELSE UNCHANGED <<pc, floor>>
  /\ UNCHANGED <<cached, crit_stats, got>>

GetStatistics(t) == /\ t \in Monitors
                    /\ pc[t] = "idle"
                    /\ Goto(t, "lock")
                    /\ floor' = [floor EXCEPT ![t] = reported]
                    /\ UNCHANGED <<frame, reported, slot, cached, crit_stats,
                                   got>>

Lock(t) == /\ pc[t] = "lock"
           /\ crit_stats = "free"
           /\ crit_stats' = t
           /\ Goto(t, "remove")
           /\ UNCHANGED <<frame, reported, slot, cached, floor, got>>

Remove(t) == /\ pc[t] = "remove"
             /\ IF slot = 0 THEN UNCHANGED <<cached, slot>>
                            ELSE cached' = slot /\ slot' = 0
             /\ Goto(t, "return")
             /\ UNCHANGED <<frame, reported, crit_stats, floor, got>>

(* The copy of cached_stats_, before the CritScope ends. *)
Return(t) == /\ pc[t] = "return"
             /\ got' = [got EXCEPT ![t] = cached]
             /\ crit_stats' = "free"
             /\ Goto(t, "idle")
             /\ UNCHANGED <<frame, reported, slot, cached, floor>>

Next == \/ ProcessStream
        \/ \E t \in Threads : \/ GetStatistics(t) \/ Lock(t)
                              \/ Remove(t) \/ Return(t)

Spec == Init /\ [][Next]_vars

-----------------------------------------------------------------------------
TypeOK == /\ frame \in 0 .. MaxFrames
          /\ reported \in 0 .. frame
          /\ slot \in 0 .. reported
          /\ cached \in 0 .. reported
          /\ crit_stats \in Threads \cup {"free"}
          /\ pc \in [Threads -> {"idle", "lock", "remove", "return"}]
          /\ floor \in [Threads -> 0 .. reported]
          /\ got \in [Threads -> 0 .. reported]
          /\ \A t \in Threads :
               pc[t] \in {"remove", "return"} <=> crit_stats = t

(* GetStatistics() returns statistics at least as recent as those reported *)
(* when it was called: the comment of line 459 of audio_processing_impl.h. *)
(* In particular ProcessAudioFrame() sets vad_activity_ from the frame it  *)
(* just processed, although the monitors may empty the queue in between.   *)
MostRecent == \A t \in Threads : pc[t] = "idle" => got[t] >= floor[t]
=============================================================================
