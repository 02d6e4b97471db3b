---------------------------- MODULE SwapQueueUsers ----------------------------
(* Two users of SwapQueue in AudioProcessingImpl, each with a queue of its own: *)
(* RuntimeSettings and StatsReporter.                                           *)
EXTENDS Integers, Sequences, FiniteSets

CONSTANTS PipeSize, MaxSettings, Modulus, Attempts, Kinds, KindOf, Active,
          Overlap, Monitors, MaxFrames, Proxy

VARIABLES pipe, pipe_elements, pipe_write_index, pipe_read_index, pipe_pc,
          setting, index, offered, remaining, last, handled, discarded, applied,
          frame, reported, slot, cached, crit_stats, stats_pc, floor, got

R == INSTANCE RuntimeSettings WITH
       Size <- PipeSize, queue <- pipe, num_elements <- pipe_elements,
       next_write_index <- pipe_write_index,
       next_read_index <- pipe_read_index, pc <- pipe_pc
S == INSTANCE StatsReporter WITH pc <- stats_pc

ASSUME UsersAssumption == R!RuntimeSettingsAssumption /\ S!StatsAssumption

pipeVars == <<pipe, pipe_elements, pipe_write_index, pipe_read_index, pipe_pc,
              setting, index, offered, remaining, last, handled, discarded,
              applied>>
statsVars == <<frame, reported, slot, cached, crit_stats, stats_pc, floor, got>>

(* Between calls every setting is handled, discarded or pending, exactly      *)
(* once, and the pending ones are the latest (RuntimeSettings).               *)
LatestPending == R!LatestPending

(* What is in effect catches up, again and again, with the latest setting of  *)
(* each type that was not discarded (RuntimeSettings).                        *)
CatchesUp == R!CatchesUp

(* GetStatistics() returns statistics at least as recent as those reported    *)
(* when it was called (StatsReporter).                                        *)
MostRecent == S!MostRecent
===============================================================================
