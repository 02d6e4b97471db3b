------------------------------- MODULE MCAec3 -------------------------------
(* AEC3 for TLC, its two halves side by side: a behaviour is one of the       *)
(* framing in EchoCanceller3 or one of the block processor, and the other     *)
(* stays in its initial state.                                                *)
EXTENDS BlockProcessor

CONSTANTS QueueSize, MaxFrames

VARIABLES machine,
          queue, accepted, pc, seen, captured, render_blocker, render_block,
          buffered, capture_blocker, capture_block, output_framer, capture

F == INSTANCE EchoCanceller3

ASSUME FramingAssumption == F!FramesAssumption

SomeEstimates == {0, 1, 3}
SomeDelays == {0, 20, 500}

framingVars == <<queue, accepted, pc, seen, captured, render_blocker,
                 render_block, buffered, capture_blocker, capture_block,
                 output_framer, capture>>

AllInit == machine \in {"framing", "blocks"} /\ Init /\ F!Init

AllNext == /\ UNCHANGED machine
           /\ \/ machine = "framing" /\ F!Next /\ UNCHANGED vars
              \/ machine = "blocks" /\ Next /\ UNCHANGED framingVars

AllSpec == AllInit /\ [][AllNext]_<<machine, vars, framingVars>>

(* AEC3 delays the capture signal by exactly one block, for ever              *)
(* (EchoCanceller3).                                                          *)
OutputDelayedByBlock == F!OutputDelayedByBlock

(* The block processor gets the render frames that the queue accepted as one  *)
(* unbroken stream, and before the capture blocks that follow them            *)
(* (EchoCanceller3).                                                          *)
RenderUnbroken == F!RenderUnbroken
==============================================================================
