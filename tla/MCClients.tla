------------------------------ MODULE MCClients ------------------------------
(* What surrounds AudioProcessingImpl, for TLC, side by side: a behaviour is  *)
(* one of the application's wrapper or one of the recording, and the other    *)
(* stays in its initial state.                                                *)
EXTENDS MCWrapper

CONSTANTS Dumps, Configs, Default, Limit, Bytes, RenderSettings, MaxEvents,
          MaxCalls

VARIABLES machine,
          queue, running, aec_dump, config, logged, crit_render, crit_capture,
          pc, old, calls, inputs, left, file, posted, alive, access_count,
          accessing, count

D == INSTANCE AecDump

ASSUME DumpAssumption == D!AecDumpAssumption

MCBytes == [CONFIG |-> 2, INIT |-> 1, STREAM |-> 3, REVERSE_STREAM |-> 2,
            RUNTIME_SETTING |-> 1]
MCLimit == <<5, -1>>

dumpVars == <<queue, running, aec_dump, config, logged, crit_render,
              crit_capture, pc, old, calls, inputs, left, file, posted, alive,
              access_count, accessing, count>>

AllInit == machine \in {"wrapper", "dump"} /\ Init /\ D!Init

AllNext == /\ UNCHANGED machine
           /\ \/ machine = "wrapper" /\ Next /\ UNCHANGED dumpVars
              \/ machine = "dump" /\ D!Next /\ UNCHANGED vars

AllSpec == AllInit /\ [][AllNext]_<<machine, vars, dumpVars>>

(* The file of a dump has the recorded events in their order, from the first  *)
(* one on and without a gap, up to its limit (AecDump).                       *)
FileIsPrefix == D!FileIsPrefix

(* When ~AecDumpImpl() has returned no task refers to the dump, and the file  *)
(* is complete or full (AecDump).                                             *)
DestroyedIsDone == D!DestroyedIsDone

(* A recording starts with the configuration, and tells the one in force      *)
(* while a frame is processed, whichever dump it was written to last          *)
(* (AecDump).                                                                 *)
ConfigRecorded == D!ConfigRecorded

(* A STREAM event has the input and the output of one call, and no input is   *)
(* in two events (AecDump).                                                   *)
StreamsArePairs == D!StreamsArePairs
==============================================================================
