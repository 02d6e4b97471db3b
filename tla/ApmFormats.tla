------------------------------ MODULE ApmFormats ------------------------------
(***************************************************************************)
(* The formats AudioProcessingImpl works with, computed from the formats   *)
(* of the four API streams and from the submodules that are active.        *)
(* Rates are in Hz, a frame is 10 ms.                                      *)
(***************************************************************************)
EXTENDS Integers

(* StreamConfig and AudioBuffer *)
Stream(rate, ch) == [rate |-> rate, ch |-> ch]
StreamType == [rate : Int, ch : Nat]
NumFrames(rate) == rate \div 100
NumBands(frames) == IF frames = 320 THEN 2 ELSE IF frames = 480 THEN 3 ELSE 1
FramesPerBand(rate) == NumFrames(rate) \div NumBands(NumFrames(rate))
SampleRateSupportsMultiBand(rate) == rate \in {32000, 48000}
Smaller(a, b) == IF a <= b THEN a ELSE b
Larger(a, b) == IF a >= b THEN a ELSE b

-----------------------------------------------------------------------------
(* SubmoduleStates: which kinds of submodules process the two streams. *)
CaptureMultiBandProcessingPresent(s) == s.hpf \/ s.aecm \/ s.ns \/ s.agc \/ s.ec
CaptureMultiBandSubModulesActive(s) == CaptureMultiBandProcessingPresent(s)
                                       \/ s.vad
RenderMultiBandSubModulesActive(s) == s.aecm \/ s.agc \/ s.ec
HighPassFilteringRequired(s) == s.hpf \/ s.aecm \/ s.ns

-----------------------------------------------------------------------------

(* The smallest of 16, 32 and 48 kHz that is not below minimum_rate, up to *)
(* the uppermost rate.                                                     *)
SuitableProcessRate(minimum_rate, max_splitting_rate, band_splitting) ==
  LET uppermost == IF band_splitting THEN max_splitting_rate ELSE 48000
  IN IF minimum_rate <= 16000 /\ 16000 < uppermost THEN 16000
     ELSE IF minimum_rate <= 32000 /\ 32000 < uppermost THEN 32000
     ELSE uppermost

SplitRate(rate) == IF rate \in {32000, 48000} THEN 16000 ELSE rate

(* capture_processing_format: its rate. *)
CaptureRate(api, config, states) ==
  SuitableProcessRate(Smaller(api.input.rate, api.output.rate),
                      config.max_rate,
                      CaptureMultiBandSubModulesActive(states)
                      \/ RenderMultiBandSubModulesActive(states))

(* The rate the render stream is processed at, when it is processed: that  *)
(* of the capture stream for the echo controller.                          *)
RenderRate(api, config, states, ec_enabled) ==
  LET rate == IF ec_enabled
                THEN CaptureRate(api, config, states)
                ELSE SuitableProcessRate(
                       Smaller(api.rin.rate, api.rout.rate), config.max_rate,
                       CaptureMultiBandSubModulesActive(states)
                       \/ RenderMultiBandSubModulesActive(states))
  IN IF CaptureRate(api, config, states) = 8000 THEN 8000
     ELSE Larger(rate, 16000)

(* render_processing_format: mono by default, and the API format if no     *)
(* submodule works on the bands of the render stream.                      *)
RenderFormat(api, config, states, ec_enabled) ==
  IF RenderMultiBandSubModulesActive(states)
    THEN Stream(RenderRate(api, config, states, ec_enabled),
                IF config.multi_render THEN api.rin.ch ELSE 1)
    ELSE api.rin

(* The error returns of InitializeLocked(config). *)
AcceptableFormat(api) ==
  /\ \A s \in {api.input, api.output, api.rin, api.rout} :
        s.ch > 0 => s.rate > 0
  /\ api.input.ch > 0
  /\ api.output.ch = 1 \/ api.output.ch = api.input.ch
=============================================================================
