------------------------------- MODULE ApmState -------------------------------
(***************************************************************************)
(* What AudioProcessingImpl holds under its two locks, as one record, and  *)
(* the functions that rebuild it: each operator returns the record as the  *)
(* C++ function of that name leaves it.                                    *)
(*                                                                         *)
(* A submodule is represented by the rate and the numbers of channels it   *)
(* was created for, an AudioBuffer by the formats it converts between, and *)
(* a render queue by the sizes of its elements.  No submodule is injected, *)
(* linear AEC output is not exported and no AecDump is attached.           *)
(***************************************************************************)
EXTENDS ApmFormats, Sequences

CONSTANT None  \* a null pointer

ASSUME NoneAssumption == None \notin [rate : Nat, rch : Nat, cch : Nat]

(* The members of Config that matter here.  hpf_full is                    *)
(* high_pass_filter.apply_in_full_band, enforce is                         *)
(* echo_canceller.enforce_high_pass_filtering, analog is                   *)
(* gain_controller1.analog_gain_controller.enabled, le is                  *)
(* level_estimation.enabled.                                               *)
DefaultConfig ==
  [aec |-> FALSE, mobile |-> FALSE, enforce |-> TRUE, ns |-> FALSE,
   agc1 |-> FALSE, analog |-> TRUE, agc2 |-> FALSE, hpf |-> FALSE,
   hpf_full |-> TRUE, vad |-> FALSE, ts |-> FALSE, pre |-> FALSE,
   red |-> TRUE, le |-> FALSE, multi_render |-> FALSE,
   multi_capture |-> FALSE, max_rate |-> 48000]

(* What the members may be; the maximum rate is asserted. *)
ConfigType ==
  [aec : BOOLEAN, mobile : BOOLEAN, enforce : BOOLEAN, ns : BOOLEAN,
   agc1 : BOOLEAN, analog : BOOLEAN, agc2 : BOOLEAN, hpf : BOOLEAN,
   hpf_full : BOOLEAN, vad : BOOLEAN, ts : BOOLEAN, pre : BOOLEAN,
   red : BOOLEAN, le : BOOLEAN, multi_render : BOOLEAN,
   multi_capture : BOOLEAN, max_rate : {32000, 48000}]

(* The constructor. *)
DefaultStream == Stream(16000, 1)
NewApm ==
  [config |-> DefaultConfig,
   api |-> [input |-> DefaultStream, output |-> DefaultStream,
            rin |-> DefaultStream, rout |-> DefaultStream],
   capture_rate |-> 16000, render |-> DefaultStream, ec_enabled |-> FALSE,
   states |-> [hpf |-> FALSE, aecm |-> FALSE, red |-> FALSE, ns |-> FALSE,
               agc |-> FALSE, agc2 |-> FALSE, pre |-> FALSE, ec |-> FALSE,
               vad |-> FALSE, ts |-> FALSE],
   first_update |-> TRUE,
   render_audio |-> None, capture_audio |-> None, fullband |-> FALSE,
   ec |-> None, aecm |-> None, ns |-> None, agc |-> None, agc_manager |-> None,
   agc2 |-> None, hpf |-> None, vad |-> None, ts |-> None, pre |-> FALSE,
   le |-> FALSE, aecm_queue |-> None, agc_queue |-> <<>>, red_queue |-> <<>>,
   delay_set |-> FALSE]

NumProcChannels(a) == IF a.ec_enabled /\ ~ a.config.multi_capture
                        THEN 1 ELSE a.api.output.ch
FullbandRate(a) == IF a.fullband THEN a.api.output.rate ELSE a.capture_rate

-----------------------------------------------------------------------------
(* UpdateActiveSubmoduleStates() *)
CurrentStates(a) ==
  [hpf |-> a.config.hpf, aecm |-> a.aecm # None, red |-> a.config.red,
   ns |-> a.ns # None, agc |-> a.agc # None, agc2 |-> a.agc2 # None,
   pre |-> a.config.pre, ec |-> a.ec_enabled, vad |-> a.config.vad,
   ts |-> a.ts # None]

(* What its result says: the next capture call must reinitialize. *)
StatesChanged(a) == a.first_update \/ a.states # CurrentStates(a)
Update(a) == [a EXCEPT !.states = CurrentStates(a), !.first_update = FALSE]

-----------------------------------------------------------------------------
(* The Initialize...() functions of the submodules *)

InitializeGainController1(a) ==
  IF ~ a.config.agc1
    THEN [a EXCEPT !.agc = None, !.agc_manager = None]
    ELSE [a EXCEPT !.agc = Stream(a.capture_rate, NumProcChannels(a)),
                   !.agc_manager =
                      IF a.config.analog
                        THEN Stream(SplitRate(a.capture_rate),
                                    NumProcChannels(a))
                        ELSE None]

InitializeTransientSuppressor(a) ==
  [a EXCEPT !.ts = IF a.config.ts
                     THEN [rate |-> FullbandRate(a), ch |-> NumProcChannels(a),
                           split |-> SplitRate(a.capture_rate)]
                     ELSE None]

InitializeHighPassFilter(a) ==
  LET needed_by_aec == a.config.aec /\ a.config.enforce /\ ~ a.config.mobile
  IN [a EXCEPT !.hpf =
        IF ~ (HighPassFilteringRequired(a.states) \/ needed_by_aec)
          THEN None
        ELSE IF a.config.hpf_full
          THEN Stream(FullbandRate(a), a.api.output.ch)
          ELSE Stream(SplitRate(a.capture_rate), NumProcChannels(a))]

InitializeVoiceDetector(a) ==
  [a EXCEPT !.vad = IF a.config.vad THEN SplitRate(a.capture_rate) ELSE None]

(* The echo controller is created with the number of channels of the       *)
(* moment, before echo_controller_enabled says that there is one.          *)
CreateEchoController(a, reverse_channels) ==
  [a EXCEPT !.ec = [rate |-> a.capture_rate, rch |-> reverse_channels,
                    cch |-> NumProcChannels(a)],
            !.ec_enabled = TRUE]
CreateAecm(a, queue) ==
  [a EXCEPT !.ec = None, !.ec_enabled = FALSE, !.aecm_queue = queue,
            !.aecm = [rate |-> SplitRate(a.capture_rate), rch |-> a.render.ch,
                      och |-> a.api.output.ch]]
RemoveAecm(a) == [a EXCEPT !.aecm = None, !.aecm_queue = None]
RemoveEchoController(a) == [a EXCEPT !.ec = None, !.ec_enabled = FALSE]

(* Keeps the queue of the previous AECM. *)
Mut_KeepQueue(a) ==
  IF a.config.aec /\ ~ a.config.mobile
    THEN RemoveAecm(CreateEchoController(a, a.render.ch))
  ELSE IF a.config.aec
    THEN CreateAecm(a, IF a.aecm_queue = None THEN <<>> ELSE a.aecm_queue)
  ELSE RemoveAecm(RemoveEchoController(a))
(* Takes the channels of the reverse stream before downmixing. *)
Mut_ApiChannels(a) ==
  IF a.config.aec /\ ~ a.config.mobile
    THEN RemoveAecm(CreateEchoController(a, a.api.rin.ch))
  ELSE IF a.config.aec THEN CreateAecm(a, <<>>)
  ELSE RemoveAecm(RemoveEchoController(a))

InitializeEchoController(a) ==
  IF a.config.aec /\ ~ a.config.mobile
    THEN RemoveAecm(CreateEchoController(a, a.render.ch))
  ELSE IF a.config.aec THEN CreateAecm(a, <<>>)
  ELSE RemoveAecm(RemoveEchoController(a))

InitializeGainController2(a) ==
  [a EXCEPT !.agc2 = IF a.config.agc2 THEN FullbandRate(a) ELSE None]

(* Keeps a suppressor that is there already. *)
Mut_InitializeNoiseSuppressor(a) ==
  [a EXCEPT !.ns = IF ~ a.config.ns THEN None
                   ELSE IF a.ns # None THEN a.ns
                   ELSE Stream(a.capture_rate, NumProcChannels(a))]

InitializeNoiseSuppressor(a) ==
  [a EXCEPT !.ns = IF a.config.ns
                     THEN Stream(a.capture_rate, NumProcChannels(a))
                     ELSE None]

InitializePreAmplifier(a) == [a EXCEPT !.pre = a.config.pre]

-----------------------------------------------------------------------------
(* InitializeLocked() *)

AllocateBuffers(a) ==
  LET in == a.api.input
      out == a.api.output
  IN [a EXCEPT !.render_audio = IF a.api.rin.ch > 0
                                  THEN [from |-> a.api.rin, buf |-> a.render]
                                  ELSE None,
               !.capture_audio = [from |-> in, to |-> out,
                                  buf |-> Stream(a.capture_rate, out.ch)],
               !.fullband = a.capture_rate < out.rate /\ out.rate = 48000]

(* Does not clear the queue of the gain control. *)
Mut_AllocateRenderQueue(a) == [a EXCEPT !.red_queue = <<>>]

(* AllocateRenderQueue(): a new queue, or Clear(). *)
AllocateRenderQueue(a) == [a EXCEPT !.agc_queue = <<>>, !.red_queue = <<>>]

InitializeLocked(a) ==
  LET b == AllocateRenderQueue(AllocateBuffers(Update(a)))
      c == InitializeHighPassFilter(
             InitializeTransientSuppressor(InitializeGainController1(b)))
      d == InitializeEchoController(InitializeVoiceDetector(c))
  IN InitializeNoiseSuppressor(InitializeGainController2(d))

(* InitializeLocked(config): a format that is not acceptable leaves only   *)
(* the submodule states changed.                                           *)
InitializeLockedWith(a, api) ==
  LET b == Update(a)
  IN IF AcceptableFormat(api)
       THEN InitializeLocked(
              [b EXCEPT !.api = api,
                        !.capture_rate = CaptureRate(api, b.config, b.states),
                        !.render = RenderFormat(api, b.config, b.states,
                                                b.ec_enabled)])
       ELSE b

-----------------------------------------------------------------------------
(* ApplyConfig(): only the submodules whose settings changed are rebuilt.  *)
(* Every gain_controller2 setting is taken to be valid: the default that   *)
(* replaces one that Validate() refuses is left out.                       *)
When(changed, Op(_), a) == IF changed THEN Op(a) ELSE a

ApplyConfig(a, config) ==
  LET Changed(fields) == \E f \in fields : a.config[f] # config[f]
      b == When(Changed({"aec", "mobile"}), InitializeEchoController,
                [a EXCEPT !.config = config])
      c == When(Changed({"ts"}), InitializeTransientSuppressor,
                When(Changed({"ns"}), InitializeNoiseSuppressor, b))
      d == When(Changed({"agc1", "analog"}),
                InitializeGainController1, InitializeHighPassFilter(c))
      e == When(Changed({"pre"}), InitializePreAmplifier,
                When(Changed({"agc2"}), InitializeGainController2, d))
      f == When(Changed({"vad"}), InitializeVoiceDetector,
                [e EXCEPT !.le = @ \/ config.le])
  IN IF Changed({"multi_render", "multi_capture", "max_rate"})
       THEN InitializeLockedWith(f, f.api)
       ELSE f
=============================================================================
