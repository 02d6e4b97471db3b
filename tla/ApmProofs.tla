------------------------------- MODULE ApmProofs -------------------------------
(***************************************************************************)
(* AudioProcessingImpl, for every set of configurations and of formats and *)
(* every size of the queues: first the functions that choose rates and     *)
(* bands, then what each function of ApmState does to the record it works  *)
(* on, then the threads.                                                   *)
(***************************************************************************)
EXTENDS Apm, TLAPS

-----------------------------------------------------------------------------
(* The formats. *)

NativeProcessRates == {16000, 32000, 48000}

(* SuitableProcessRate() returns 16, 32 or 48 kHz, so the assertions that  *)
(* the capture and render rates are not 8 kHz hold.                        *)
LEMMA SuitableIsNative ==
  ASSUME NEW minimum_rate \in Int, NEW max_splitting_rate \in {32000, 48000},
         NEW band_splitting \in BOOLEAN
  PROVE  SuitableProcessRate(minimum_rate, max_splitting_rate, band_splitting)
           \in NativeProcessRates
  BY DEF SuitableProcessRate, NativeProcessRates

(* It is as high as the rate asked for, up to the maximum: no bandwidth is *)
(* lost below the uppermost rate.                                          *)
THEOREM KeepsBandwidth ==
  ASSUME NEW minimum_rate \in Int, NEW max_splitting_rate \in {32000, 48000},
         NEW band_splitting \in BOOLEAN,
         minimum_rate <= max_splitting_rate
  PROVE  SuitableProcessRate(minimum_rate, max_splitting_rate, band_splitting)
           >= minimum_rate
  BY DEF SuitableProcessRate

(* A buffer at one of these rates has bands of exactly 160 frames, the     *)
(* size that the echo controller and the render queues require.            *)
LEMMA BandsOf160 ==
  ASSUME NEW rate \in NativeProcessRates
  PROVE  FramesPerBand(rate) = 160
<1>1. CASE rate = 16000
  BY <1>1 DEF FramesPerBand, NumFrames, NumBands
<1>2. CASE rate = 32000
  BY <1>2 DEF FramesPerBand, NumFrames, NumBands
<1>3. CASE rate = 48000
  BY <1>3 DEF FramesPerBand, NumFrames, NumBands
<1> QED
  BY <1>1, <1>2, <1>3 DEF NativeProcessRates

(* CaptureRate and RenderFormat read these of their arguments. *)
Formats(api, config) ==
  /\ \A s \in {api.input, api.output, api.rin, api.rout} : s.rate \in Int
  /\ config.max_rate \in {32000, 48000}
SubmoduleFlags(states) ==
  /\ RenderMultiBandSubModulesActive(states) \in BOOLEAN
  /\ CaptureMultiBandSubModulesActive(states) \in BOOLEAN

(* The capture stream is processed at 16, 32 or 48 kHz, whatever formats   *)
(* the API streams have.                                                   *)
THEOREM CaptureRateNative ==
  ASSUME NEW api, NEW config, NEW states, Formats(api, config),
         SubmoduleFlags(states)
  PROVE  CaptureRate(api, config, states) \in NativeProcessRates
<1>1. Smaller(api.input.rate, api.output.rate) \in Int
  BY DEF Smaller, Formats
<1> QED
  BY <1>1, SuitableIsNative DEF CaptureRate, Formats, SubmoduleFlags

(* When a submodule works on the bands of the render stream, the stream is *)
(* processed in bands of 160 frames, whatever rate it comes with: what     *)
(* QueueBandedRenderAudio() and EchoCanceller3 assert holds from the next  *)
(* reinitialization on.                                                    *)
THEOREM RenderBandsFit ==
  ASSUME NEW api, NEW config, NEW states, NEW ec_enabled \in BOOLEAN,
         Formats(api, config), SubmoduleFlags(states),
         RenderMultiBandSubModulesActive(states)
  PROVE  FramesPerBand(RenderFormat(api, config, states, ec_enabled).rate)
           = 160
<1> DEFINE capture == CaptureRate(api, config, states)
           rate == RenderRate(api, config, states, ec_enabled)
           splitting == CaptureMultiBandSubModulesActive(states)
                        \/ RenderMultiBandSubModulesActive(states)
           own == SuitableProcessRate(Smaller(api.rin.rate, api.rout.rate),
                                      config.max_rate, splitting)
<1>1. capture \in NativeProcessRates
  BY CaptureRateNative
<1>2. own \in NativeProcessRates
  <2>1. Smaller(api.rin.rate, api.rout.rate) \in Int
    BY DEF Smaller, Formats
  <2>2. splitting \in BOOLEAN
    BY DEF SubmoduleFlags
  <2>3. config.max_rate \in {32000, 48000}
    BY DEF Formats
  <2> HIDE DEF splitting
  <2> QED
    BY <2>1, <2>2, <2>3, SuitableIsNative
<1>3. rate = Larger(IF ec_enabled THEN capture ELSE own, 16000)
  BY <1>1 DEF RenderRate, NativeProcessRates
<1>4. rate \in NativeProcessRates
  BY <1>1, <1>2, <1>3 DEF Larger, NativeProcessRates
<1>5. RenderFormat(api, config, states, ec_enabled).rate = rate
  BY DEF RenderFormat, Stream
<1> QED
  BY <1>4, <1>5, BandsOf160

-----------------------------------------------------------------------------
(* The buffers and the AECM. *)

(* The members that the proofs speak about. *)
Tracked(a) == {"api", "render", "capture_audio", "render_audio", "aecm",
               "aecm_queue", "agc", "agc_queue", "red_queue"} \subseteq DOMAIN a

(* A sequence, of whatever elements. *)
IsSeq(s) == \E T : s \in Seq(T)

(* The buffers convert between the formats of the API. *)
Buffers(a) ==
  /\ a.capture_audio.from = a.api.input /\ a.capture_audio.to = a.api.output
  /\ a.api.rin.ch > 0 => /\ a.render_audio.from = a.api.rin
                         /\ a.render_audio.buf = a.render

(* An element of the queue of the AECM has the channels of the streams. *)
Shaped(a, e) == e.och = a.api.output.ch /\ e.rch = a.render.ch

(* The AECM was built for the streams, and its queue has nothing else. *)
Echo(a) ==
  a.aecm # None => /\ Shaped(a, a.aecm)
                   /\ IsSeq(a.aecm_queue)
                   /\ \A i \in DOMAIN a.aecm_queue : Shaped(a, a.aecm_queue[i])

(* The streams of ProcessingConfig. *)
Apis == {"input", "output", "rin", "rout"}

(* Everything that follows the formats does. *)
Valid(a) == Tracked(a) /\ DOMAIN a.api = Apis /\ Buffers(a) /\ Echo(a)

(* b has the streams, buffers and AECM of a. *)
Keeps(a, b) ==
  /\ DOMAIN b = DOMAIN a
  /\ b.api = a.api /\ b.render = a.render
  /\ b.capture_audio = a.capture_audio /\ b.render_audio = a.render_audio
  /\ b.aecm = a.aecm /\ b.aecm_queue = a.aecm_queue

(* A queue starts as a sequence, of whatever elements.                     *)
LEMMA EmptySeq == IsSeq(<<>>)
<1>1. <<>> \in Seq({})
  OBVIOUS
<1> QED
  BY <1>1 DEF IsSeq

(* Insert() keeps a queue a sequence and adds only the new element.        *)
LEMMA AppendSeq ==
  ASSUME NEW s, IsSeq(s), NEW e
  PROVE  /\ IsSeq(Append(s, e))
         /\ \A i \in DOMAIN Append(s, e) :
              Append(s, e)[i] = e \/ (i \in DOMAIN s /\ Append(s, e)[i] = s[i])
<1>1. PICK T : s \in Seq(T)
  BY DEF IsSeq
<1> DEFINE U == T \cup {e}
<1>2. s \in Seq(U) /\ e \in U
  BY <1>1
<1>3. Append(s, e) \in Seq(U)
  BY <1>2
<1>4. \A i \in DOMAIN Append(s, e) :
        Append(s, e)[i] = e \/ (i \in DOMAIN s /\ Append(s, e)[i] = s[i])
  BY <1>2
<1> QED
  BY <1>3, <1>4 DEF IsSeq

(* Remove() keeps a queue a sequence and adds nothing to it.               *)
LEMMA TailSeq ==
  ASSUME NEW s, IsSeq(s), s # <<>>
  PROVE  /\ IsSeq(Tail(s))
         /\ \A i \in DOMAIN Tail(s) : i + 1 \in DOMAIN s /\ Tail(s)[i] = s[i + 1]
<1>1. PICK T : s \in Seq(T)
  BY DEF IsSeq
<1>2. Tail(s) \in Seq(T)
  BY <1>1
<1>3. \A i \in DOMAIN Tail(s) : i + 1 \in DOMAIN s /\ Tail(s)[i] = s[i + 1]
  BY <1>1
<1> QED
  BY <1>2, <1>3 DEF IsSeq

(* What holds of the streams, buffers and AECM depends on them alone.      *)
LEMMA KeepsValid ==
  ASSUME NEW a, NEW b, Valid(a), Keeps(a, b)
  PROVE  Valid(b)
  BY DEF Valid, Keeps, Tracked, Buffers, Echo, Shaped

(* UpdateActiveSubmoduleStates() touches none of them.                     *)
LEMMA UpdateKeeps ==
  ASSUME NEW a
  PROVE  Keeps(a, Update(a))
  BY SMTT(30) DEF Update, Keeps

(* Neither do the Initialize...() functions of the other submodules.       *)
LEMMA SubmodulesKeep ==
  ASSUME NEW a
  PROVE  /\ Keeps(a, InitializeGainController1(a))
         /\ Keeps(a, InitializeTransientSuppressor(a))
         /\ Keeps(a, InitializeHighPassFilter(a))
         /\ Keeps(a, InitializeVoiceDetector(a))
         /\ Keeps(a, InitializeGainController2(a))
         /\ Keeps(a, InitializeNoiseSuppressor(a))
         /\ Keeps(a, InitializePreAmplifier(a))
         /\ Keeps(a, AllocateRenderQueue(a))
<1> USE DEF Keeps
<1>1. Keeps(a, InitializeGainController1(a))
  BY DEF InitializeGainController1
<1>2. Keeps(a, InitializeTransientSuppressor(a))
  BY DEF InitializeTransientSuppressor
<1>3. Keeps(a, InitializeHighPassFilter(a))
  BY DEF InitializeHighPassFilter
<1>4. Keeps(a, InitializeVoiceDetector(a)) /\ Keeps(a, InitializeGainController2(a))
  BY DEF InitializeVoiceDetector, InitializeGainController2
<1>5. Keeps(a, InitializeNoiseSuppressor(a)) /\ Keeps(a, InitializePreAmplifier(a))
  BY DEF InitializeNoiseSuppressor, InitializePreAmplifier
<1>6. Keeps(a, AllocateRenderQueue(a))
  BY DEF AllocateRenderQueue
<1> QED
  BY <1>1, <1>2, <1>3, <1>4, <1>5, <1>6

(* InitializeEchoController() leaves the streams and buffers alone, and an *)
(* AECM comes with an empty queue and the channels of the moment.          *)
LEMMA EchoController ==
  ASSUME NEW a, Tracked(a)
  PROVE  LET b == InitializeEchoController(a)
         IN  /\ DOMAIN b = DOMAIN a
             /\ b.api = a.api /\ b.render = a.render
             /\ b.capture_audio = a.capture_audio /\ b.render_audio = a.render_audio
             /\ Echo(b)
<1> DEFINE b == InitializeEchoController(a)
<1>1. CASE a.config.aec /\ ~ a.config.mobile
  <2>1. b = RemoveAecm(CreateEchoController(a, a.render.ch))
    BY <1>1 DEF InitializeEchoController
  <2> QED
    BY <2>1 DEF RemoveAecm, CreateEchoController, Tracked, Echo
<1>2. CASE a.config.aec /\ a.config.mobile
  <2>1. b = CreateAecm(a, <<>>)
    BY <1>2 DEF InitializeEchoController
  <2>2. /\ DOMAIN b = DOMAIN a
        /\ b.api = a.api /\ b.render = a.render
        /\ b.capture_audio = a.capture_audio /\ b.render_audio = a.render_audio
        /\ b.aecm_queue = <<>>
        /\ b.aecm = [rate |-> SplitRate(a.capture_rate), rch |-> a.render.ch,
                     och |-> a.api.output.ch]
    BY <2>1 DEF CreateAecm, Tracked
  <2> HIDE DEF b
  <2>3. Echo(b)
    BY <2>2, EmptySeq DEF Echo, Shaped
  <2> QED
    BY <2>2, <2>3 DEF b
<1>3. CASE ~ a.config.aec
  <2>1. b = RemoveAecm(RemoveEchoController(a))
    BY <1>3 DEF InitializeEchoController
  <2> QED
    BY <2>1 DEF RemoveAecm, RemoveEchoController, Tracked, Echo
<1> QED
  BY <1>1, <1>2, <1>3

(* So it keeps everything consistent when it is called on its own.         *)
LEMMA EchoControllerValid ==
  ASSUME NEW a, Valid(a)
  PROVE  LET b == InitializeEchoController(a)
         IN  Valid(b) /\ b.api = a.api
<1> DEFINE b == InitializeEchoController(a)
<1>1. /\ DOMAIN b = DOMAIN a
      /\ b.api = a.api /\ b.render = a.render
      /\ b.capture_audio = a.capture_audio /\ b.render_audio = a.render_audio
      /\ Echo(b)
  BY EchoController DEF Valid
<1> HIDE DEF b
<1>2. Valid(b)
  BY <1>1 DEF Valid, Tracked, Buffers
<1> QED
  BY <1>1, <1>2 DEF b

(* Nothing is initialized.                                                 *)
LEMMA KeepsReflexive ==
  ASSUME NEW a
  PROVE  Keeps(a, a)
  BY DEF Keeps

(* Initializations one after the other.                                    *)
LEMMA KeepsTransitive ==
  ASSUME NEW a, NEW b, NEW c, Keeps(a, b), Keeps(b, c)
  PROVE  Keeps(a, c)
  BY DEF Keeps

(* InitializeLocked() makes the buffers and the AECM fit the API formats,  *)
(* whatever they were before, and does not change the formats.             *)
LEMMA InitializeLockedValid ==
  ASSUME NEW a, Tracked(a), DOMAIN a.api = Apis
  PROVE  LET b == InitializeLocked(a)
         IN  Valid(b) /\ b.api = a.api
<1> DEFINE u == Update(a)
           b == AllocateBuffers(u)
           c == InitializeVoiceDetector(InitializeHighPassFilter(
                  InitializeTransientSuppressor(InitializeGainController1(
                    AllocateRenderQueue(b)))))
           d == InitializeEchoController(c)
           e == InitializeNoiseSuppressor(InitializeGainController2(d))
<1>1. InitializeLocked(a) = e
  BY DEF InitializeLocked
<1>2. Keeps(a, u)
  BY UpdateKeeps
<1> HIDE DEF u
<1>3. Tracked(u) /\ u.api = a.api
  BY <1>2 DEF Keeps, Tracked
<1>4. DOMAIN b = DOMAIN u /\ b.api = u.api /\ Buffers(b)
  <2>1. /\ DOMAIN b = DOMAIN u /\ b.api = u.api /\ b.render = u.render
        /\ b.capture_audio = [from |-> u.api.input, to |-> u.api.output,
                              buf |-> Stream(u.capture_rate, u.api.output.ch)]
        /\ b.render_audio = IF u.api.rin.ch > 0
                              THEN [from |-> u.api.rin, buf |-> u.render] ELSE None
    BY <1>3 DEF AllocateBuffers, Tracked
  <2> HIDE DEF b
  <2> QED
    BY <2>1 DEF Buffers
<1> HIDE DEF b
<1>5. Keeps(b, c)
  BY SubmodulesKeep, KeepsTransitive
<1> HIDE DEF c
<1>6. /\ Tracked(c) /\ DOMAIN c.api = Apis /\ Buffers(c) /\ c.api = a.api
  BY <1>3, <1>4, <1>5 DEF Keeps, Tracked, Buffers
<1>7. /\ DOMAIN d = DOMAIN c
      /\ d.api = c.api /\ d.render = c.render
      /\ d.capture_audio = c.capture_audio /\ d.render_audio = c.render_audio
      /\ Echo(d)
  BY <1>6, EchoController
<1> HIDE DEF d
<1>8. Valid(d) /\ d.api = a.api
  BY <1>6, <1>7 DEF Valid, Tracked, Buffers
<1>9. Keeps(d, e)
  BY SubmodulesKeep, KeepsTransitive
<1> HIDE DEF e
<1>10. Valid(e) /\ e.api = a.api
  BY <1>8, <1>9, KeepsValid DEF Keeps
<1> QED
  BY <1>1, <1>10

(* InitializeLocked(config) installs the formats it is given, if they are  *)
(* acceptable, and keeps the old ones otherwise.                           *)
LEMMA InitializeLockedWithValid ==
  ASSUME NEW a, Valid(a), NEW api, DOMAIN api = Apis
  PROVE  LET b == InitializeLockedWith(a, api)
         IN  /\ Valid(b)
             /\ b.api = IF AcceptableFormat(api) THEN api ELSE a.api
<1> DEFINE u == Update(a)
           b == [u EXCEPT !.api = api,
                          !.capture_rate = CaptureRate(api, u.config, u.states),
                          !.render = RenderFormat(api, u.config, u.states,
                                                  u.ec_enabled)]
<1>1. InitializeLockedWith(a, api) = IF AcceptableFormat(api)
                                       THEN InitializeLocked(b) ELSE u
  BY DEF InitializeLockedWith
<1>2. Keeps(a, u)
  BY UpdateKeeps
<1> HIDE DEF u
<1>3. Valid(u) /\ u.api = a.api
  BY <1>2, KeepsValid DEF Keeps
<1>4. DOMAIN b = DOMAIN u /\ b.api = api
  BY <1>3 DEF Valid, Tracked
<1> HIDE DEF b
<1>5. Tracked(b)
  BY <1>3, <1>4 DEF Valid, Tracked
<1>6. Valid(InitializeLocked(b)) /\ InitializeLocked(b).api = api
  BY <1>4, <1>5, InitializeLockedValid
<1> QED
  BY <1>1, <1>3, <1>6

(* ApplyConfig() never leaves an AECM behind that does not fit, whichever  *)
(* submodules it rebuilds, and does not change the formats.                *)
LEMMA ApplyConfigValid ==
  ASSUME NEW a, Valid(a), NEW config
  PROVE  LET b == ApplyConfig(a, config)
         IN  Valid(b) /\ b.api = a.api
<1> DEFINE Changed(fields) == \E f \in fields : a.config[f] # config[f]
           z == [a EXCEPT !.config = config]
           b == When(Changed({"aec", "mobile"}), InitializeEchoController, z)
           c == When(Changed({"ts"}), InitializeTransientSuppressor,
                     When(Changed({"ns"}), InitializeNoiseSuppressor, b))
           d == When(Changed({"agc1", "analog"}),
                     InitializeGainController1, InitializeHighPassFilter(c))
           e == When(Changed({"pre"}), InitializePreAmplifier,
                     When(Changed({"agc2"}), InitializeGainController2, d))
           f == When(Changed({"vad"}), InitializeVoiceDetector,
                     [e EXCEPT !.le = @ \/ config.le])
<1>1. ApplyConfig(a, config)
        = IF Changed({"multi_render", "multi_capture", "max_rate"})
            THEN InitializeLockedWith(f, f.api) ELSE f
  BY DEF ApplyConfig
<1> HIDE DEF Changed
<1>2. Valid(z) /\ z.api = a.api
  <2>1. Keeps(a, z)
    BY DEF Keeps, Valid, Tracked
  <2> QED
    BY <2>1, KeepsValid, ZenonT(30) DEF Keeps
<1>3. Valid(b) /\ b.api = a.api
  <2> HIDE DEF z
  <2> QED
    BY <1>2, EchoControllerValid DEF When
<1> HIDE DEF b
<1>4. Keeps(b, c)
  <2> DEFINE n == When(Changed({"ns"}), InitializeNoiseSuppressor, b)
  <2>1. Keeps(b, n)
    BY SubmodulesKeep, KeepsReflexive DEF When
  <2> HIDE DEF n
  <2>2. Keeps(n, When(Changed({"ts"}), InitializeTransientSuppressor, n))
    BY SubmodulesKeep, KeepsReflexive DEF When
  <2> QED
    BY <2>1, <2>2, KeepsTransitive DEF n
<1> HIDE DEF c
<1>5. Keeps(c, d)
  <2> DEFINE n == InitializeHighPassFilter(c)
  <2>1. Keeps(c, n)
    BY SubmodulesKeep
  <2> HIDE DEF n
  <2>2. Keeps(n, When(Changed({"agc1", "analog"}), InitializeGainController1, n))
    BY SubmodulesKeep, KeepsReflexive DEF When
  <2> QED
    BY <2>1, <2>2, KeepsTransitive DEF n
<1> HIDE DEF d
<1>6. Keeps(d, e)
  <2> DEFINE n == When(Changed({"agc2"}), InitializeGainController2, d)
  <2>1. Keeps(d, n)
    BY SubmodulesKeep, KeepsReflexive DEF When
  <2> HIDE DEF n
  <2>2. Keeps(n, When(Changed({"pre"}), InitializePreAmplifier, n))
    BY SubmodulesKeep, KeepsReflexive DEF When
  <2> QED
    BY <2>1, <2>2, KeepsTransitive DEF n
<1> HIDE DEF e
<1>7. Keeps(e, f)
  <2> DEFINE g == [e EXCEPT !.le = @ \/ config.le]
  <2>1. Keeps(e, g)
    BY DEF Keeps
  <2> HIDE DEF g
  <2>2. Keeps(e, When(Changed({"vad"}), InitializeVoiceDetector, g))
    BY <2>1, SubmodulesKeep, KeepsTransitive DEF When
  <2> QED
    BY <2>2 DEF g
<1> HIDE DEF f
<1>8. Valid(f) /\ f.api = a.api
  BY <1>3, <1>4, <1>5, <1>6, <1>7, KeepsValid DEF Keeps
<1>9. /\ Valid(InitializeLockedWith(f, f.api))
      /\ InitializeLockedWith(f, f.api).api = f.api
  <2>1. DOMAIN f.api = Apis
    BY <1>8 DEF Valid
  <2> QED
    BY <1>8, <2>1, InitializeLockedWithValid
<1> QED
  BY <1>1, <1>8, <1>9

-----------------------------------------------------------------------------
(* The submodules and the rates. *)

(* b differs from a at most in the members of fields. *)
Only(a, b, fields) == /\ DOMAIN b = DOMAIN a
                      /\ \A x \in DOMAIN a \ fields : b[x] = a[x]

(* The members that the shapes depend on, and their types.  Every format is *)
(* acceptable: a call with one that is not can use up the news that a       *)
(* reinitialization is required without doing it.                           *)
Members == {"config", "api", "capture_rate", "render", "ec_enabled", "states",
            "first_update", "capture_audio", "ec", "aecm", "aecm_queue", "ns",
            "agc", "agc_queue", "hpf", "vad", "agc2", "ts"}
ApiType == [input : StreamType, output : StreamType,
            rin : StreamType, rout : StreamType]
Sound(api) == api \in ApiType /\ AcceptableFormat(api)
Typed(a) ==
  /\ Members \subseteq DOMAIN a
  /\ Sound(a.api) /\ a.config \in ConfigType
  /\ a.capture_rate \in Nat /\ a.render \in StreamType
  /\ a.ec_enabled \in BOOLEAN /\ a.states.ec \in BOOLEAN

(* What was built last was built for the rates of the moment, in whichever  *)
(* function, and follows the configuration.                                 *)
Built(a) ==
  /\ a.capture_audio.buf = Stream(a.capture_rate, a.api.output.ch)
  /\ a.ec_enabled = (a.config.aec /\ ~ a.config.mobile)
  /\ a.ec_enabled <=> a.ec # None
  /\ a.ec # None => a.ec.rate = a.capture_rate /\ a.ec.rch = a.render.ch
  /\ a.ec # None => a.aecm = None
  /\ a.aecm # None => a.aecm.rate = SplitRate(a.capture_rate)
  /\ a.vad # None => a.vad = SplitRate(a.capture_rate)

(* The rates are the ones to use for the active submodules that             *)
(* UpdateActiveSubmoduleStates() has noticed.                               *)
Rates(a) ==
  /\ a.capture_rate = CaptureRate(a.api, a.config, a.states)
  /\ a.render = RenderFormat(a.api, a.config, a.states, a.states.ec)

(* The submodules were built for the right number of channels, when the     *)
(* echo controller is where UpdateActiveSubmoduleStates() has noticed it.   *)
Channels(a) ==
  a.states.ec = a.ec_enabled =>
    /\ a.ec # None => a.ec.cch = NumProcChannels(a)
    /\ a.agc # None => a.agc = Stream(a.capture_rate, NumProcChannels(a))
    /\ a.ns # None => a.ns = Stream(a.capture_rate, NumProcChannels(a))
    /\ a.hpf # None =>
         a.hpf.ch = IF a.config.hpf_full THEN a.api.output.ch
                                         ELSE NumProcChannels(a)

(* The echo controller was not switched off unnoticed. *)
Lasting(a) == a.states.ec => a.ec_enabled

(* Queued bands were split from a buffer that has bands. *)
BandsSplit(a) ==
  /\ a.aecm # None => \A i \in DOMAIN a.aecm_queue : a.aecm_queue[i].bands
  /\ \A i \in DOMAIN a.agc_queue : a.agc_queue[i].bands

(* Functions one after the other change what each of them changes.         *)
LEMMA OnlyTransitive ==
  ASSUME NEW a, NEW b, NEW c, NEW F, NEW G, NEW H, F \subseteq H, G \subseteq H,
         Only(a, b, F), Only(b, c, G)
  PROVE  Only(a, c, H)
  BY DEF Only

(* UpdateActiveSubmoduleStates() notices what there is, and changes        *)
(* nothing else.                                                           *)
LEMMA UpdateResult ==
  ASSUME NEW a, Members \subseteq DOMAIN a
  PROVE  /\ Only(a, Update(a), {"states", "first_update"})
         /\ Update(a).states = CurrentStates(a)
         /\ Update(a).states.ec = a.ec_enabled
  BY ZenonT(30) DEF Update, Only, CurrentStates, Members

(* The gain control is built for the rate and channels of the moment.      *)
LEMMA GainControlResult ==
  ASSUME NEW a, Members \subseteq DOMAIN a
  PROVE  LET b == InitializeGainController1(a)
         IN  /\ Only(a, b, {"agc", "agc_manager"})
             /\ b.agc # None => b.agc = Stream(a.capture_rate, NumProcChannels(a))
<1> DEFINE manager == IF a.config.analog
                        THEN Stream(SplitRate(a.capture_rate), NumProcChannels(a))
                        ELSE None
           agc == Stream(a.capture_rate, NumProcChannels(a))
           b == InitializeGainController1(a)
<1>1. b = IF ~ a.config.agc1 THEN [a EXCEPT !.agc = None, !.agc_manager = None]
          ELSE [a EXCEPT !.agc = agc, !.agc_manager = manager]
  BY DEF InitializeGainController1
<1> HIDE DEF manager, agc, b
<1>2. Only(a, b, {"agc", "agc_manager"}) /\ (b.agc # None => b.agc = agc)
  BY <1>1, ZenonT(30) DEF Only, Members
<1> QED
  BY <1>2 DEF agc, b

(* So is the high-pass filter, in full band or in the lower band.          *)
LEMMA FilterResult ==
  ASSUME NEW a, Members \subseteq DOMAIN a
  PROVE  LET b == InitializeHighPassFilter(a)
         IN  /\ Only(a, b, {"hpf"})
             /\ b.hpf # None =>
                  b.hpf.ch = IF a.config.hpf_full THEN a.api.output.ch
                                                  ELSE NumProcChannels(a)
<1> DEFINE b == InitializeHighPassFilter(a)
           ch == NumProcChannels(a)
           full == Stream(FullbandRate(a), a.api.output.ch)
           split == Stream(SplitRate(a.capture_rate), ch)
<1>1. \E needed : b = [a EXCEPT !.hpf = IF ~ needed THEN None
                                        ELSE IF a.config.hpf_full THEN full ELSE split]
  BY ZenonT(30) DEF InitializeHighPassFilter
<1>2. full.ch = a.api.output.ch /\ split.ch = ch
  BY DEF Stream
<1> HIDE DEF b, full, split, ch
<1>3. Only(a, b, {"hpf"}) /\ (b.hpf # None =>
        b.hpf.ch = IF a.config.hpf_full THEN a.api.output.ch ELSE ch)
  BY <1>1, <1>2 DEF Only, Members
<1> QED
  BY <1>3 DEF b, ch

(* So are the voice detector and the noise suppressor; the other           *)
(* submodules do not matter here.                                          *)
LEMMA OthersResult ==
  ASSUME NEW a, Members \subseteq DOMAIN a
  PROVE  /\ Only(a, InitializeTransientSuppressor(a), {"ts"})
         /\ Only(a, InitializeGainController2(a), {"agc2"})
         /\ Only(a, InitializePreAmplifier(a), {"pre"})
         /\ LET b == InitializeVoiceDetector(a)
            IN  /\ Only(a, b, {"vad"})
                /\ b.vad # None => b.vad = SplitRate(a.capture_rate)
         /\ LET b == InitializeNoiseSuppressor(a)
            IN  /\ Only(a, b, {"ns"})
                /\ b.ns # None => b.ns = Stream(a.capture_rate, NumProcChannels(a))
<1>1. Only(a, InitializeTransientSuppressor(a), {"ts"})
  BY DEF InitializeTransientSuppressor, Only
<1>2. Only(a, InitializeGainController2(a), {"agc2"})
  BY DEF InitializeGainController2, Only
<1>3. Only(a, InitializePreAmplifier(a), {"pre"})
  BY DEF InitializePreAmplifier, Only
<1>4. LET b == InitializeVoiceDetector(a)
      IN  Only(a, b, {"vad"}) /\ (b.vad # None => b.vad = SplitRate(a.capture_rate))
  BY DEF InitializeVoiceDetector, Only, Members
<1>5. LET b == InitializeNoiseSuppressor(a)
      IN  /\ Only(a, b, {"ns"})
          /\ b.ns # None => b.ns = Stream(a.capture_rate, NumProcChannels(a))
  BY DEF InitializeNoiseSuppressor, Only, Members
<1> QED
  BY <1>1, <1>2, <1>3, <1>4, <1>5

(* InitializeEchoController() makes what the configuration says, AEC3 or   *)
(* AECM or neither, for the rates of the moment; AEC3 gets the number of   *)
(* channels from before it is enabled.                                     *)
EchoMembers == {"ec", "ec_enabled", "aecm", "aecm_queue"}
EchoBuilt(a, b) ==
  /\ Only(a, b, EchoMembers)
  /\ b.ec_enabled = (a.config.aec /\ ~ a.config.mobile)
  /\ b.ec_enabled <=> b.ec # None
  /\ b.ec # None => /\ b.ec.rate = a.capture_rate /\ b.ec.rch = a.render.ch
                    /\ b.ec.cch = NumProcChannels(a)
                    /\ b.aecm = None
  /\ b.aecm # None => /\ b.aecm.rate = SplitRate(a.capture_rate)
                      /\ b.aecm_queue = <<>>

(* It does, and an echo controller is not a null pointer.                  *)
LEMMA EchoResult ==
  ASSUME NEW a, Typed(a)
  PROVE  EchoBuilt(a, InitializeEchoController(a))
<1> DEFINE b == InitializeEchoController(a)
           ch == NumProcChannels(a)
           split == SplitRate(a.capture_rate)
           ec == [rate |-> a.capture_rate, rch |-> a.render.ch, cch |-> ch]
           aecm == [rate |-> split, rch |-> a.render.ch, och |-> a.api.output.ch]
<1>1. Members \subseteq DOMAIN a /\ a.config.aec \in BOOLEAN
      /\ a.config.mobile \in BOOLEAN
  BY DEF Typed, ConfigType
<1>2. ec # None
  <2>1. a.capture_rate \in Nat /\ a.render.ch \in Nat /\ a.api.output.ch \in Nat
    BY DEF Typed, Sound, ApiType, StreamType
  <2>2. ch \in Nat
    BY <2>1 DEF NumProcChannels
  <2> QED
    BY <2>1, <2>2, NoneAssumption
<1>3. ec.rate = a.capture_rate /\ ec.rch = a.render.ch /\ ec.cch = ch
      /\ aecm.rate = split
  OBVIOUS
<1>4. CASE a.config.aec /\ ~ a.config.mobile
  <2>1. b = [[a EXCEPT !.ec = ec, !.ec_enabled = TRUE]
               EXCEPT !.aecm = None, !.aecm_queue = None]
    BY <1>4 DEF InitializeEchoController, RemoveAecm, CreateEchoController
  <2> HIDE DEF b, ec, ch, split
  <2>2. /\ Only(a, b, EchoMembers) /\ b.ec = ec /\ b.aecm = None
        /\ b.ec_enabled = TRUE
    BY <1>1, <2>1, ZenonT(30) DEF Only, Members, EchoMembers
  <2> QED
    BY <1>1, <1>2, <1>3, <1>4, <2>2, ZenonT(30) DEF EchoBuilt, ch, split, b
<1>5. CASE a.config.aec /\ a.config.mobile
  <2>1. b = [a EXCEPT !.ec = None, !.ec_enabled = FALSE, !.aecm_queue = <<>>,
                      !.aecm = aecm]
    BY <1>5 DEF InitializeEchoController, CreateAecm
  <2> HIDE DEF b, aecm, split
  <2>2. /\ Only(a, b, EchoMembers) /\ b.ec = None /\ b.aecm = aecm
        /\ b.ec_enabled = FALSE /\ b.aecm_queue = <<>>
    BY <1>1, <2>1, ZenonT(30) DEF Only, Members, EchoMembers
  <2> QED
    BY <1>1, <1>3, <1>5, <2>2, ZenonT(30) DEF EchoBuilt, split, b
<1>6. CASE ~ a.config.aec
  <2>1. b = [[a EXCEPT !.ec = None, !.ec_enabled = FALSE]
               EXCEPT !.aecm = None, !.aecm_queue = None]
    BY <1>6 DEF InitializeEchoController, RemoveAecm, RemoveEchoController
  <2> HIDE DEF b
  <2>2. /\ Only(a, b, EchoMembers) /\ b.ec = None /\ b.aecm = None
        /\ b.ec_enabled = FALSE
    BY <1>1, <2>1, ZenonT(30) DEF Only, Members, EchoMembers
  <2> QED
    BY <1>1, <1>6, <2>2, ZenonT(30) DEF EchoBuilt, b
<1> QED
  BY <1>4, <1>5, <1>6

(* The buffers and queues that InitializeLocked() makes.                   *)
LEMMA AllocateResult ==
  ASSUME NEW a, Members \subseteq DOMAIN a
  PROVE  /\ LET b == AllocateBuffers(a)
            IN  /\ Only(a, b, {"render_audio", "capture_audio", "fullband"})
                /\ b.capture_audio.buf = Stream(a.capture_rate, a.api.output.ch)
         /\ LET b == AllocateRenderQueue(a)
            IN  Only(a, b, {"agc_queue", "red_queue"}) /\ b.agc_queue = <<>>
<1>1. LET b == AllocateRenderQueue(a)
      IN  Only(a, b, {"agc_queue", "red_queue"}) /\ b.agc_queue = <<>>
  BY ZenonT(30) DEF AllocateRenderQueue, Only, Members
<1> DEFINE b == AllocateBuffers(a)
           buf == Stream(a.capture_rate, a.api.output.ch)
           audio == [from |-> a.api.input, to |-> a.api.output, buf |-> buf]
           render == IF a.api.rin.ch > 0
                       THEN [from |-> a.api.rin, buf |-> a.render] ELSE None
           full == a.capture_rate < a.api.output.rate /\ a.api.output.rate = 48000
<1>2. b = [a EXCEPT !.render_audio = render, !.capture_audio = audio,
                    !.fullband = full]
  BY DEF AllocateBuffers
<1>3. audio.buf = buf
  OBVIOUS
<1> HIDE DEF b, audio, buf, render, full
<1>4. /\ Only(a, b, {"render_audio", "capture_audio", "fullband"})
      /\ b.capture_audio = audio
  BY <1>2, ZenonT(30) DEF Only, Members
<1> QED
  BY <1>1, <1>3, <1>4 DEF b, buf

(* The settings that InitializeLocked() works from. *)
SameSettings(a, b) ==
  /\ DOMAIN b = DOMAIN a
  /\ b.config = a.config /\ b.api = a.api
  /\ b.capture_rate = a.capture_rate /\ b.render = a.render

(* InitializeLocked() notices the submodules that there are and then       *)
(* builds everything for the rates it was given.  The channels fit when    *)
(* the echo controller is there afterwards exactly if it was before.       *)
LEMMA InitializeLockedResult ==
  ASSUME NEW a, Typed(a)
  PROVE  LET b == InitializeLocked(a)
         IN  /\ SameSettings(a, b)
             /\ b.states = CurrentStates(a) /\ b.states.ec = a.ec_enabled
             /\ Typed(b) /\ Built(b) /\ Channels(b)
             /\ BandsSplit(b) /\ IsSeq(b.agc_queue)
<1> DEFINE u == Update(a)
           m == AllocateBuffers(u)
           q == AllocateRenderQueue(m)
           g == InitializeGainController1(q)
           t == InitializeTransientSuppressor(g)
           h == InitializeHighPassFilter(t)
           v == InitializeVoiceDetector(h)
           d == InitializeEchoController(v)
           k == InitializeGainController2(d)
           b == InitializeNoiseSuppressor(k)
<1>1. InitializeLocked(a) = b
  BY DEF InitializeLocked
<1>2. Members \subseteq DOMAIN a
  BY DEF Typed
<1>u. /\ Only(a, u, {"states", "first_update"})
      /\ u.states = CurrentStates(a) /\ u.states.ec = a.ec_enabled
  BY <1>2, UpdateResult
<1> HIDE DEF u
<1>ud. Members \subseteq DOMAIN u
  BY <1>2, <1>u DEF Only
<1>m. /\ Only(u, m, {"render_audio", "capture_audio", "fullband"})
      /\ m.capture_audio.buf = Stream(u.capture_rate, u.api.output.ch)
  BY <1>ud, AllocateResult
<1> HIDE DEF m
<1>md. Members \subseteq DOMAIN m
  BY <1>ud, <1>m DEF Only
<1>q. Only(m, q, {"agc_queue", "red_queue"}) /\ q.agc_queue = <<>>
  BY <1>md, AllocateResult
<1> HIDE DEF q
<1>qd. Members \subseteq DOMAIN q
  BY <1>md, <1>q DEF Only
<1>g. /\ Only(q, g, {"agc", "agc_manager"})
      /\ g.agc # None => g.agc = Stream(q.capture_rate, NumProcChannels(q))
  BY <1>qd, GainControlResult
<1> HIDE DEF g
<1>gd. Members \subseteq DOMAIN g
  BY <1>qd, <1>g DEF Only
<1>t. Only(g, t, {"ts"})
  BY <1>gd, OthersResult
<1> HIDE DEF t
<1>td. Members \subseteq DOMAIN t
  BY <1>gd, <1>t DEF Only
<1>h. /\ Only(t, h, {"hpf"})
      /\ h.hpf # None => h.hpf.ch = IF t.config.hpf_full THEN t.api.output.ch
                                                         ELSE NumProcChannels(t)
  BY <1>td, FilterResult
<1> HIDE DEF h
<1>hd. Members \subseteq DOMAIN h
  BY <1>td, <1>h DEF Only
<1>v. Only(h, v, {"vad"}) /\ (v.vad # None => v.vad = SplitRate(h.capture_rate))
  BY <1>hd, OthersResult
<1> HIDE DEF v
<1>3. /\ Members \subseteq DOMAIN v /\ DOMAIN v = DOMAIN a
      /\ \A x \in {u, m, q, g, t, h, v} :
           /\ x.config = a.config /\ x.api = a.api
           /\ x.capture_rate = a.capture_rate /\ x.render = a.render
           /\ x.ec_enabled = a.ec_enabled /\ x.states = u.states
  BY <1>2, <1>u, <1>m, <1>q, <1>g, <1>t, <1>h, <1>v DEF Only, Members
<1>4. /\ v.capture_audio = m.capture_audio /\ v.agc_queue = q.agc_queue
      /\ v.agc = g.agc /\ v.hpf = h.hpf
  BY <1>2, <1>u, <1>m, <1>q, <1>g, <1>t, <1>h, <1>v DEF Only, Members
<1>5. Typed(v)
  BY <1>3, <1>u DEF Typed
<1>d. EchoBuilt(v, d)
  BY <1>5, EchoResult
<1> HIDE DEF d
<1>dd. Members \subseteq DOMAIN d
  BY <1>3, <1>d DEF EchoBuilt, Only
<1>k. Only(d, k, {"agc2"})
  BY <1>dd, OthersResult
<1> HIDE DEF k
<1>kd. Members \subseteq DOMAIN k
  BY <1>dd, <1>k DEF Only
<1>b. /\ Only(k, b, {"ns"})
      /\ b.ns # None => b.ns = Stream(k.capture_rate, NumProcChannels(k))
  BY <1>kd, OthersResult
<1> HIDE DEF b
<1>6. /\ Members \subseteq DOMAIN b /\ DOMAIN b = DOMAIN v
      /\ \A x \in {d, k, b} :
           /\ x.config = a.config /\ x.api = a.api
           /\ x.capture_rate = a.capture_rate /\ x.render = a.render
           /\ x.states = u.states
      /\ \A x \in {k, b} :
           /\ x.ec_enabled = d.ec_enabled /\ x.ec = d.ec
           /\ x.aecm = d.aecm /\ x.aecm_queue = d.aecm_queue
      /\ b.capture_audio = v.capture_audio /\ b.agc_queue = v.agc_queue
      /\ b.agc = v.agc /\ b.hpf = v.hpf /\ b.vad = v.vad
  BY <1>3, <1>d, <1>k, <1>b DEF EchoBuilt, EchoMembers, Only, Members
<1>7. SameSettings(a, b) /\ b.states = CurrentStates(a)
      /\ b.states.ec = a.ec_enabled
  BY <1>u, <1>3, <1>6 DEF SameSettings
<1>8. Typed(b)
  <2>1. a.config.aec \in BOOLEAN /\ a.config.mobile \in BOOLEAN
    BY DEF Typed, ConfigType
  <2>2. b.ec_enabled = (a.config.aec /\ ~ a.config.mobile)
    BY <1>3, <1>6, <1>d, SMTT(30) DEF EchoBuilt
  <2> QED
    BY <1>6, <1>7, <2>1, <2>2 DEF Typed, SameSettings
<1>9. Built(b)
  BY <1>m, <1>v, <1>d, <1>3, <1>4, <1>6 DEF Built, EchoBuilt
<1>10. Channels(b)
  <2> SUFFICES ASSUME b.states.ec = b.ec_enabled PROVE Channels(b)
    BY SMTT(30) DEF Channels
  <2>1. \A x \in {q, t, v, k} : NumProcChannels(x) = NumProcChannels(b)
    BY <1>3, <1>6, <1>7 DEF NumProcChannels
  <2>2. b.ec # None => b.ec.cch = NumProcChannels(b)
    BY <1>d, <1>6, <2>1, SMTT(30) DEF EchoBuilt
  <2>3. b.agc # None => b.agc = Stream(b.capture_rate, NumProcChannels(b))
    BY <1>g, <1>3, <1>4, <1>6, <2>1, SMTT(30)
  <2>4. b.ns # None => b.ns = Stream(b.capture_rate, NumProcChannels(b))
    BY <1>b, <1>6, <2>1, SMTT(30)
  <2>5. b.hpf # None => b.hpf.ch = IF b.config.hpf_full THEN b.api.output.ch
                                                        ELSE NumProcChannels(b)
    BY <1>h, <1>3, <1>4, <1>6, <2>1
  <2> QED
    BY <2>2, <2>3, <2>4, <2>5 DEF Channels
<1>11. b.agc_queue = <<>> /\ (b.aecm # None => b.aecm_queue = <<>>)
  BY <1>q, <1>d, <1>4, <1>6 DEF EchoBuilt
<1>12. BandsSplit(b) /\ IsSeq(b.agc_queue)
  BY <1>11, EmptySeq DEF BandsSplit
<1> QED
  BY <1>1, <1>7, <1>8, <1>9, <1>10, <1>12

(* The rates are numbers of Hz, whatever is active.                        *)
LEMMA RatesTyped ==
  ASSUME NEW api, Sound(api), NEW config \in ConfigType, NEW states,
         NEW ec_enabled \in BOOLEAN
  PROVE  /\ CaptureRate(api, config, states) \in NativeProcessRates
         /\ RenderFormat(api, config, states, ec_enabled) \in StreamType
<1> DEFINE capture == CaptureRate(api, config, states)
           splitting == CaptureMultiBandSubModulesActive(states)
                        \/ RenderMultiBandSubModulesActive(states)
           own == SuitableProcessRate(Smaller(api.rin.rate, api.rout.rate),
                                      config.max_rate, splitting)
           ch == IF config.multi_render THEN api.rin.ch ELSE 1
           rate == RenderRate(api, config, states, ec_enabled)
<1>1. api.rin \in StreamType /\ api.rin.ch \in Nat
      /\ \A s \in {api.input, api.output, api.rin, api.rout} : s.rate \in Int
  BY DEF Sound, ApiType, StreamType
<1>2. config.max_rate \in {32000, 48000}
  BY DEF ConfigType
<1>3. SubmoduleFlags(states) /\ splitting \in BOOLEAN
  BY DEF SubmoduleFlags, RenderMultiBandSubModulesActive,
         CaptureMultiBandSubModulesActive, CaptureMultiBandProcessingPresent
<1>4. capture \in NativeProcessRates
  BY <1>1, <1>2, <1>3, CaptureRateNative DEF Formats
<1>5. own \in NativeProcessRates
  <2>1. Smaller(api.rin.rate, api.rout.rate) \in Int
    BY <1>1 DEF Smaller
  <2> HIDE DEF splitting
  <2> QED
    BY <1>2, <1>3, <2>1, SuitableIsNative
<1>6. rate = IF capture = 8000 THEN 8000
             ELSE Larger(IF ec_enabled THEN capture ELSE own, 16000)
  BY DEF RenderRate
<1> HIDE DEF capture, own, splitting, rate
<1>7. rate \in Nat
  BY <1>4, <1>5, <1>6 DEF Larger, NativeProcessRates
<1>8. ch \in Nat
  BY <1>1
<1>9. \/ RenderFormat(api, config, states, ec_enabled) = Stream(rate, ch)
      \/ RenderFormat(api, config, states, ec_enabled) = api.rin
  BY DEF RenderFormat, rate
<1> HIDE DEF ch
<1>10. Stream(rate, ch) \in StreamType
  BY <1>7, <1>8 DEF Stream, StreamType
<1> QED
  BY <1>1, <1>4, <1>9, <1>10 DEF capture

(* InitializeLocked(config) chooses the rates for the submodules that      *)
(* there are at that moment, and notices the same submodules again before  *)
(* it rebuilds them.                                                       *)
LEMMA InitializeLockedWithResult ==
  ASSUME NEW a, Typed(a), NEW api, Sound(api)
  PROVE  LET b == InitializeLockedWith(a, api)
         IN  /\ b.config = a.config /\ b.api = api
             /\ b.states.ec = a.ec_enabled
             /\ Typed(b) /\ Built(b) /\ Rates(b) /\ Channels(b)
             /\ BandsSplit(b) /\ IsSeq(b.agc_queue)
<1> DEFINE u == Update(a)
           rate == CaptureRate(api, u.config, u.states)
           render == RenderFormat(api, u.config, u.states, u.ec_enabled)
           r == [u EXCEPT !.api = api, !.capture_rate = rate, !.render = render]
           b == InitializeLocked(r)
<1>1. InitializeLockedWith(a, api) = b
  BY DEF InitializeLockedWith, Sound
<1>2. Members \subseteq DOMAIN a
  BY DEF Typed
<1>3. /\ Only(a, u, {"states", "first_update"})
      /\ u.states = CurrentStates(a) /\ u.states.ec = a.ec_enabled
  BY <1>2, UpdateResult
<1> HIDE DEF u
<1>4. Members \subseteq DOMAIN u /\ u.config = a.config
      /\ u.ec_enabled = a.ec_enabled
  BY <1>2, <1>3 DEF Only, Members
<1>5. rate \in NativeProcessRates /\ render \in StreamType
  BY <1>4, RatesTyped DEF Typed
<1> HIDE DEF rate, render
<1>6. /\ Only(u, r, {"api", "capture_rate", "render"})
      /\ r.api = api /\ r.capture_rate = rate /\ r.render = render
  BY <1>4, ZenonT(30) DEF Only, Members
<1> HIDE DEF r
<1>7. /\ Members \subseteq DOMAIN r /\ r.states = u.states
      /\ \A x \in {"config", "aecm", "ns", "agc", "agc2", "ec_enabled", "ts"} :
           r[x] = a[x]
  BY <1>2, <1>3, <1>4, <1>6 DEF Only, Members
<1>8. Typed(r)
  BY <1>3, <1>5, <1>6, <1>7 DEF Typed, NativeProcessRates
<1>9. CurrentStates(r) = CurrentStates(a)
  BY <1>7 DEF CurrentStates
<1>10. /\ SameSettings(r, b)
       /\ b.states = CurrentStates(r) /\ b.states.ec = r.ec_enabled
       /\ Typed(b) /\ Built(b) /\ Channels(b)
       /\ BandsSplit(b) /\ IsSeq(b.agc_queue)
  BY <1>8, InitializeLockedResult
<1> HIDE DEF b
<1>11. Rates(b)
  BY <1>3, <1>4, <1>6, <1>7, <1>9, <1>10 DEF Rates, SameSettings, rate, render
<1>12. b.config = a.config /\ b.api = api /\ b.states.ec = a.ec_enabled
  BY <1>6, <1>7, <1>10 DEF SameSettings
<1> QED
  BY <1>1, <1>10, <1>11, <1>12

(* What ApplyConfig() leaves alone as long as it does not reinitialize. *)
Unapplied == {"api", "capture_rate", "render", "states", "first_update",
              "capture_audio", "agc_queue"}

(* A submodule was rebuilt for the moment, or is the one from before. *)
RebuiltOr(new, old, now) == new # None => new = old \/ new = now

(* The submodules that ApplyConfig() rebuilds, one by one: the echo        *)
(* controller is first, so the others are built for the channels that      *)
(* remain.                                                                 *)
Reconfigured(a, b) ==
  /\ DOMAIN b = DOMAIN a
  /\ \A x \in Unapplied : b[x] = a[x]
  /\ \/ /\ EchoMembers \subseteq DOMAIN a
        /\ \A x \in EchoMembers : b[x] = a[x]
        /\ a.config.aec = b.config.aec /\ a.config.mobile = b.config.mobile
     \/ /\ b.ec_enabled = (b.config.aec /\ ~ b.config.mobile)
        /\ b.ec_enabled <=> b.ec # None
        /\ b.ec # None => /\ b.ec.rate = a.capture_rate /\ b.ec.rch = a.render.ch
                          /\ b.aecm = None
        /\ b.aecm # None => /\ b.aecm.rate = SplitRate(a.capture_rate)
                            /\ b.aecm_queue = <<>>
        /\ a.config.aec # b.config.aec \/ a.config.mobile # b.config.mobile
  /\ RebuiltOr(b.agc, a.agc, Stream(a.capture_rate, NumProcChannels(b)))
  /\ RebuiltOr(b.ns, a.ns, Stream(a.capture_rate, NumProcChannels(b)))
  /\ RebuiltOr(b.vad, a.vad, SplitRate(a.capture_rate))
  /\ b.hpf # None => b.hpf.ch = IF b.config.hpf_full THEN b.api.output.ch
                                                     ELSE NumProcChannels(b)

(* ApplyConfig() before it decides whether to reinitialize.                *)
Reconfigure(a, config) ==
  LET Changed(fields) == \E f \in fields : a.config[f] # config[f]
      b == When(Changed({"aec", "mobile"}), InitializeEchoController,
                [a EXCEPT !.config = config])
      c == When(Changed({"ts"}), InitializeTransientSuppressor,
                When(Changed({"ns"}), InitializeNoiseSuppressor, b))
      d == When(Changed({"agc1", "analog"}),
                InitializeGainController1, InitializeHighPassFilter(c))
      e == When(Changed({"pre"}), InitializePreAmplifier,
                When(Changed({"agc2"}), InitializeGainController2, d))
  IN  When(Changed({"vad"}), InitializeVoiceDetector,
           [e EXCEPT !.le = @ \/ config.le])

(* That part of ApplyConfig() does what Reconfigured says.                 *)
LEMMA ReconfigureResult ==
  ASSUME NEW a, Typed(a), NEW config \in ConfigType
  PROVE  LET b == Reconfigure(a, config)
         IN  b.config = config /\ Reconfigured(a, b)
<1> DEFINE Changed(fields) == \E f \in fields : a.config[f] # config[f]
           z == [a EXCEPT !.config = config]
           x == When(Changed({"aec", "mobile"}), InitializeEchoController, z)
           n == When(Changed({"ns"}), InitializeNoiseSuppressor, x)
           c == When(Changed({"ts"}), InitializeTransientSuppressor, n)
           h == InitializeHighPassFilter(c)
           d == When(Changed({"agc1", "analog"}), InitializeGainController1, h)
           k == When(Changed({"agc2"}), InitializeGainController2, d)
           e == When(Changed({"pre"}), InitializePreAmplifier, k)
           l == [e EXCEPT !.le = @ \/ config.le]
           b == When(Changed({"vad"}), InitializeVoiceDetector, l)
<1>1. Reconfigure(a, config) = b
  BY DEF Reconfigure
<1>2. Members \subseteq DOMAIN a
  BY DEF Typed
<1>z. Only(a, z, {"config"}) /\ z.config = config
  BY <1>2 DEF Only, Members
<1>3. Changed({"aec", "mobile"}) <=> \/ a.config.aec # config.aec
                                     \/ a.config.mobile # config.mobile
  OBVIOUS
<1> HIDE DEF Changed, z
<1>4. Members \subseteq DOMAIN z /\ Typed(z)
  BY <1>2, <1>z DEF Only, Typed, Members
<1>x. /\ Only(z, x, EchoMembers)
      /\ \/ EchoBuilt(z, x) /\ Changed({"aec", "mobile"})
         \/ x = z /\ ~ Changed({"aec", "mobile"})
  <2>1. CASE Changed({"aec", "mobile"})
    BY <1>4, <2>1, EchoResult DEF When, EchoBuilt
  <2>2. CASE ~ Changed({"aec", "mobile"})
    BY <2>2 DEF When, Only
  <2> QED
    BY <2>1, <2>2
<1> HIDE DEF x
<1>xd. Members \subseteq DOMAIN x
  BY <1>4, <1>x DEF Only
<1>n. /\ Only(x, n, {"ns"})
      /\ RebuiltOr(n.ns, x.ns, Stream(x.capture_rate, NumProcChannels(x)))
  BY <1>xd, OthersResult DEF When, Only, RebuiltOr
<1> HIDE DEF n
<1>nd. Members \subseteq DOMAIN n
  BY <1>xd, <1>n, SMTT(30) DEF Only
<1>c. Only(n, c, {"ts"})
  BY <1>nd, OthersResult DEF When, Only
<1> HIDE DEF c
<1>cd. Members \subseteq DOMAIN c
  BY <1>nd, <1>c DEF Only
<1>h. /\ Only(c, h, {"hpf"})
      /\ h.hpf # None => h.hpf.ch = IF c.config.hpf_full THEN c.api.output.ch
                                                         ELSE NumProcChannels(c)
  BY <1>cd, FilterResult
<1> HIDE DEF h
<1>hd. Members \subseteq DOMAIN h
  BY <1>cd, <1>h DEF Only
<1>d. /\ Only(h, d, {"agc", "agc_manager"})
      /\ RebuiltOr(d.agc, h.agc, Stream(h.capture_rate, NumProcChannels(h)))
  BY <1>hd, GainControlResult DEF When, Only, RebuiltOr
<1> HIDE DEF d
<1>dd. Members \subseteq DOMAIN d
  BY <1>hd, <1>d DEF Only
<1>k. Only(d, k, {"agc2"})
  BY <1>dd, OthersResult DEF When, Only
<1> HIDE DEF k
<1>kd. Members \subseteq DOMAIN k
  BY <1>dd, <1>k DEF Only
<1>e. Only(k, e, {"pre"})
  BY <1>kd, OthersResult DEF When, Only
<1> HIDE DEF e
<1>l. Only(e, l, {"le"})
  BY DEF Only
<1> HIDE DEF l
<1>ld. Members \subseteq DOMAIN l
  BY <1>kd, <1>e, <1>l, SMTT(30) DEF Only
<1>b. Only(l, b, {"vad"}) /\ RebuiltOr(b.vad, l.vad, SplitRate(l.capture_rate))
  BY <1>ld, OthersResult, SMTT(30) DEF When, Only, RebuiltOr
<1> HIDE DEF b
<1>5. /\ DOMAIN b = DOMAIN a
      /\ \A y \in Unapplied : z[y] = a[y] /\ x[y] = a[y] /\ h[y] = a[y]
  BY <1>2, <1>z, <1>x, <1>n, <1>c, <1>h, <1>d, <1>k, <1>e, <1>l, <1>b, SMTT(30)
     DEF Only, Members, Unapplied, EchoMembers
<1>7. /\ \A y \in EchoMembers : z[y] = a[y]
      /\ x.ns = a.ns /\ h.agc = a.agc
      /\ z.config = config /\ x.config = config
  BY <1>2, <1>z, <1>x, <1>n, <1>c, <1>h, <1>d
     DEF Only, Members, EchoMembers
<1>8. /\ \A y \in EchoMembers \ {"ec"} : c[y] = x[y] /\ h[y] = x[y]
      /\ \A y \in Unapplied : c[y] = a[y]
      /\ c.config = config /\ h.config = config
  BY <1>2, <1>z, <1>x, <1>n, <1>c, <1>h, SMTT(30)
     DEF Only, Members, Unapplied, EchoMembers
<1>6. /\ \A y \in Unapplied : l[y] = a[y] /\ b[y] = a[y]
      /\ \A y \in EchoMembers : b[y] = x[y]
      /\ b.ns = n.ns /\ b.hpf = h.hpf /\ b.agc = d.agc /\ l.vad = a.vad
      /\ b.config = config
  BY <1>2, <1>z, <1>x, <1>n, <1>c, <1>h, <1>d, <1>k, <1>e, <1>l, <1>b, SMTT(30)
     DEF Only, Members, Unapplied, EchoMembers
<1>9. /\ \A y \in {x, c, h, b} : /\ y.api = a.api /\ y.capture_rate = a.capture_rate
                                /\ y.config = config /\ y.ec_enabled = b.ec_enabled
      /\ l.capture_rate = a.capture_rate
      /\ z.capture_rate = a.capture_rate /\ z.render = a.render
  BY <1>5, <1>6, <1>7, <1>8 DEF Unapplied, EchoMembers
<1>10. /\ NumProcChannels(x) = NumProcChannels(b)
       /\ NumProcChannels(c) = NumProcChannels(b)
       /\ NumProcChannels(h) = NumProcChannels(b)
  BY <1>9, SMTT(30) DEF NumProcChannels
<1>11. /\ RebuiltOr(b.agc, a.agc, Stream(a.capture_rate, NumProcChannels(b)))
       /\ RebuiltOr(b.ns, a.ns, Stream(a.capture_rate, NumProcChannels(b)))
       /\ RebuiltOr(b.vad, a.vad, SplitRate(a.capture_rate))
       /\ b.hpf # None => b.hpf.ch = IF b.config.hpf_full THEN b.api.output.ch
                                                          ELSE NumProcChannels(b)
  BY <1>n, <1>h, <1>d, <1>b, <1>6, <1>7, <1>9, <1>10, SMTT(30)
<1>12. CASE x = z /\ ~ Changed({"aec", "mobile"})
  <2>1. EchoMembers \subseteq DOMAIN a
    BY <1>2 DEF Members, EchoMembers
  <2>2. \A y \in EchoMembers : b[y] = a[y]
    BY <1>6, <1>7, <1>12
  <2>3. a.config.aec = b.config.aec /\ a.config.mobile = b.config.mobile
    BY <1>3, <1>6, <1>12, SMTT(30)
  <2>4. b.config = config /\ Reconfigured(a, b)
    BY <1>5, <1>6, <1>11, <2>1, <2>2, <2>3, ZenonT(30) DEF Reconfigured
  <2> QED
    BY <1>1, <2>4
<1>13. CASE EchoBuilt(z, x) /\ Changed({"aec", "mobile"})
  <2>1. /\ b.ec = x.ec /\ b.ec_enabled = x.ec_enabled
        /\ b.aecm = x.aecm /\ b.aecm_queue = x.aecm_queue
    BY <1>6 DEF EchoMembers
  <2>2. /\ b.ec_enabled = (b.config.aec /\ ~ b.config.mobile)
        /\ b.ec_enabled <=> b.ec # None
        /\ b.ec # None => /\ b.ec.rate = a.capture_rate /\ b.ec.rch = a.render.ch
                          /\ b.aecm = None
        /\ b.aecm # None => /\ b.aecm.rate = SplitRate(a.capture_rate)
                            /\ b.aecm_queue = <<>>
    BY <1>6, <1>7, <1>9, <1>13, <2>1 DEF EchoBuilt
  <2>3. a.config.aec # b.config.aec \/ a.config.mobile # b.config.mobile
    BY <1>3, <1>6, <1>13
  <2>4. b.config = config /\ Reconfigured(a, b)
    BY <1>5, <1>6, <1>11, <2>2, <2>3, ZenonT(30) DEF Reconfigured
  <2> QED
    BY <1>1, <2>4
<1> QED
  BY <1>x, <1>12, <1>13

(* What the states, the configuration and the formats are read for.        *)
LEMMA RatesDependOn ==
  ASSUME NEW api, NEW states, NEW ec_enabled, NEW c \in ConfigType,
         NEW d \in ConfigType,
         c.max_rate = d.max_rate, c.multi_render = d.multi_render
  PROVE  /\ CaptureRate(api, c, states) = CaptureRate(api, d, states)
         /\ RenderFormat(api, c, states, ec_enabled)
              = RenderFormat(api, d, states, ec_enabled)
<1>1. CaptureRate(api, c, states) = CaptureRate(api, d, states)
  BY DEF CaptureRate
<1>2. RenderRate(api, c, states, ec_enabled) = RenderRate(api, d, states, ec_enabled)
  BY <1>1, SMTT(30) DEF RenderRate
<1> QED
  BY <1>1, <1>2 DEF RenderFormat

(* ApplyConfig() keeps everything built for the rates of the moment, and   *)
(* the rates right for the noticed states: the settings that they depend   *)
(* on make it reinitialize.  Unless it switches the echo controller off,   *)
(* the channels stay right too.                                            *)
LEMMA ApplyConfigResult ==
  ASSUME NEW a, Typed(a), Built(a), NEW config \in ConfigType
  PROVE  LET b == ApplyConfig(a, config)
         IN  /\ b.config = config /\ b.api = a.api
             /\ Typed(b) /\ Built(b)
             /\ Rates(a) => Rates(b)
             /\ IsSeq(a.agc_queue) => IsSeq(b.agc_queue)
             /\ BandsSplit(a) => BandsSplit(b)
             /\ (a.ec # None => config.aec /\ ~ config.mobile) /\ Lasting(a)
                  => Lasting(b) /\ (Channels(a) => Channels(b))
<1> DEFINE Again == \E x \in {"multi_render", "multi_capture", "max_rate"} :
                       a.config[x] # config[x]
           f == Reconfigure(a, config)
           b == ApplyConfig(a, config)
<1>1. b = IF Again THEN InitializeLockedWith(f, f.api) ELSE f
  BY DEF ApplyConfig, Reconfigure
<1>2. f.config = config /\ Reconfigured(a, f)
  BY ReconfigureResult, SMTT(30)
<1> HIDE DEF f, b
<1>3. /\ f.api = a.api /\ f.capture_rate = a.capture_rate /\ f.render = a.render
      /\ f.states = a.states /\ f.capture_audio = a.capture_audio
      /\ f.agc_queue = a.agc_queue /\ DOMAIN f = DOMAIN a
  BY <1>2 DEF Reconfigured, Unapplied
<1>4. a.config \in ConfigType /\ config.aec \in BOOLEAN /\ config.mobile \in BOOLEAN
  BY DEF Typed, ConfigType
<1>5. Built(f)
  <2>1. f.vad # None => f.vad = SplitRate(f.capture_rate)
    BY <1>2, <1>3 DEF Reconfigured, RebuiltOr, Built
  <2>2. f.capture_audio.buf = Stream(f.capture_rate, f.api.output.ch)
    BY <1>3, SMTT(30) DEF Built
  <2>3. CASE \A x \in EchoMembers : f[x] = a[x]
    <3>1. f.ec = a.ec /\ f.ec_enabled = a.ec_enabled /\ f.aecm = a.aecm
      BY <2>3, SMTT(30) DEF EchoMembers
    <3> QED
      BY <1>2, <1>3, <1>4, <2>1, <2>2, <3>1 DEF Reconfigured, Built
  <2>4. CASE ~ \A x \in EchoMembers : f[x] = a[x]
    BY <1>2, <1>3, <2>1, <2>2, <2>4, SMTT(30) DEF Reconfigured, Built
  <2> QED
    BY <2>3, <2>4, SMTT(30)
<1>6. Typed(f) /\ f.ec_enabled = (config.aec /\ ~ config.mobile)
  BY <1>2, <1>3, <1>4, <1>5, SMTT(30) DEF Built, Typed
<1>7. CASE Again
  <2>1. /\ b.config = f.config /\ b.api = f.api
        /\ b.states.ec = f.ec_enabled
        /\ Typed(b) /\ Built(b) /\ Rates(b) /\ Channels(b)
        /\ BandsSplit(b) /\ IsSeq(b.agc_queue)
    <3>1. Sound(f.api)
      BY <1>6, SMTT(30) DEF Typed
    <3> QED
      BY <1>1, <1>6, <1>7, <3>1, InitializeLockedWithResult
  <2>2. Lasting(b)
    BY <1>2, <1>6, <2>1, SMTT(30) DEF Lasting, Built
  <2> QED
    BY <1>2, <1>3, <2>1, <2>2, SMTT(30) DEF b
<1>8. CASE ~ Again
  <2>1. /\ a.config.multi_render = config.multi_render
        /\ a.config.multi_capture = config.multi_capture
        /\ a.config.max_rate = config.max_rate
    BY <1>8
  <2>2. Rates(a) => Rates(f)
    BY <1>2, <1>3, <1>4, <2>1, RatesDependOn, SMTT(30) DEF Rates
  <2>3. BandsSplit(a) => BandsSplit(f)
    BY <1>2, <1>3 DEF BandsSplit, Reconfigured, EchoMembers
  <2>4. ASSUME a.ec # None => config.aec /\ ~ config.mobile, Lasting(a)
        PROVE  Lasting(f)
    BY <1>3, <1>6, <2>4, ZenonT(30) DEF Lasting, Built
  <2>5. ASSUME a.ec # None => config.aec /\ ~ config.mobile, Lasting(a),
               Channels(a), f.states.ec = f.ec_enabled
        PROVE  Channels(f)
    <3>1. a.ec_enabled = f.ec_enabled /\ a.states.ec = a.ec_enabled
      BY <1>3, <1>4, <1>6, <2>5, ZenonT(30) DEF Lasting, Built, Typed
    <3>2. NumProcChannels(f) = NumProcChannels(a)
      BY <1>2, <1>3, <2>1, <3>1 DEF NumProcChannels
    <3>3. /\ a.ec # None => a.ec.cch = NumProcChannels(a)
          /\ a.agc # None => a.agc = Stream(a.capture_rate, NumProcChannels(a))
          /\ a.ns # None => a.ns = Stream(a.capture_rate, NumProcChannels(a))
      BY <2>5, <3>1 DEF Channels
    <3>4. f.ec # None => f.ec = a.ec
      <4> SUFFICES ASSUME f.ec # None PROVE f.ec = a.ec
        BY SMTT(30)
      <4>1. a.config.aec = config.aec /\ a.config.mobile = config.mobile
        BY <1>4, <1>5, <1>6, <3>1, SMTT(30) DEF Built, Typed, ConfigType
      <4> QED
        BY <1>2, <4>1 DEF Reconfigured, EchoMembers
    <3>5. /\ f.agc # None => f.agc = Stream(f.capture_rate, NumProcChannels(f))
          /\ f.ns # None => f.ns = Stream(f.capture_rate, NumProcChannels(f))
      BY <1>2, <1>3, <3>2, <3>3 DEF Reconfigured, RebuiltOr
    <3> QED
      BY <1>2, <3>2, <3>3, <3>4, <3>5, ZenonT(30) DEF Channels, Reconfigured
  <2>6. Channels(f) \/ f.states.ec = f.ec_enabled
    BY DEF Channels
  <2> QED
    BY <1>1, <1>2, <1>3, <1>5, <1>6, <1>8, <2>2, <2>3, <2>4, <2>5, <2>6 DEF b
<1> QED
  BY <1>7, <1>8
-----------------------------------------------------------------------------
(* The invariant. *)

CapturePlaces == Processing \cup {"idle", "lock_render", "reinit", "lock_capture"}
RenderPlaces == Emptying \cup Queues \cup {"idle", "init", "split", "banded",
                                           "full", "retry", "analyze"}
ControlPlaces == {"idle", "apply", "initialize", "initialize_formats"}

(* Where the threads are, and which locks they hold there. *)
Locks ==
  /\ DOMAIN pc = Threads /\ DOMAIN call = Threads
  /\ pc["capture"] \in CapturePlaces
  /\ pc["render"] \in RenderPlaces
  /\ pc["control"] \in ControlPlaces
  /\ (crit_render = "capture") <=> (pc["capture"] = "reinit")
  /\ (crit_render = "render") <=> (pc["render"] # "idle")
  /\ (crit_render = "control") <=> (pc["control"] # "idle")
  /\ (crit_capture = "capture") <=> (pc["capture"] \in Processing)
  /\ (crit_capture = "render") <=> (pc["render"] \in Emptying)

(* The streams, and the calls of the threads. *)
Streams == Valid(apm)

CaptureCall ==
  LET k == call["capture"]
  IN  pc["capture"] \in {"lock_render", "reinit"} =>
        /\ DOMAIN k.api = Apis
        /\ k.api.input = k.f.input /\ k.api.output = k.f.output

RenderCall ==
  LET k == call["render"]
  IN  /\ pc["render"] # "idle" =>
           DOMAIN k = {"f", "split", "queue"} /\ k.f \in RenderFormats
      /\ pc["render"] \notin {"idle", "init"} =>
           apm.api.rin = k.f.rin /\ apm.api.rout = k.f.rout

(* The queue found full has a reader, and is empty once it has been read. *)
Emptied ==
  LET q == call["render"].queue
  IN  /\ pc["render"] \in Emptying \cup {"full", "retry"} =>
           /\ q \in Queues
           /\ q = "aecm_queue" => apm.aecm # None
           /\ q = "agc_queue" => apm.agc # None
      /\ pc["render"] \in {"empty_agc", "empty_red", "retry"} /\ q = "aecm_queue"
           => apm.aecm_queue = <<>>
      /\ pc["render"] \in {"empty_red", "retry"} /\ q = "agc_queue"
           => apm.agc_queue = <<>>
      /\ pc["render"] = "retry" /\ q = "red_queue" => apm.red_queue = <<>>

IInv == Locks /\ Streams /\ CaptureCall /\ RenderCall /\ Emptied

(* Apart from it: Initialize() was given four streams. *)
ControlCall == pc["control"] = "initialize_formats" => DOMAIN call["control"] = Apis

(* The instance that AudioProcessingBuilder::Create() returns.             *)
LEMMA InitInv == Init => IInv
<1> SUFFICES ASSUME Init PROVE IInv
  OBVIOUS
<1>1. Tracked(NewApm) /\ DOMAIN NewApm.api = Apis
  <2>1. Tracked(NewApm)
    BY SMTT(30) DEF NewApm, Tracked
  <2>2. NewApm.api = [input |-> DefaultStream, output |-> DefaultStream,
                      rin |-> DefaultStream, rout |-> DefaultStream]
    BY DEF NewApm
  <2> QED
    BY <2>1, <2>2, SMTT(30) DEF Apis
<1>2. Valid(apm) /\ apm.api = NewApm.api
  BY <1>1, InitializeLockedValid DEF Init
<1>3. pc = [t \in Threads |-> "idle"] /\ DOMAIN call = Threads
      /\ crit_render = "free" /\ crit_capture = "free"
  BY DEF Init
<1>4. Locks
  BY <1>3 DEF Locks, Threads, CapturePlaces, RenderPlaces, ControlPlaces,
              Processing, Emptying, Queues
<1>5. CaptureCall /\ RenderCall /\ Emptied
  BY <1>3 DEF CaptureCall, RenderCall, Emptied, Threads, Processing, Emptying
<1> QED
  BY <1>1, <1>2, <1>4, <1>5 DEF IInv, Streams

-----------------------------------------------------------------------------
(* The actions that rebuild or reconfigure. *)

(* set_stream_delay_ms()                                                   *)
LEMMA SetStreamDelayInv ==
  ASSUME IInv, SetStreamDelay
  PROVE  IInv'
<1>1. Keeps(apm, apm') /\ apm'.agc = apm.agc /\ apm'.agc_queue = apm.agc_queue
      /\ apm'.red_queue = apm.red_queue
  BY DEF SetStreamDelay, Keeps
<1>2. Valid(apm')
  BY <1>1, KeepsValid DEF IInv, Streams
<1>3. UNCHANGED <<crit_render, crit_capture, pc, call>>
  BY DEF SetStreamDelay, locks
<1> QED
  <2>1. Locks'
    BY <1>3 DEF IInv, Locks
  <2>2. Streams' /\ apm'.api = apm.api /\ apm'.aecm = apm.aecm
        /\ apm'.aecm_queue = apm.aecm_queue
    BY <1>1, <1>2 DEF IInv, Streams, Keeps
  <2>3. CaptureCall' /\ RenderCall'
    BY <1>3, <2>2 DEF IInv, CaptureCall, RenderCall
  <2>4. Emptied'
    BY <1>1, <1>3, <2>2 DEF IInv, Emptied
  <2> QED
    BY <2>1, <2>2, <2>3, <2>4 DEF IInv

(* The copy of api_format is made under crit_capture_, so it differs from  *)
(* api_format only in the formats of the call.                             *)
LEMMA ProcessStreamInv ==
  ASSUME IInv, ProcessStream
  PROVE  IInv'
<1>1. PICK f \in CaptureFormats :
        /\ pc["capture"] = "idle" /\ crit_capture = "free"
        /\ call' = [call EXCEPT !["capture"] = [f |-> f, api |-> CaptureConfig(f)]]
        /\ pc' = [pc EXCEPT !["capture"] =
                    IF StatesChanged(apm) \/ CaptureConfig(f) # apm.api
                      THEN "lock_render" ELSE "lock_capture"]
        /\ apm' = Update(apm)
        /\ UNCHANGED locks
  BY ZenonT(30) DEF ProcessStream, CallProcessStream, At, Goto
<1>a. Keeps(apm, apm')
  BY <1>1, UpdateKeeps
<1>b. apm' = [apm EXCEPT !.states = CurrentStates(apm), !.first_update = FALSE]
  BY <1>1 DEF Update
<1>2. Keeps(apm, apm') /\ apm'.agc = apm.agc /\ apm'.agc_queue = apm.agc_queue
      /\ apm'.red_queue = apm.red_queue
  BY <1>a, <1>b
<1>3. Valid(apm') /\ apm'.api = apm.api
  BY <1>2, KeepsValid DEF IInv, Streams, Keeps
<1> DEFINE api == CaptureConfig(f)
<1>4. /\ DOMAIN api = Apis
      /\ api.input = f.input /\ api.output = f.output
  BY DEF CaptureConfig, IInv, Streams, Valid, Apis
<1> HIDE DEF api
<1>5. /\ DOMAIN pc = Threads /\ DOMAIN call = Threads
  BY DEF IInv, Locks
<1>6. /\ call'["capture"] = [f |-> f, api |-> api]
      /\ call'["render"] = call["render"]
      /\ pc'["capture"] \in {"lock_render", "lock_capture"}
      /\ pc'["capture"] = "lock_capture" => api = apm.api
      /\ pc'["render"] = pc["render"] /\ pc'["control"] = pc["control"]
      /\ DOMAIN pc' = Threads /\ DOMAIN call' = Threads
  BY <1>1, <1>5 DEF Threads, api
<1>7. Locks'
  BY <1>1, <1>6 DEF IInv, Locks, locks, CapturePlaces, Processing, Emptying
<1>8. CaptureCall'
  BY <1>3, <1>4, <1>6 DEF CaptureCall, IInv, Streams, Processing, Emptying
<1>9. RenderCall'
  BY <1>3, <1>6, SMTT(30) DEF RenderCall, IInv
<1>10. Emptied'
  BY <1>2, <1>6, SMTT(30) DEF Emptied, IInv, Keeps
<1> QED
  BY <1>3, <1>7, <1>8, <1>9, <1>10 DEF IInv, Streams

(* MaybeInitializeCapture() takes crit_render_.                            *)
LEMMA ReinitLockRenderInv ==
  ASSUME IInv, ReinitLockRender
  PROVE  IInv'
<1>1. /\ pc' = [pc EXCEPT !["capture"] = "reinit"] /\ pc["capture"] = "lock_render"
      /\ crit_render = "free" /\ crit_render' = "capture"
      /\ UNCHANGED <<apm, crit_capture, call>>
  BY DEF ReinitLockRender, At, Goto
<1>2. /\ pc'["capture"] = "reinit"
      /\ pc'["render"] = pc["render"] /\ pc'["control"] = pc["control"]
      /\ DOMAIN pc' = Threads
  BY <1>1 DEF IInv, Locks, Threads
<1>3. Locks'
  BY <1>1, <1>2 DEF IInv, Locks, CapturePlaces, Processing, Emptying
<1> QED
  BY <1>1, <1>2, <1>3 DEF IInv, Streams, CaptureCall, RenderCall, Emptied,
                          Processing, Emptying

(* The copy may be stale in the reverse formats, but crit_render_ is held: *)
(* no ProcessReverseStream() is under way to miss them.                    *)
LEMMA ReinitCaptureInv ==
  ASSUME IInv, ReinitCapture
  PROVE  IInv'
<1> DEFINE api == call["capture"].api
           ok == AcceptableFormat(api)
<1>1. /\ pc["capture"] = "reinit" /\ crit_capture = "free"
      /\ apm' = InitializeLockedWith(apm, api)
      /\ crit_render' = "free" /\ crit_capture' = crit_capture
      /\ ok => pc' = [pc EXCEPT !["capture"] = "lock_capture"] /\ call' = call
      /\ ~ ok => /\ pc' = [pc EXCEPT !["capture"] = "idle"]
                 /\ call' = [call EXCEPT !["capture"] = None]
  BY DEF ReinitCapture, ReinitCaptureWith, At, Goto, Return
<1>2. /\ DOMAIN api = Apis
      /\ api.input = call["capture"].f.input /\ api.output = call["capture"].f.output
  BY <1>1, SMTT(30) DEF IInv, CaptureCall
<1>3. Valid(apm') /\ apm'.api = IF ok THEN api ELSE apm.api
  BY <1>1, <1>2, InitializeLockedWithValid DEF IInv, Streams
<1> HIDE DEF ok
<1>4. /\ pc'["capture"] = IF ok THEN "lock_capture" ELSE "idle"
      /\ pc'["render"] = pc["render"] /\ pc'["control"] = pc["control"]
      /\ DOMAIN pc' = Threads /\ DOMAIN call' = Threads
      /\ ok => call' = call
  BY <1>1 DEF IInv, Locks, Threads
<1>5. pc["render"] = "idle" /\ pc["control"] = "idle" /\ crit_render = "capture"
  BY <1>1 DEF IInv, Locks
<1>6. Locks'
  BY <1>1, <1>4, <1>5 DEF IInv, Locks, CapturePlaces, Processing, Emptying
<1>7. Streams'
  BY <1>2, <1>3 DEF IInv, Streams
<1>8. CaptureCall'
  BY <1>2, <1>3, <1>4 DEF CaptureCall, Processing, Emptying
<1>9. RenderCall' /\ Emptied'
  BY <1>4, <1>5, SMTT(30) DEF RenderCall, Emptied, Emptying
<1> QED
  BY <1>6, <1>7, <1>8, <1>9 DEF IInv

(* ProcessStream() takes crit_capture_ again.                              *)
LEMMA LockCaptureInv ==
  ASSUME IInv, LockCapture
  PROVE  IInv'
<1>1. /\ pc' = [pc EXCEPT !["capture"] = "empty_aecm"]
      /\ pc["capture"] = "lock_capture"
      /\ crit_capture = "free" /\ crit_capture' = "capture"
      /\ UNCHANGED <<apm, crit_render, call>>
  BY DEF LockCapture, At, Goto
<1>2. /\ pc'["capture"] = "empty_aecm"
      /\ pc'["render"] = pc["render"] /\ pc'["control"] = pc["control"]
      /\ DOMAIN pc' = Threads
  BY <1>1 DEF IInv, Locks, Threads
<1>3. Locks'
  BY <1>1, <1>2 DEF IInv, Locks, CapturePlaces, Processing, Emptying
<1> QED
  BY <1>1, <1>2, <1>3 DEF IInv, Streams, CaptureCall, RenderCall, Emptied,
                          Processing, Emptying

(* ProcessStream() returns.                                                *)
LEMMA ProcessCaptureInv ==
  ASSUME IInv, ProcessCapture
  PROVE  IInv'
<1>1. /\ pc' = [pc EXCEPT !["capture"] = "idle"] /\ pc["capture"] = "process"
      /\ call' = [call EXCEPT !["capture"] = None]
      /\ crit_capture' = "free" /\ crit_render' = crit_render
      /\ apm' = apm \/ apm' = [apm EXCEPT !.delay_set = FALSE]
  BY DEF ProcessCapture, At, Goto, Return
<1>2. Keeps(apm, apm') /\ apm'.agc = apm.agc /\ apm'.agc_queue = apm.agc_queue
      /\ apm'.red_queue = apm.red_queue
  <2>1. CASE apm' = apm
    BY <2>1 DEF Keeps
  <2>2. CASE apm' = [apm EXCEPT !.delay_set = FALSE]
    BY <2>2 DEF Keeps
  <2> QED
    BY <1>1, <2>1, <2>2
<1>3. Valid(apm') /\ apm'.api = apm.api
  BY <1>2, KeepsValid DEF IInv, Streams, Keeps
<1>4. /\ pc'["capture"] = "idle" /\ call'["render"] = call["render"]
      /\ pc'["render"] = pc["render"] /\ pc'["control"] = pc["control"]
      /\ DOMAIN pc' = Threads /\ DOMAIN call' = Threads
  BY <1>1 DEF IInv, Locks, Threads
<1>5. Locks'
  BY <1>1, <1>4 DEF IInv, Locks, CapturePlaces, Processing, Emptying
<1>6. CaptureCall'
  BY <1>4, SMTT(30) DEF CaptureCall, Processing, Emptying
<1>7. RenderCall' /\ Emptied'
  BY <1>2, <1>3, <1>4 DEF IInv, RenderCall, Emptied, Keeps
<1> QED
  BY <1>3, <1>5, <1>6, <1>7 DEF IInv, Streams

-----------------------------------------------------------------------------
(* The queues. *)

(* A queue with one element less.                                          *)
LEMMA TailValid ==
  ASSUME NEW a, Valid(a), NEW q \in Queues, a[q] # <<>>,
         q = "aecm_queue" => a.aecm # None
  PROVE  Valid([a EXCEPT ![q] = Tail(a[q])])
<1> DEFINE s == Tail(a[q])
           b == [a EXCEPT ![q] = s]
<1> HIDE DEF s
<1>1. /\ DOMAIN b = DOMAIN a
      /\ b.api = a.api /\ b.render = a.render
      /\ b.capture_audio = a.capture_audio /\ b.render_audio = a.render_audio
      /\ b.aecm = a.aecm
      /\ b[q] = s /\ \A r \in Queues \ {q} : b[r] = a[r]
  <2>1. Tracked(a) /\ b = [a EXCEPT ![q] = s]
    BY DEF Valid
  <2> HIDE DEF b
  <2> QED
    BY <2>1 DEF Tracked, Queues
<1> HIDE DEF b
<1>2. Echo(b)
  <2>1. CASE q = "aecm_queue"
    <3>1. IsSeq(a.aecm_queue) /\ Shaped(a, a.aecm)
          /\ \A i \in DOMAIN a.aecm_queue : Shaped(a, a.aecm_queue[i])
      BY <2>1 DEF Valid, Echo
    <3>2. b.aecm_queue = Tail(a.aecm_queue) /\ a.aecm_queue # <<>>
      BY <1>1, <2>1 DEF s
    <3>3. IsSeq(b.aecm_queue)
          /\ \A i \in DOMAIN b.aecm_queue : Shaped(a, b.aecm_queue[i])
      BY <3>1, <3>2, TailSeq, SMTT(30)
    <3> QED
      BY <1>1, <3>1, <3>3 DEF Echo, Shaped
  <2>2. CASE q # "aecm_queue"
    BY <1>1, <2>2 DEF Valid, Echo, Shaped, Queues
  <2> QED
    BY <2>1, <2>2, SMTT(30)
<1>3. Valid(b)
  BY <1>1, <1>2 DEF Valid, Tracked, Buffers
<1> QED
  BY <1>3 DEF b, s

(* A queue with one element more, of the shape of the streams.             *)
LEMMA AppendValid ==
  ASSUME NEW a, Valid(a), NEW q \in Queues, NEW e,
         q = "aecm_queue" => a.aecm # None /\ Shaped(a, e)
  PROVE  Valid([a EXCEPT ![q] = Append(a[q], e)])
<1> DEFINE s == Append(a[q], e)
           b == [a EXCEPT ![q] = s]
<1> HIDE DEF s
<1>1. /\ DOMAIN b = DOMAIN a
      /\ b.api = a.api /\ b.render = a.render
      /\ b.capture_audio = a.capture_audio /\ b.render_audio = a.render_audio
      /\ b.aecm = a.aecm
      /\ b[q] = s /\ \A r \in Queues \ {q} : b[r] = a[r]
  <2>1. Tracked(a) /\ b = [a EXCEPT ![q] = s]
    BY DEF Valid
  <2> HIDE DEF b
  <2> QED
    BY <2>1 DEF Tracked, Queues
<1> HIDE DEF b
<1>2. Echo(b)
  <2>1. CASE q = "aecm_queue"
    <3>1. IsSeq(a.aecm_queue) /\ Shaped(a, a.aecm) /\ Shaped(a, e)
          /\ \A i \in DOMAIN a.aecm_queue : Shaped(a, a.aecm_queue[i])
      BY <2>1 DEF Valid, Echo
    <3>2. b.aecm_queue = Append(a.aecm_queue, e)
      BY <1>1, <2>1, SMTT(30) DEF s
    <3>3. IsSeq(b.aecm_queue)
          /\ \A i \in DOMAIN b.aecm_queue :
                b.aecm_queue[i] = e \/ (i \in DOMAIN a.aecm_queue
                                         /\ b.aecm_queue[i] = a.aecm_queue[i])
      BY <3>1, <3>2, AppendSeq
    <3>4. \A i \in DOMAIN b.aecm_queue : Shaped(a, b.aecm_queue[i])
      BY <3>1, <3>3
    <3> QED
      BY <1>1, <3>1, <3>3, <3>4 DEF Echo, Shaped
  <2>2. CASE q # "aecm_queue"
    BY <1>1, <2>2 DEF Valid, Echo, Shaped, Queues
  <2> QED
    BY <2>1, <2>2, SMTT(30)
<1>3. Valid(b)
  BY <1>1, <1>2 DEF Valid, Tracked, Buffers
<1> QED
  BY <1>3 DEF b, s

(* One element is taken out, by whichever thread. *)
LEMMA TakeInv ==
  ASSUME IInv, NEW q \in Queues, apm[q] # <<>>,
         q = "aecm_queue" => apm.aecm # None,
         apm' = [apm EXCEPT ![q] = Tail(@)],
         UNCHANGED <<crit_render, crit_capture, pc, call>>
  PROVE  IInv'
<1>1. Valid(apm')
  BY TailValid, ZenonT(30) DEF IInv, Streams
<1>2. /\ apm'.api = apm.api /\ apm'.aecm = apm.aecm /\ apm'.agc = apm.agc
      /\ \A r \in Queues \ {q} : apm'[r] = apm[r]
  <2>1. Tracked(apm)
    BY DEF IInv, Streams, Valid
  <2> QED
    BY <2>1 DEF Tracked, Queues
<1>3. \A r \in Queues : apm[r] = <<>> => apm'[r] = <<>>
  BY <1>2
<1>4. Emptied'
  BY <1>2, <1>3 DEF IInv, Emptied, Queues
<1> QED
  BY <1>1, <1>2, <1>4, ZenonT(30) DEF IInv, Locks, Streams, CaptureCall, RenderCall

(* The capture thread goes on to the next loop. *)
LEMMA CaptureMovesInv ==
  ASSUME IInv, pc["capture"] \in Processing,
         NEW l \in Processing, pc' = [pc EXCEPT !["capture"] = l],
         UNCHANGED <<apm, crit_render, crit_capture, call>>
  PROVE  IInv'
<1>1. /\ pc'["capture"] = l /\ DOMAIN pc' = Threads
      /\ pc'["render"] = pc["render"] /\ pc'["control"] = pc["control"]
  BY DEF IInv, Locks, Threads
<1>2. Locks'
  BY <1>1 DEF IInv, Locks, CapturePlaces, Processing, Emptying
<1>3. CaptureCall'
  BY <1>1 DEF IInv, CaptureCall, Processing, Emptying
<1>4. RenderCall' /\ Emptied'
  BY <1>1 DEF IInv, RenderCall, Emptied
<1> QED
  BY <1>2, <1>3, <1>4 DEF IInv, Streams

(* EmptyQueuedRenderAudio() in the capture thread: a queue that the render *)
(* thread has found empty is left as it is.                                *)
LEMMA CaptureEmptiesInv ==
  ASSUME IInv, EmptyAecm("capture") \/ EmptyAgc("capture") \/ EmptyRedCapture
  PROVE  IInv'
<1>1. ASSUME NEW q \in Queues, NEW present, NEW here \in Emptying,
             NEW next \in Processing,
             Pop("capture", q, present, here, next),
             q = "aecm_queue" => (present => apm.aecm # None)
      PROVE  IInv'
  <2>1. UNCHANGED <<crit_render, crit_capture, call>> /\ pc["capture"] = here
    BY <1>1 DEF Pop, At, locks
  <2>2. CASE present /\ apm[q] # <<>>
    <3>1. apm' = [apm EXCEPT ![q] = Tail(@)] /\ pc' = pc
      BY <1>1, <2>2 DEF Pop
    <3> QED
      BY <1>1, <2>1, <2>2, <3>1, TakeInv, ZenonT(30)
  <2>3. CASE ~ (present /\ apm[q] # <<>>)
    <3>1. pc' = [pc EXCEPT !["capture"] = next] /\ apm' = apm
      BY <1>1, <2>3 DEF Pop, Goto
    <3> QED
      BY <1>1, <2>1, <3>1, CaptureMovesInv, ZenonT(30) DEF Processing
  <2> QED
    BY <2>2, <2>3
<1>2. CASE EmptyAecm("capture")
  <2>1. Pop("capture", "aecm_queue", apm.aecm # None, "empty_aecm", "empty_agc")
    BY <1>2 DEF EmptyAecm
  <2> QED
    BY <1>1, <2>1, ZenonT(30) DEF Queues, Processing, Emptying
<1>3. CASE EmptyAgc("capture")
  <2>1. Pop("capture", "agc_queue", apm.agc # None, "empty_agc", "empty_red")
    BY <1>3 DEF EmptyAgc
  <2> QED
    BY <1>1, <2>1 DEF Queues, Processing, Emptying
<1>4. CASE EmptyRedCapture
  <2>1. Pop("capture", "red_queue", TRUE, "empty_red", "process")
    BY <1>4, ZenonT(30) DEF EmptyRedCapture
  <2> QED
    BY <1>1, <2>1, ZenonT(30) DEF Queues, Processing, Emptying
<1> QED
  BY <1>2, <1>3, <1>4

-----------------------------------------------------------------------------
(* The render thread. *)

(* ProcessReverseStream() takes crit_render_, and needs no initialization  *)
(* exactly when its formats are in force.                                  *)
LEMMA ProcessReverseStreamInv ==
  ASSUME IInv, ProcessReverseStream
  PROVE  IInv'
<1>1. PICK f \in RenderFormats :
        /\ pc["render"] = "idle" /\ crit_render = "free" /\ crit_render' = "render"
        /\ call' = [call EXCEPT !["render"] =
                      [f |-> f, split |-> FALSE, queue |-> None]]
        /\ pc' = [pc EXCEPT !["render"] = IF RenderConfig(f) # apm.api
                                            THEN "init" ELSE "red_queue"]
        /\ UNCHANGED <<apm, crit_capture>>
  BY ZenonT(30) DEF ProcessReverseStream, At, Goto
<1>2. /\ call'["render"] = [f |-> f, split |-> FALSE, queue |-> None]
      /\ call'["capture"] = call["capture"]
      /\ pc'["render"] \in {"init", "red_queue"}
      /\ pc'["render"] = "red_queue" => RenderConfig(f) = apm.api
      /\ pc'["capture"] = pc["capture"] /\ pc'["control"] = pc["control"]
      /\ DOMAIN pc' = Threads /\ DOMAIN call' = Threads
  BY <1>1 DEF IInv, Locks, Threads
<1>3. RenderConfig(f).rin = f.rin /\ RenderConfig(f).rout = f.rout
  BY SMTT(30) DEF RenderConfig, IInv, Streams, Valid, Apis
<1>4. Locks'
  BY <1>1, <1>2, SMTT(30) DEF IInv, Locks, RenderPlaces, Queues, Emptying
<1>5. CaptureCall'
  BY <1>1, <1>2, SMTT(30) DEF IInv, CaptureCall
<1>6. RenderCall'
  <2>1. call'["render"].f = f /\ DOMAIN call'["render"] = {"f", "split", "queue"}
    BY <1>2, SMTT(30)
  <2>2. pc'["render"] = "red_queue" => apm.api.rin = f.rin /\ apm.api.rout = f.rout
    BY <1>2, <1>3, SMTT(30)
  <2>3. pc'["render"] = "init" \/ pc'["render"] = "red_queue"
    BY <1>2, SMTT(30)
  <2> QED
    BY <1>1, <2>1, <2>2, <2>3, SMTT(30) DEF RenderCall
<1>7. Emptied'
  BY <1>2 DEF Emptied, Emptying
<1> QED
  BY <1>1, <1>4, <1>5, <1>6, <1>7 DEF IInv, Streams

(* MaybeInitializeRender() keeps the capture formats of the moment, which  *)
(* a capture thread between its critical sections relies on.               *)
LEMMA InitRenderInv ==
  ASSUME IInv, InitRender
  PROVE  IInv'
<1> DEFINE f == call["render"].f
           api == RenderConfig(f)
           ok == AcceptableFormat(api)
<1>1. /\ pc["render"] = "init" /\ crit_capture = "free"
      /\ crit_capture' = crit_capture
      /\ apm' = InitializeLockedWith(apm, api)
      /\ ok => /\ pc' = [pc EXCEPT !["render"] = "red_queue"]
               /\ UNCHANGED <<crit_render, call>>
      /\ ~ ok => /\ pc' = [pc EXCEPT !["render"] = "idle"]
                 /\ call' = [call EXCEPT !["render"] = None]
                 /\ crit_render' = "free"
  BY DEF InitRender, At, Goto, Return
<1>2. /\ DOMAIN api = Apis /\ api.rin = f.rin /\ api.rout = f.rout
      /\ api.input = apm.api.input /\ api.output = apm.api.output
  BY SMTT(30) DEF RenderConfig, IInv, Streams, Valid, Apis
<1>4. Valid(apm') /\ apm'.api = IF ok THEN api ELSE apm.api
  BY <1>1, <1>2, InitializeLockedWithValid DEF IInv, Streams
<1> HIDE DEF ok, api
<1>5. /\ pc'["render"] = IF ok THEN "red_queue" ELSE "idle"
      /\ pc'["capture"] = pc["capture"] /\ pc'["control"] = pc["control"]
      /\ DOMAIN pc' = Threads /\ DOMAIN call' = Threads
      /\ ok => call' = call
      /\ call'["capture"] = call["capture"]
  BY <1>1, SMTT(30) DEF IInv, Locks, Threads
<1>6. Locks'
  BY <1>1, <1>5 DEF IInv, Locks, RenderPlaces, Queues, Emptying
<1>7. Streams'
  BY <1>2, <1>4, SMTT(30) DEF IInv, Streams
<1>8. CaptureCall'
  BY <1>2, <1>4, <1>5, SMTT(30) DEF IInv, CaptureCall
<1>9. RenderCall'
  BY <1>1, <1>2, <1>4, <1>5, SMTT(30) DEF IInv, RenderCall
<1>10. Emptied'
  BY <1>5 DEF Emptied, Emptying
<1> QED
  BY <1>6, <1>7, <1>8, <1>9, <1>10, SMTT(30) DEF IInv

(* What a queue is given has the shape of the streams. *)
LEMMA PackedShape ==
  ASSUME IInv, pc["render"] \notin {"idle", "init"}
  PROVE  Shaped(apm, Packed("aecm_queue"))
<1>1. apm.render_audio.buf = apm.render
  <2>1. apm.api.rin.ch > 0
    BY ApmAssumption, SMTT(30) DEF IInv, RenderCall
  <2> QED
    BY <2>1, SMTT(30) DEF IInv, Streams, Valid, Buffers
<1>2. Packed("aecm_queue").och = apm.api.output.ch
      /\ Packed("aecm_queue").rch = apm.render_audio.buf.ch
  BY DEF Packed
<1> QED
  BY <1>1, <1>2 DEF Shaped

(* The render thread goes from a queue to a place where it holds nothing   *)
(* but crit_render_, and has put at most one element into a queue.         *)
LEMMA RenderMovesInv ==
  ASSUME IInv, pc["render"] \notin {"idle", "init"} \cup Emptying,
         NEW l \in Queues \cup {"split", "banded", "analyze"},
         pc' = [pc EXCEPT !["render"] = l],
         UNCHANGED <<crit_render, crit_capture>>,
         \A t \in {"capture", "control"} : call'[t] = call[t],
         DOMAIN call' = Threads,
         DOMAIN call'["render"] = {"f", "split", "queue"},
         call'["render"].f = call["render"].f,
         Valid(apm'), apm'.api = apm.api
  PROVE  IInv'
<1>1. /\ pc'["render"] = l /\ DOMAIN pc' = Threads
      /\ pc'["capture"] = pc["capture"] /\ pc'["control"] = pc["control"]
  BY DEF IInv, Locks, Threads
<1>2. Locks'
  BY <1>1, SMTT(30) DEF IInv, Locks, RenderPlaces, Emptying, Queues
<1>3. CaptureCall'
  BY <1>1 DEF IInv, CaptureCall
<1>4. RenderCall'
  BY <1>1 DEF IInv, RenderCall, Queues
<1>5. Emptied'
  BY <1>1 DEF Emptied, Emptying, Queues
<1> QED
  BY <1>2, <1>3, <1>4, <1>5 DEF IInv, Streams

(* The first Insert() into any of the queues.                              *)
LEMMA InsertInv ==
  ASSUME IInv, NEW q \in Queues, NEW wanted, Insert(q, wanted),
         q = "aecm_queue" => (wanted => apm.aecm # None),
         q = "agc_queue" => (wanted => apm.agc # None)
  PROVE  IInv'
<1>1. pc["render"] = q /\ UNCHANGED <<crit_render, crit_capture>>
  BY DEF Insert, At, locks
<1>2. pc["render"] \notin {"idle", "init"} \cup Emptying
  BY <1>1 DEF Queues, Emptying
<1>3. AfterQueue[q] \in Queues \cup {"split", "banded", "analyze"}
  BY SMTT(30) DEF AfterQueue, Queues
<1>4. DOMAIN call = Threads /\ DOMAIN call["render"] = {"f", "split", "queue"}
  BY <1>2 DEF IInv, Locks, RenderCall
<1>5. CASE ~ wanted
  <2>1. pc' = [pc EXCEPT !["render"] = AfterQueue[q]] /\ UNCHANGED <<apm, call>>
    BY <1>5 DEF Insert, Goto
  <2> QED
    BY <1>1, <1>2, <1>3, <1>4, <2>1, RenderMovesInv, ZenonT(30) DEF IInv, Streams
<1>6. CASE wanted /\ Len(apm[q]) < QueueSize
  <2> DEFINE e == Packed(q)
  <2>1. /\ pc' = [pc EXCEPT !["render"] = AfterQueue[q]] /\ call' = call
        /\ apm' = [apm EXCEPT ![q] = Append(apm[q], e)]
    BY <1>6, SMTT(30) DEF Insert, Goto
  <2>2. q = "aecm_queue" => apm.aecm # None /\ Shaped(apm, e)
    BY <1>2, <1>6, PackedShape
  <2> HIDE DEF e
  <2>3. Valid(apm')
    BY <2>1, <2>2, AppendValid, ZenonT(30) DEF IInv, Streams
  <2>4. apm'.api = apm.api
    BY <2>1 DEF IInv, Streams, Valid, Tracked, Queues
  <2> QED
    BY <1>1, <1>2, <1>3, <1>4, <2>1, <2>3, <2>4, RenderMovesInv, ZenonT(30)
<1>7. CASE wanted /\ ~ (Len(apm[q]) < QueueSize)
  <2>1. /\ pc' = [pc EXCEPT !["render"] = "full"] /\ apm' = apm
        /\ call' = [call EXCEPT !["render"].queue = q]
    BY <1>7 DEF Insert, Goto
  <2>2. /\ pc'["render"] = "full" /\ DOMAIN pc' = Threads
        /\ pc'["capture"] = pc["capture"] /\ pc'["control"] = pc["control"]
    BY <2>1 DEF IInv, Locks, Threads
  <2>3. /\ DOMAIN call' = Threads /\ call'["capture"] = call["capture"]
        /\ DOMAIN call'["render"] = {"f", "split", "queue"}
        /\ call'["render"].f = call["render"].f /\ call'["render"].queue = q
    BY <1>4, <2>1, SMTT(30) DEF Threads
  <2>4. Locks'
    BY <1>1, <1>2, <2>2, <2>3 DEF IInv, Locks, RenderPlaces, Emptying, Queues
  <2>5. CaptureCall'
    BY <2>1, <2>2, <2>3 DEF IInv, CaptureCall
  <2>6. RenderCall'
    BY <1>2, <2>1, <2>2, <2>3 DEF IInv, RenderCall
  <2>7. Emptied'
    BY <1>7, <2>1, <2>2, <2>3, SMTT(30) DEF Emptied, Emptying
  <2> QED
    BY <2>1, <2>4, <2>5, <2>6, <2>7 DEF IInv, Streams
<1> QED
  BY <1>5, <1>6, <1>7

(* The three places that insert.                                           *)
LEMMA InsertsInv ==
  ASSUME IInv, InsertRed \/ InsertAecm \/ InsertAgc
  PROVE  IInv'
<1>1. CASE InsertRed
  BY <1>1, InsertInv, ZenonT(30) DEF InsertRed, Queues
<1>2. CASE InsertAecm
  BY <1>2, InsertInv, ZenonT(30) DEF InsertAecm, Queues
<1>3. CASE InsertAgc
  <2> DEFINE wanted == apm.agc_manager = None /\ apm.agc # None
  <2>1. Insert("agc_queue", wanted) /\ (wanted => apm.agc # None)
    BY <1>3, SMTT(30) DEF InsertAgc
  <2> HIDE DEF wanted
  <2> QED
    BY <2>1, InsertInv DEF Queues
<1> QED
  BY <1>1, <1>2, <1>3

(* EmptyQueuedRenderAudio() takes crit_capture_.                           *)
LEMMA LockFullInv ==
  ASSUME IInv, LockFull
  PROVE  IInv'
<1>1. /\ pc' = [pc EXCEPT !["render"] = "empty_aecm"] /\ pc["render"] = "full"
      /\ crit_capture = "free" /\ crit_capture' = "render"
      /\ UNCHANGED <<apm, crit_render, call>>
  BY DEF LockFull, At, Goto
<1>2. /\ pc'["render"] = "empty_aecm" /\ DOMAIN pc' = Threads
      /\ pc'["capture"] = pc["capture"] /\ pc'["control"] = pc["control"]
  BY <1>1, SMTT(30) DEF IInv, Locks, Threads
<1>3. Locks'
  BY <1>1, <1>2, SMTT(30) DEF IInv, Locks, RenderPlaces, Emptying
<1> QED
  BY <1>1, <1>2, <1>3 DEF IInv, Streams, CaptureCall, RenderCall, Emptied, Emptying

(* A loop of EmptyQueuedRenderAudio() ends: the next one starts, or the    *)
(* lock is released for the second Insert().                               *)
LEMMA RenderEmptiesNextInv ==
  ASSUME IInv, pc["render"] \in Emptying,
         NEW l \in {"empty_agc", "empty_red", "retry"},
         pc' = [pc EXCEPT !["render"] = l],
         UNCHANGED <<apm, crit_render, call>>,
         crit_capture' = IF l = "retry" THEN "free" ELSE crit_capture,
         pc["render"] = "empty_aecm" => l = "empty_agc",
         pc["render"] = "empty_agc" => l = "empty_red",
         pc["render"] = "empty_red" => l = "retry",
         pc["render"] = "empty_aecm" =>
           (apm.aecm # None => apm.aecm_queue = <<>>),
         pc["render"] = "empty_agc" => (apm.agc # None => apm.agc_queue = <<>>),
         pc["render"] = "empty_red" => apm.red_queue = <<>>
  PROVE  IInv'
<1>1. /\ pc'["render"] = l /\ DOMAIN pc' = Threads
      /\ pc'["capture"] = pc["capture"] /\ pc'["control"] = pc["control"]
  BY SMTT(30) DEF IInv, Locks, Threads
<1>2. Locks'
  BY <1>1, SMTT(30) DEF IInv, Locks, RenderPlaces, Emptying
<1>3. CaptureCall'
  BY <1>1, SMTT(30) DEF IInv, CaptureCall
<1>4. RenderCall'
  BY <1>1, SMTT(30) DEF IInv, RenderCall, Emptying
<1>5. Emptied'
  BY <1>1 DEF IInv, Emptied, Emptying
<1> QED
  BY <1>2, <1>3, <1>4, <1>5, SMTT(30) DEF IInv, Streams

(* EmptyQueuedRenderAudio() in the render thread.                          *)
LEMMA RenderEmptiesInv ==
  ASSUME IInv, EmptyAecm("render") \/ EmptyAgc("render") \/ EmptyRedRender
  PROVE  IInv'
<1>1. CASE EmptyAecm("render")
  <2>1. pc["render"] = "empty_aecm" /\ UNCHANGED <<crit_render, crit_capture, call>>
    BY <1>1 DEF EmptyAecm, Pop, At, locks
  <2>2. CASE apm.aecm # None /\ apm.aecm_queue # <<>>
    <3>1. apm' = [apm EXCEPT !["aecm_queue"] = Tail(@)] /\ pc' = pc
      BY <1>1, <2>2 DEF EmptyAecm, Pop
    <3> QED
      BY <2>1, <2>2, <3>1, TakeInv, SMTT(30) DEF Queues
  <2>3. CASE ~ (apm.aecm # None /\ apm.aecm_queue # <<>>)
    <3>1. pc' = [pc EXCEPT !["render"] = "empty_agc"] /\ apm' = apm
      BY <1>1, <2>3 DEF EmptyAecm, Pop, Goto
    <3> QED
      BY <2>1, <2>3, <3>1, RenderEmptiesNextInv DEF Emptying
  <2> QED
    BY <2>2, <2>3
<1>2. CASE EmptyAgc("render")
  <2>1. pc["render"] = "empty_agc" /\ UNCHANGED <<crit_render, crit_capture, call>>
    BY <1>2 DEF EmptyAgc, Pop, At, locks
  <2>2. CASE apm.agc # None /\ apm.agc_queue # <<>>
    <3>1. apm' = [apm EXCEPT !["agc_queue"] = Tail(@)] /\ pc' = pc
      BY <1>2, <2>2 DEF EmptyAgc, Pop
    <3> QED
      BY <2>1, <2>2, <3>1, TakeInv DEF Queues
  <2>3. CASE ~ (apm.agc # None /\ apm.agc_queue # <<>>)
    <3>1. pc' = [pc EXCEPT !["render"] = "empty_red"] /\ apm' = apm
      BY <1>2, <2>3 DEF EmptyAgc, Pop, Goto
    <3> QED
      BY <2>1, <2>3, <3>1, RenderEmptiesNextInv DEF Emptying
  <2> QED
    BY <2>2, <2>3
<1>3. CASE EmptyRedRender
  <2>1. pc["render"] = "empty_red" /\ UNCHANGED <<crit_render, call>>
    BY <1>3 DEF EmptyRedRender, At
  <2>2. CASE apm.red_queue # <<>>
    <3>1. apm' = [apm EXCEPT !["red_queue"] = Tail(@)]
          /\ UNCHANGED <<pc, crit_capture>>
      BY <1>3, <2>2 DEF EmptyRedRender
    <3> QED
      BY <2>1, <2>2, <3>1, TakeInv DEF Queues
  <2>3. CASE apm.red_queue = <<>>
    <3>1. /\ pc' = [pc EXCEPT !["render"] = "retry"] /\ apm' = apm
          /\ crit_capture' = "free"
      BY <1>3, <2>3 DEF EmptyRedRender, Goto
    <3> QED
      BY <2>1, <2>3, <3>1, RenderEmptiesNextInv DEF Emptying
  <2> QED
    BY <2>2, <2>3
<1> QED
  BY <1>1, <1>2, <1>3

(* The second Insert().                                                    *)
LEMMA RetryInv ==
  ASSUME IInv, Retry
  PROVE  IInv'
<1> DEFINE q == call["render"].queue
           e == Packed(q)
<1>1. /\ pc["render"] = "retry" /\ UNCHANGED <<crit_render, crit_capture>>
      /\ pc' = [pc EXCEPT !["render"] = AfterQueue[q]]
      /\ call' = [call EXCEPT !["render"].queue = None]
      /\ apm' = apm \/ apm' = [apm EXCEPT ![q] = Append(apm[q], e)]
  BY DEF Retry, At, Goto, locks
<1>2. q \in Queues /\ (q = "aecm_queue" => apm.aecm # None)
  BY <1>1 DEF IInv, Emptied
<1>3. AfterQueue[q] \in Queues \cup {"split", "banded", "analyze"}
  BY <1>2 DEF AfterQueue, Queues
<1>4. DOMAIN call = Threads /\ DOMAIN call["render"] = {"f", "split", "queue"}
  BY <1>1 DEF IInv, Locks, RenderCall
<1>5. /\ DOMAIN call' = Threads /\ DOMAIN call'["render"] = {"f", "split", "queue"}
      /\ call'["render"].f = call["render"].f
      /\ \A t \in {"capture", "control"} : call'[t] = call[t]
  BY <1>1, <1>4 DEF Threads
<1>6. q = "aecm_queue" => apm.aecm # None /\ Shaped(apm, e)
  BY <1>1, <1>2, PackedShape, SMTT(30)
<1>7. Valid(apm') /\ apm'.api = apm.api
  <2>1. CASE apm' = apm
    BY <2>1 DEF IInv, Streams
  <2>2. CASE apm' = [apm EXCEPT ![q] = Append(apm[q], e)]
    <3> HIDE DEF q, e
    <3>1. Valid(apm')
      BY <1>2, <1>6, <2>2, AppendValid, ZenonT(30) DEF IInv, Streams
    <3>2. apm'.api = apm.api
      BY <1>2, <2>2 DEF IInv, Streams, Valid, Tracked, Queues
    <3> QED
      BY <3>1, <3>2
  <2> QED
    BY <1>1, <2>1, <2>2
<1>8. pc["render"] \notin {"idle", "init"} \cup Emptying
  BY <1>1 DEF Emptying
<1> HIDE DEF q
<1> QED
  BY <1>1, <1>3, <1>5, <1>7, <1>8, RenderMovesInv, ZenonT(30)

(* The two reads of submodule_states_.                                     *)
LEMMA BandsInv ==
  ASSUME IInv, SplitIntoFrequencyBands \/ QueueBandedRenderAudio
  PROVE  IInv'
<1>1. pc["render"] \in {"split", "banded"} /\ UNCHANGED <<apm, crit_render, crit_capture>>
  BY DEF SplitIntoFrequencyBands, QueueBandedRenderAudio, At, locks
<1>2. DOMAIN call = Threads /\ DOMAIN call["render"] = {"f", "split", "queue"}
  BY <1>1 DEF IInv, Locks, RenderCall
<1>3. pc["render"] \notin {"idle", "init"} \cup Emptying
  BY <1>1 DEF Emptying
<1>4. CASE SplitIntoFrequencyBands
  <2> DEFINE s == /\ RenderMultiBandSubModulesActive(apm.states)
                  /\ SampleRateSupportsMultiBand(apm.render.rate)
  <2>1. /\ pc' = [pc EXCEPT !["render"] = "banded"]
        /\ call' = [call EXCEPT !["render"].split = s]
    BY <1>4 DEF SplitIntoFrequencyBands, Goto
  <2> HIDE DEF s
  <2>2. /\ DOMAIN call' = Threads /\ DOMAIN call'["render"] = {"f", "split", "queue"}
        /\ call'["render"].f = call["render"].f
        /\ \A t \in {"capture", "control"} : call'[t] = call[t]
    BY <1>2, <2>1 DEF Threads
  <2> QED
    BY <1>1, <1>3, <2>1, <2>2, RenderMovesInv, ZenonT(30) DEF IInv, Streams
<1>5. CASE QueueBandedRenderAudio
  <2> DEFINE l == IF RenderMultiBandSubModulesActive(apm.states)
                    THEN "aecm_queue" ELSE "analyze"
  <2>1. pc' = [pc EXCEPT !["render"] = l] /\ call' = call
    BY <1>5 DEF QueueBandedRenderAudio, Goto
  <2>2. l \in Queues \cup {"split", "banded", "analyze"}
    BY DEF Queues
  <2> HIDE DEF l
  <2> QED
    BY <1>1, <1>2, <1>3, <2>1, <2>2, RenderMovesInv, ZenonT(30) DEF IInv, Streams
<1> QED
  BY <1>4, <1>5

(* ProcessReverseStream() returns.                                         *)
LEMMA AnalyzeRenderInv ==
  ASSUME IInv, AnalyzeRender
  PROVE  IInv'
<1>1. /\ pc' = [pc EXCEPT !["render"] = "idle"] /\ pc["render"] = "analyze"
      /\ call' = [call EXCEPT !["render"] = None]
      /\ crit_render' = "free"
      /\ UNCHANGED <<apm, crit_capture>>
  BY DEF AnalyzeRender, At, Goto, Return
<1>2. /\ pc'["render"] = "idle" /\ call'["capture"] = call["capture"]
      /\ pc'["capture"] = pc["capture"] /\ pc'["control"] = pc["control"]
      /\ DOMAIN pc' = Threads /\ DOMAIN call' = Threads
  BY <1>1, SMTT(30) DEF IInv, Locks, Threads
<1>3. Locks'
  BY <1>1, <1>2, SMTT(30) DEF IInv, Locks, RenderPlaces, Emptying
<1>4. CaptureCall'
  BY <1>1, <1>2, SMTT(30) DEF IInv, CaptureCall
<1>5. RenderCall' /\ Emptied'
  BY <1>2 DEF RenderCall, Emptied, Emptying
<1> QED
  BY <1>1, <1>3, <1>4, <1>5 DEF IInv, Streams

-----------------------------------------------------------------------------
(* The control thread. *)

(* ApplyConfig() and Initialize() take crit_render_.                       *)
LEMMA ControlLockInv ==
  ASSUME IInv, ControlLock
  PROVE  IInv'
<1>1. PICK l \in {"apply", "initialize", "initialize_formats"} : pc' = [pc EXCEPT !["control"] = l]
  BY DEF ControlLock, Goto
<1>2. /\ pc["control"] = "idle" /\ crit_render = "free" /\ crit_render' = "control"
      /\ UNCHANGED <<apm, crit_capture>>
  BY DEF ControlLock, At
<1>3. \/ call' = call
      \/ \E c : call' = [call EXCEPT !["control"] = c]
  BY DEF ControlLock
<1>4. /\ DOMAIN call' = Threads /\ call'["capture"] = call["capture"]
      /\ call'["render"] = call["render"]
  BY <1>3 DEF IInv, Locks, Threads
<1>5. /\ pc'["control"] = l /\ DOMAIN pc' = Threads
      /\ pc'["capture"] = pc["capture"] /\ pc'["render"] = pc["render"]
  BY <1>1, SMTT(30) DEF IInv, Locks, Threads
<1>6. Locks'
  BY <1>2, <1>4, <1>5, SMTT(30) DEF IInv, Locks, ControlPlaces
<1>7. CaptureCall'
  BY <1>2, <1>4, <1>5, SMTT(30) DEF IInv, CaptureCall
<1>8. RenderCall' /\ Emptied'
  BY <1>2, <1>4, <1>5 DEF IInv, RenderCall, Emptied
<1> QED
  BY <1>2, <1>6, <1>7, <1>8 DEF IInv, Streams

(* They reinitialize under both locks, so the render thread is idle.       *)
LEMMA ControlInv ==
  ASSUME IInv, ControlCall, Control
  PROVE  IInv'
<1>1. /\ pc["control"] # "idle" /\ crit_render' = "free"
      /\ crit_capture = "free" /\ crit_capture' = crit_capture
      /\ pc' = [pc EXCEPT !["control"] = "idle"]
      /\ call' = [call EXCEPT !["control"] = None]
      /\ \/ apm' = ApplyConfig(apm, call["control"])
         \/ apm' = InitializeLocked(apm)
         \/ /\ pc["control"] = "initialize_formats"
            /\ apm' = InitializeLockedWith(apm, call["control"])
  BY DEF Control, At, Goto, Return
<1>2. Valid(apm')
  <2>1. Valid(apm) /\ Tracked(apm) /\ DOMAIN apm.api = Apis
    BY DEF IInv, Streams, Valid
  <2>2. CASE apm' = ApplyConfig(apm, call["control"])
    BY <2>1, <2>2, ApplyConfigValid
  <2>3. CASE apm' = InitializeLocked(apm)
    BY <2>1, <2>3, InitializeLockedValid, SMTT(30)
  <2>4. CASE /\ pc["control"] = "initialize_formats"
             /\ apm' = InitializeLockedWith(apm, call["control"])
    BY <2>1, <2>4, InitializeLockedWithValid, SMTT(30) DEF ControlCall
  <2> QED
    BY <1>1, <2>2, <2>3, <2>4
<1>3. /\ pc'["control"] = "idle" /\ call'["capture"] = call["capture"]
      /\ pc'["capture"] = pc["capture"] /\ pc'["render"] = pc["render"]
      /\ DOMAIN pc' = Threads /\ DOMAIN call' = Threads
  BY <1>1 DEF IInv, Locks, Threads
<1>4. pc["render"] = "idle" /\ crit_render = "control"
  BY <1>1, SMTT(30) DEF IInv, Locks
<1>5. Locks'
  BY <1>1, <1>3, <1>4, SMTT(30) DEF IInv, Locks, ControlPlaces
<1>6. CaptureCall'
  BY <1>2, <1>3, SMTT(30) DEF IInv, CaptureCall
<1>7. RenderCall' /\ Emptied'
  BY <1>3, <1>4 DEF RenderCall, Emptied, Emptying
<1> QED
  BY <1>2, <1>5, <1>6, <1>7, SMTT(30) DEF IInv, Streams

-----------------------------------------------------------------------------
(* The theorems. *)

(* Every step keeps the invariant.                                         *)
LEMMA NextInv == IInv /\ ControlCall /\ [Next]_vars => IInv'
<1> SUFFICES ASSUME IInv, ControlCall, [Next]_vars PROVE IInv'
  OBVIOUS
<1>1. CASE CaptureNext
  BY <1>1, SetStreamDelayInv, ProcessStreamInv, ReinitLockRenderInv,
     ReinitCaptureInv, LockCaptureInv, CaptureEmptiesInv, ProcessCaptureInv
     DEF CaptureNext
<1>2. CASE RenderNext
  BY <1>2, ProcessReverseStreamInv, InitRenderInv, InsertsInv, BandsInv,
     LockFullInv, RenderEmptiesInv, RetryInv, AnalyzeRenderInv DEF RenderNext
<1>3. CASE ControlLock \/ Control
  BY <1>3, ControlLockInv, ControlInv
<1>4. CASE UNCHANGED vars
  <2>1. UNCHANGED <<apm, crit_render, crit_capture, pc, call>>
    BY <1>4 DEF vars
  <2>2. Locks' /\ Streams'
    BY <2>1, SMTT(30) DEF IInv, Locks, Streams
  <2>3. CaptureCall' /\ RenderCall' /\ Emptied'
    BY <2>1 DEF IInv, CaptureCall, RenderCall, Emptied
  <2> QED
    BY <2>2, <2>3 DEF IInv
<1> QED
  BY <1>1, <1>2, <1>3, <1>4 DEF Next

(* The capture and the render thread leave each other's calls and those of *)
(* the control thread alone.                                               *)
LEMMA OwnCalls ==
  ASSUME Locks
  PROVE  /\ CaptureNext => /\ pc'["control"] = pc["control"]
                           /\ call'["control"] = call["control"]
         /\ RenderNext => \A t \in {"capture", "control"} :
                            pc'[t] = pc[t] /\ call'[t] = call[t]
<1> USE DEF Goto, Return, Pop
<1>1. ASSUME CaptureNext
      PROVE  /\ pc' = pc \/ \E l : pc' = [pc EXCEPT !["capture"] = l]
             /\ call' = call \/ \E k : call' = [call EXCEPT !["capture"] = k]
  BY <1>1, ZenonT(30)
  DEF CaptureNext, SetStreamDelay, ProcessStream, CallProcessStream,
      ReinitLockRender, ReinitCapture, ReinitCaptureWith, LockCapture, EmptyAecm,
      EmptyAgc, EmptyRedCapture, ProcessCapture
<1>2. ASSUME RenderNext
      PROVE  /\ pc' = pc \/ \E l : pc' = [pc EXCEPT !["render"] = l]
             /\ call' = call \/ \E k : call' = [call EXCEPT !["render"] = k]
  BY <1>2, ZenonT(30)
  DEF RenderNext, ProcessReverseStream, InitRender, InsertRed, InsertAecm,
      InsertAgc, Insert, SplitIntoFrequencyBands, QueueBandedRenderAudio,
      LockFull, EmptyAecm, EmptyAgc, EmptyRedRender, Retry, AnalyzeRender
<1> QED
  BY <1>1, <1>2, SMTT(30) DEF Locks, Threads

(* Initialize() with formats gets the four streams of InitFormats.         *)
LEMMA ControlCallStep ==
  ASSUME Locks, ControlCall, [Next]_vars
  PROVE  ControlCall'
<1>1. CASE CaptureNext \/ RenderNext
  BY <1>1, OwnCalls DEF ControlCall
<1>2. CASE ControlLock
  <2>1. CASE pc' = [pc EXCEPT !["control"] = "apply"]
             \/ pc' = [pc EXCEPT !["control"] = "initialize"]
    BY <2>1 DEF ControlCall, Locks, Threads
  <2>2. ASSUME NEW api \in InitFormats, call' = [call EXCEPT !["control"] = api]
        PROVE  ControlCall'
    <3>1. DOMAIN api = Apis
      BY ApmAssumption, SMTT(30) DEF Apis
    <3> QED
      BY <2>2, <3>1, SMTT(30) DEF ControlCall, Locks, Threads
  <2> QED
    BY <1>2, <2>1, <2>2, SMTT(30) DEF ControlLock, Goto
<1>3. CASE Control
  BY <1>3 DEF Control, Return, Goto, ControlCall, Locks, Threads
<1>4. CASE UNCHANGED vars
  BY <1>4 DEF vars, ControlCall
<1> QED
  BY <1>1, <1>2, <1>3, <1>4 DEF Next

(* The invariant holds in every reachable state.                           *)
LEMMA Invariance == Spec => []IInv
<1>1. Init => ControlCall
  BY DEF Init, ControlCall, Threads
<1>2. IInv /\ ControlCall /\ [Next]_vars => IInv' /\ ControlCall'
  BY NextInv, ControlCallStep, SMTT(30) DEF IInv
<1> QED
  BY <1>1, <1>2, InitInv, PTL DEF Spec

(* Only who reinitializes changes api_format: the capture thread with the  *)
(* formats of its own call, the render thread without touching those of    *)
(* the capture stream, and Initialize() with formats.                      *)
LEMMA ApiStep ==
  ASSUME IInv
  PROVE  /\ CaptureNext => ReinitCapture \/ apm'.api = apm.api
         /\ RenderNext => /\ apm'.api.input = apm.api.input
                          /\ apm'.api.output = apm.api.output
         /\ Control => \/ apm'.api = apm.api
                       \/ At("control", "initialize_formats")
<1>0. Valid(apm) /\ Tracked(apm) /\ DOMAIN apm.api = Apis
  BY DEF IInv, Streams, Valid
<1>1. ASSUME NEW q \in Queues, NEW s, apm' = [apm EXCEPT ![q] = s]
      PROVE  apm'.api = apm.api
  BY <1>0, <1>1 DEF Queues, Tracked
<1>2. ASSUME CaptureNext PROVE ReinitCapture \/ apm'.api = apm.api
  <2>1. CASE ProcessStream
    BY <2>1, UpdateKeeps DEF ProcessStream, CallProcessStream, Keeps
  <2>2. CASE EmptyAecm("capture") \/ EmptyAgc("capture") \/ EmptyRedCapture
    BY <1>1, <2>2, ZenonT(30) DEF EmptyAecm, EmptyAgc, EmptyRedCapture, Pop, Queues
  <2>3. CASE SetStreamDelay \/ ReinitLockRender \/ LockCapture \/ ProcessCapture
    BY <1>0, <2>3
    DEF SetStreamDelay, ReinitLockRender, LockCapture, ProcessCapture, Tracked
  <2> QED
    BY <1>2, <2>1, <2>2, <2>3, SMTT(30) DEF CaptureNext
<1>3. ASSUME RenderNext
      PROVE  apm'.api.input = apm.api.input /\ apm'.api.output = apm.api.output
  <2>1. CASE InitRender
    <3> DEFINE api == RenderConfig(call["render"].f)
    <3>1. /\ DOMAIN api = Apis
          /\ api.input = apm.api.input /\ api.output = apm.api.output
      BY <1>0 DEF RenderConfig, Apis
    <3>2. apm' = InitializeLockedWith(apm, api)
      BY <2>1 DEF InitRender
    <3> HIDE DEF api
    <3>3. apm'.api = IF AcceptableFormat(api) THEN api ELSE apm.api
      BY <1>0, <3>1, <3>2, InitializeLockedWithValid
    <3> QED
      BY <3>1, <3>3
  <2>2. CASE InsertRed \/ InsertAecm \/ InsertAgc
    BY <1>1, <2>2, ZenonT(30) DEF InsertRed, InsertAecm, InsertAgc, Insert, Queues
  <2>3. CASE EmptyAecm("render") \/ EmptyAgc("render") \/ EmptyRedRender
    BY <1>1, <2>3, ZenonT(30) DEF EmptyAecm, EmptyAgc, EmptyRedRender, Pop, Queues
  <2>4. CASE Retry
    <3>1. call["render"].queue \in Queues
      BY <2>4 DEF Retry, At, IInv, Emptied
    <3> QED
      BY <1>1, <2>4, <3>1, ZenonT(30) DEF Retry
  <2>5. CASE apm' = apm
    BY <2>5
  <2> QED
    BY <1>3, <2>1, <2>2, <2>3, <2>4, <2>5, SMTT(30)
    DEF RenderNext, ProcessReverseStream, SplitIntoFrequencyBands,
        QueueBandedRenderAudio, LockFull, AnalyzeRender
<1>4. Control => apm'.api = apm.api \/ At("control", "initialize_formats")
  BY <1>0, ApplyConfigValid, InitializeLockedValid DEF Control
<1> QED
  BY <1>2, <1>3, <1>4

(* What MaybeInitializeCapture() has put in force lasts, but for an        *)
(* Initialize() with formats that comes before the lock.                   *)
LEMMA CaptureFormatsStep ==
  ASSUME IInv, IInv', [Next]_vars, InProcessStream',
         InProcessStream => CaptureFormatsHold,
         ~ (At("capture", "lock_capture") /\ At("control", "initialize_formats"))
  PROVE  CaptureFormatsHold'
<1> DEFINE f == call["capture"].f
           InForce == apm.api.input = f.input /\ apm.api.output = f.output
<1>1. InForce' => CaptureFormatsHold'
  BY DEF CaptureFormatsHold, IInv, Streams, Valid, Buffers
<1>2. InProcessStream => InForce
  BY DEF CaptureFormatsHold
<1>3. CASE ReinitCapture
  <2> DEFINE api == call["capture"].api
  <2>1. /\ pc["capture"] = "reinit" /\ apm' = InitializeLockedWith(apm, api)
        /\ AcceptableFormat(api) => call' = call
        /\ ~ AcceptableFormat(api) => pc' = [pc EXCEPT !["capture"] = "idle"]
    BY <1>3, SMTT(30) DEF ReinitCapture, ReinitCaptureWith, At, Goto, Return
  <2>2. DOMAIN api = Apis /\ api.input = f.input /\ api.output = f.output
    BY <2>1, SMTT(30) DEF IInv, CaptureCall
  <2>3. AcceptableFormat(api)
    BY <2>1, SMTT(30) DEF InProcessStream, Processing, Emptying, IInv, Locks, Threads
  <2>4. apm'.api = api /\ call' = call
    BY <2>1, <2>2, <2>3, InitializeLockedWithValid, SMTT(30) DEF IInv, Streams
  <2> QED
    BY <1>1, <2>2, <2>4
<1>4. CASE ProcessStream
  <2>1. PICK g \in CaptureFormats :
          /\ call' = [call EXCEPT !["capture"] = [f |-> g, api |-> CaptureConfig(g)]]
          /\ pc' = [pc EXCEPT !["capture"] =
                      IF StatesChanged(apm) \/ CaptureConfig(g) # apm.api
                        THEN "lock_render" ELSE "lock_capture"]
          /\ apm' = Update(apm)
    BY <1>4, ZenonT(30) DEF ProcessStream, CallProcessStream, Goto
  <2>2. CaptureConfig(g).input = g.input /\ CaptureConfig(g).output = g.output
    BY SMTT(30) DEF CaptureConfig, IInv, Streams, Valid, Apis
  <2>3. CaptureConfig(g) = apm.api
    BY <2>1, SMTT(30) DEF InProcessStream, Processing, Emptying, IInv, Locks, Threads
  <2>4. apm'.api = apm.api
    BY <2>1, UpdateKeeps, SMTT(30) DEF Keeps
  <2>5. call'["capture"].f = g
    BY <2>1 DEF IInv, Locks, Threads
  <2> QED
    BY <1>1, <2>2, <2>3, <2>4, <2>5
<1>5. CASE CaptureNext /\ ~ ReinitCapture /\ ~ ProcessStream
  <2>1. apm'.api = apm.api
    BY <1>5, ApiStep
  <2>2. InProcessStream /\ call' = call
    BY <1>5
    DEF CaptureNext, SetStreamDelay, ReinitLockRender, LockCapture, EmptyAecm,
        EmptyAgc, EmptyRedCapture, Pop, ProcessCapture, Goto, Return, At, locks,
        InProcessStream, Processing, Emptying, IInv, Locks, Threads
  <2> QED
    BY <1>1, <1>2, <2>1, <2>2, SMTT(30)
<1>6. CASE RenderNext \/ ControlLock \/ Control \/ UNCHANGED vars
  <2>1. pc'["capture"] = pc["capture"] /\ call'["capture"] = call["capture"]
    <3>1. CASE RenderNext
      BY <3>1, OwnCalls, SMTT(30) DEF IInv
    <3>2. CASE ControlLock \/ Control
      BY <3>2 DEF ControlLock, Control, Goto, Return, IInv, Locks, Threads
    <3> QED
      BY <1>6, <3>1, <3>2 DEF vars
  <2>2. InProcessStream
    BY <2>1 DEF InProcessStream
  <2>3. ~ (Control /\ At("control", "initialize_formats"))
    <3>1. Control => pc["capture"] \notin Processing
      BY SMTT(30) DEF Control, IInv, Locks
    <3> QED
      BY <2>2, <3>1, SMTT(30) DEF InProcessStream, At
  <2>4. apm'.api.input = apm.api.input /\ apm'.api.output = apm.api.output
    BY <1>6, <2>3, ApiStep DEF ControlLock, vars
  <2> QED
    BY <1>1, <1>2, <2>1, <2>2, <2>4
<1> QED
  BY <1>3, <1>4, <1>5, <1>6, SMTT(30) DEF Next

(* The formats of ProcessReverseStream() stay in force, in api_format and  *)
(* in the audio buffer, until it returns; those of ProcessStream() from    *)
(* the return of MaybeInitializeCapture() on, whatever the other threads   *)
(* do between its critical sections, unless one of them calls Initialize() *)
(* with formats.                                                           *)
THEOREM FormatsStayInForce == Spec => FormatsKept
<1> DEFINE Kept ==
      /\ pc'["render"] \notin {"idle", "init"} => RenderFormatsHold'
      /\ InProcessStream' =>
           \/ CaptureFormatsHold'
           \/ InProcessStream /\ ~ CaptureFormatsHold
           \/ At("capture", "lock_capture") /\ At("control", "initialize_formats")
<1>1. IInv /\ IInv' /\ [Next]_vars => [Kept]_vars
  <2> SUFFICES ASSUME IInv, IInv', [Next]_vars PROVE Kept
    BY SMTT(30)
  <2>1. ASSUME pc'["render"] \notin {"idle", "init"} PROVE RenderFormatsHold'
    <3>1. apm'.api.rin.ch > 0
      BY <2>1, ApmAssumption, SMTT(30) DEF IInv, RenderCall
    <3>2. apm'.render_audio.from = apm'.api.rin
      BY <3>1 DEF IInv, Streams, Valid, Buffers
    <3> QED
      BY <2>1, <3>2 DEF IInv, RenderCall, RenderFormatsHold
  <2> QED
    BY <2>1, CaptureFormatsStep
<1>2. Spec => [][Kept]_vars
  BY <1>1, Invariance, PTL DEF Spec
<1> QED
  BY <1>2 DEF FormatsKept

(* "Retry the insert (should always work)", in QueueBandedRenderAudio()    *)
(* and QueueNonbandedRenderAudio(), is true for every size of the queues.  *)
THEOREM RetryAlwaysWorks == Spec => []RetryWorks
<1>1. IInv => RetryWorks
  <2> SUFFICES ASSUME IInv, At("render", "retry")
               PROVE  Len(apm[call["render"].queue]) < QueueSize
    BY DEF RetryWorks
  <2>1. apm[call["render"].queue] = <<>>
    BY DEF IInv, Emptied, Queues, At
  <2>2. Len(<<>>) = 0 /\ 0 < QueueSize
    BY ApmAssumption, SMTT(30)
  <2> QED
    BY <2>1, <2>2
<1> QED
  BY <1>1, Invariance, PTL

(* Every element of the AECM's queue has the numbers of channels that the  *)
(* AECM was created with by InitializeEchoController(), for every sequence *)
(* of configurations and of formats.                                       *)
THEOREM QueuedAudioFits == Spec => []QueuedShape
<1>1. IInv => QueuedShape
  BY DEF IInv, Streams, Valid, Echo, Shaped, QueuedShape
<1> QED
  BY <1>1, Invariance, PTL
===============================================================================
