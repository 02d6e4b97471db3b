----------------------------- MODULE WrapperProofs -----------------------------
(***************************************************************************)
(* The wrapper's view of the configuration and the success of              *)
(* processCapture(), for every set of formats, delays and switches and     *)
(* every size of the buffers.                                              *)
(*                                                                         *)
(* Neither is inductive.  That processCapture() never fails needs the      *)
(* formats of the module to stay acceptable (WrapperInv), and no           *)
(* configuration that the enable...() functions can reach to have the      *)
(* AECM or the first gain control (Calm), nor any of the functions that    *)
(* rebuild the module to create one (Silent).                              *)
(***************************************************************************)
EXTENDS Wrapper, TLAPS

Apis == {"input", "output", "rin", "rout"}

(* A configuration with neither the AECM nor the first gain control. *)
Calm(c) == /\ {"aec", "mobile", "agc1"} \subseteq DOMAIN c
           /\ ~ (c.aec /\ c.mobile) /\ ~ c.agc1

(* A module configured so, which has neither. *)
Silent(a) == /\ {"config", "api", "aecm", "agc"} \subseteq DOMAIN a
             /\ DOMAIN a.api = Apis
             /\ Calm(a.config)
             /\ a.aecm = None /\ a.agc = None

(* b is still silent, with the configuration and the formats of a. *)
Quietly(a, b) == Silent(a) => Silent(b) /\ b.config = a.config /\ b.api = a.api

(* Steps one after the other. *)
LEMMA QuietlyTransitive ==
  ASSUME NEW a, NEW b, NEW c, Quietly(a, b), Quietly(b, c)
  PROVE  Quietly(a, c)
  BY SMTT(30) DEF Quietly

(* No Initialize...() function creates an AECM or a gain control for a calm *)
(* configuration, or changes the configuration or the formats.              *)
LEMMA SubmodulesQuiet ==
  ASSUME NEW a
  PROVE  /\ Quietly(a, Update(a)) /\ Quietly(a, AllocateBuffers(a))
         /\ Quietly(a, AllocateRenderQueue(a))
         /\ Quietly(a, InitializeGainController1(a))
         /\ Quietly(a, InitializeTransientSuppressor(a))
         /\ Quietly(a, InitializeHighPassFilter(a))
         /\ Quietly(a, InitializeVoiceDetector(a))
         /\ Quietly(a, InitializeEchoController(a))
         /\ Quietly(a, InitializeGainController2(a))
         /\ Quietly(a, InitializeNoiseSuppressor(a))
         /\ Quietly(a, InitializePreAmplifier(a))
<1> USE DEF Quietly, Silent
<1>1. Quietly(a, Update(a)) /\ Quietly(a, AllocateRenderQueue(a))
  BY DEF Update, AllocateRenderQueue
<1>2. Quietly(a, AllocateBuffers(a))
  BY DEF AllocateBuffers
<1>3. Quietly(a, InitializeGainController1(a))
  <2>1. CASE a.config.agc1
    BY <2>1 DEF Calm
  <2>2. CASE ~ a.config.agc1
    BY <2>2 DEF InitializeGainController1
  <2> QED
    BY <2>1, <2>2
<1>4. Quietly(a, InitializeTransientSuppressor(a))
  BY DEF InitializeTransientSuppressor
<1>5. Quietly(a, InitializeHighPassFilter(a))
  BY DEF InitializeHighPassFilter
<1>6. Quietly(a, InitializeVoiceDetector(a)) /\ Quietly(a, InitializeGainController2(a))
  BY DEF InitializeVoiceDetector, InitializeGainController2
<1>7. Quietly(a, InitializeNoiseSuppressor(a)) /\ Quietly(a, InitializePreAmplifier(a))
  BY DEF InitializeNoiseSuppressor, InitializePreAmplifier
<1>8. Quietly(a, InitializeEchoController(a))
  <2>1. CASE a.config.aec /\ a.config.mobile
    BY <2>1 DEF Calm
  <2>2. CASE a.config.aec /\ ~ a.config.mobile
    <3>1. InitializeEchoController(a) = RemoveAecm(CreateEchoController(a, a.render.ch))
      BY <2>2 DEF InitializeEchoController
    <3> QED
      BY <3>1 DEF RemoveAecm, CreateEchoController
  <2>3. CASE ~ a.config.aec
    <3>1. InitializeEchoController(a) = RemoveAecm(RemoveEchoController(a))
      BY <2>3 DEF InitializeEchoController
    <3> QED
      BY <3>1 DEF RemoveAecm, RemoveEchoController
  <2> QED
    BY <2>1, <2>2, <2>3
<1> QED
  BY <1>1, <1>2, <1>3, <1>4, <1>5, <1>6, <1>7, <1>8

(* Nor does InitializeLocked().                                             *)
LEMMA InitializeLockedQuiet ==
  ASSUME NEW a
  PROVE  Quietly(a, InitializeLocked(a))
<1> DEFINE b == AllocateRenderQueue(AllocateBuffers(Update(a)))
           c == InitializeHighPassFilter(
                  InitializeTransientSuppressor(InitializeGainController1(b)))
           d == InitializeEchoController(InitializeVoiceDetector(c))
           e == InitializeNoiseSuppressor(InitializeGainController2(d))
<1>1. Quietly(a, b)
  BY SubmodulesQuiet, QuietlyTransitive
<1> HIDE DEF b
<1>2. Quietly(b, c)
  BY SubmodulesQuiet, QuietlyTransitive
<1> HIDE DEF c
<1>3. Quietly(c, d)
  BY SubmodulesQuiet, QuietlyTransitive
<1> HIDE DEF d
<1>4. Quietly(d, e)
  BY SubmodulesQuiet, QuietlyTransitive
<1>5. InitializeLocked(a) = e
  BY DEF InitializeLocked, b, c, d
<1> HIDE DEF e
<1> QED
  BY <1>1, <1>2, <1>3, <1>4, <1>5, QuietlyTransitive

(* InitializeLocked(config) changes the formats, if they are acceptable.    *)
LEMMA InitializeLockedWithQuiet ==
  ASSUME NEW a, Silent(a), NEW api, DOMAIN api = Apis
  PROVE  LET b == InitializeLockedWith(a, api)
         IN  /\ Silent(b) /\ b.config = a.config
             /\ b.api = IF AcceptableFormat(api) THEN api ELSE a.api
<1> DEFINE u == Update(a)
           b == [u EXCEPT !.api = api,
                          !.capture_rate = CaptureRate(api, u.config, u.states),
                          !.render = RenderFormat(api, u.config, u.states,
                                                  u.ec_enabled)]
<1>1. InitializeLockedWith(a, api) = IF AcceptableFormat(api)
                                       THEN InitializeLocked(b) ELSE u
  BY DEF InitializeLockedWith
<1>2. Silent(u) /\ u.config = a.config /\ u.api = a.api
  BY SubmodulesQuiet DEF Quietly
<1> HIDE DEF u
<1>3. Silent(b) /\ b.config = u.config /\ b.api = api
  BY <1>2 DEF Silent
<1> HIDE DEF b
<1>4. /\ Silent(InitializeLocked(b)) /\ InitializeLocked(b).config = b.config
      /\ InitializeLocked(b).api = b.api
  BY <1>3, InitializeLockedQuiet DEF Quietly
<1> QED
  BY <1>1, <1>2, <1>3, <1>4

(* ApplyConfig() with a calm configuration puts it in force, and keeps the  *)
(* formats.                                                                 *)
LEMMA ApplyConfigQuiet ==
  ASSUME NEW a, Silent(a), NEW config, Calm(config)
  PROVE  LET b == ApplyConfig(a, config)
         IN  Silent(b) /\ b.config = config /\ b.api = a.api
<1> DEFINE Changed(fields) == \E f \in fields : a.config[f] # config[f]
           z == [a EXCEPT !.config = config]
           b == When(Changed({"aec", "mobile"}), InitializeEchoController, z)
           c == When(Changed({"ts"}), InitializeTransientSuppressor,
                     When(Changed({"ns"}), InitializeNoiseSuppressor, b))
           d == When(Changed({"agc1", "analog"}),
                     InitializeGainController1, InitializeHighPassFilter(c))
           e == When(Changed({"pre"}), InitializePreAmplifier,
                     When(Changed({"agc2"}), InitializeGainController2, d))
           f == When(Changed({"vad"}), InitializeVoiceDetector,
                     [e EXCEPT !.le = @ \/ config.le])
<1>1. ApplyConfig(a, config)
        = IF Changed({"multi_render", "multi_capture", "max_rate"})
            THEN InitializeLockedWith(f, f.api) ELSE f
  BY DEF ApplyConfig
<1> HIDE DEF Changed
<1>2. Silent(z) /\ z.config = config /\ z.api = a.api
  BY DEF Silent
<1> HIDE DEF z
<1>3. Quietly(z, b)
  BY SubmodulesQuiet DEF When, Quietly
<1> HIDE DEF b
<1>4. Quietly(b, c)
  <2> DEFINE n == When(Changed({"ns"}), InitializeNoiseSuppressor, b)
  <2>1. Quietly(b, n)
    BY SubmodulesQuiet DEF When, Quietly
  <2> HIDE DEF n
  <2>2. Quietly(n, When(Changed({"ts"}), InitializeTransientSuppressor, n))
    BY SubmodulesQuiet DEF When, Quietly
  <2> QED
    BY <2>1, <2>2, QuietlyTransitive DEF n
<1> HIDE DEF c
<1>5. Quietly(c, d)
  <2> DEFINE n == InitializeHighPassFilter(c)
  <2>1. Quietly(c, n)
    BY SubmodulesQuiet
  <2> HIDE DEF n
  <2>2. Quietly(n, When(Changed({"agc1", "analog"}), InitializeGainController1, n))
    BY SubmodulesQuiet DEF When, Quietly
  <2> QED
    BY <2>1, <2>2, QuietlyTransitive DEF n
<1> HIDE DEF d
<1>6. Quietly(d, e)
  <2> DEFINE n == When(Changed({"agc2"}), InitializeGainController2, d)
  <2>1. Quietly(d, n)
    BY SubmodulesQuiet DEF When, Quietly
  <2> HIDE DEF n
  <2>2. Quietly(n, When(Changed({"pre"}), InitializePreAmplifier, n))
    BY SubmodulesQuiet DEF When, Quietly
  <2> QED
    BY <2>1, <2>2, QuietlyTransitive DEF n
<1> HIDE DEF e
<1>7. Quietly(e, f)
  <2> DEFINE n == [e EXCEPT !.le = @ \/ config.le]
  <2>1. Quietly(e, n)
    BY DEF Quietly, Silent
  <2> HIDE DEF n
  <2>2. Quietly(n, When(Changed({"vad"}), InitializeVoiceDetector, n))
    BY SubmodulesQuiet DEF When, Quietly
  <2> QED
    BY <2>1, <2>2, QuietlyTransitive DEF n
<1> HIDE DEF f
<1>8. Silent(f) /\ f.config = config /\ f.api = a.api
  BY <1>2, <1>3, <1>4, <1>5, <1>6, <1>7 DEF Quietly
<1>9. LET g == InitializeLockedWith(f, f.api)
      IN  Silent(g) /\ g.config = f.config /\ g.api = f.api
  BY <1>8, InitializeLockedWithQuiet DEF Silent
<1> QED
  BY <1>1, <1>8, <1>9

-----------------------------------------------------------------------------
(* The enable...() functions, and init(). *)

(* A module and a configuration that are calm, and b made from them by an   *)
(* enable...() function.                                                    *)
Coherent(w) == Silent(w.apm) /\ Calm(w.config)
Follows(w, r) ==
  Coherent(w) => /\ Coherent(r) /\ r.apm.api = w.apm.api
                 /\ w.apm.config = w.config => r.apm.config = r.config

(* Enabled() changes the two configurations together or leaves them alone.  *)
LEMMA EnabledFollows ==
  ASSUME NEW w, NEW field, NEW b, NEW config, Calm(w.config) => Calm(config)
  PROVE  Follows(w, Enabled(w, field, b, config))
<1> SUFFICES ASSUME Coherent(w) PROVE Follows(w, Enabled(w, field, b, config))
  BY DEF Follows
<1>1. CASE w.config[field] = b
  BY <1>1 DEF Enabled, Follows
<1>2. CASE w.config[field] # b
  <2>1. Enabled(w, field, b, config)
          = [apm |-> ApplyConfig(w.apm, config), config |-> config]
    BY <1>2 DEF Enabled
  <2>2. LET c == ApplyConfig(w.apm, config)
        IN  Silent(c) /\ c.config = config /\ c.api = w.apm.api
    BY ApplyConfigQuiet DEF Coherent
  <2> QED
    BY <2>1, <2>2 DEF Follows, Coherent
<1> QED
  BY <1>1, <1>2

(* None of the enable...() functions leaves the calm configurations: the two *)
(* that switch echo cancellation switch the other one off.                   *)
LEMMA EnablesFollow ==
  ASSUME NEW w, NEW b
  PROVE  /\ Follows(w, enableAGC(w, b)) /\ Follows(w, enableNS(w, b))
         /\ Follows(w, enableVAD(w, b)) /\ Follows(w, enableHPF(w, b))
         /\ Follows(w, enableLE(w, b)) /\ Follows(w, enableAEC(w, b))
         /\ Follows(w, enableECM(w, b))
<1>1. Follows(w, enableAGC(w, b)) /\ Follows(w, enableNS(w, b))
  <2>1. Calm(w.config) => /\ Calm([w.config EXCEPT !.agc2 = b])
                          /\ Calm([w.config EXCEPT !.ns = b])
    BY DEF Calm
  <2> QED
    BY <2>1, EnabledFollows DEF enableAGC, enableNS
<1>2. /\ Follows(w, enableVAD(w, b)) /\ Follows(w, enableHPF(w, b))
      /\ Follows(w, enableLE(w, b))
  <2>1. Calm(w.config) => /\ Calm([w.config EXCEPT !.vad = b])
                          /\ Calm([w.config EXCEPT !.hpf = b])
                          /\ Calm([w.config EXCEPT !.le = b])
    BY DEF Calm
  <2> QED
    BY <2>1, EnabledFollows DEF enableVAD, enableHPF, enableLE
<1>3. Follows(w, enableAEC(w, b)) /\ Follows(w, enableECM(w, b))
  <2>1. Calm(w.config) => /\ Calm([w.config EXCEPT !.aec = b, !.mobile = FALSE])
                          /\ Calm([w.config EXCEPT !.aec = FALSE, !.mobile = b])
    BY SMTT(30) DEF Calm
  <2> QED
    BY <2>1, EnabledFollows DEF enableAEC, enableECM
<1> QED
  BY <1>1, <1>2, <1>3

(* The constructor's module.                                                 *)
LEMMA NewApmSilent == Silent(NewApm) /\ Calm(DefaultConfig)
<1>1. Calm(DefaultConfig)
  BY DEF Calm, DefaultConfig
<1> QED
  BY <1>1 DEF Silent, NewApm, Apis

(* The defaults of init(), whatever was enabled before.                      *)
LEMMA DefaultsCoherent ==
  ASSUME NEW config, Calm(config)
  PROVE  Coherent(Defaults(config))
<1> DEFINE w0 == [apm |-> InitializeLocked(NewApm), config |-> config]
           w1 == enableECM(enableAEC(enableHPF(w0, TRUE), TRUE), FALSE)
           w2 == enableVAD(enableNS(w1, TRUE), TRUE)
           w3 == enableAGC(enableLE(w2, TRUE), FALSE)
<1>1. Defaults(config) = w3
  BY DEF Defaults
<1>2. Coherent(w0)
  BY NewApmSilent, InitializeLockedQuiet DEF Quietly, Coherent
<1> HIDE DEF w0
<1>3. Coherent(w1)
  BY <1>2, EnablesFollow, Zenon DEF Follows
<1> HIDE DEF w1
<1>4. Coherent(w2)
  BY <1>3, EnablesFollow, Zenon DEF Follows
<1> HIDE DEF w2
<1>5. Coherent(w3)
  BY <1>4, EnablesFollow, Zenon DEF Follows
<1> QED
  BY <1>1, <1>5, Zenon

(* When init() succeeds, its formats and the configuration are in force.     *)
LEMMA InitializedSilent ==
  ASSUME NEW w, Coherent(w), NEW f
  PROVE  LET a == Initialized(w, f)
         IN  /\ Silent(a)
             /\ AcceptableFormat(InitApi(f)) =>
                  a.config = w.config /\ a.api = InitApi(f)
<1> DEFINE api == InitApi(f)
           b == InitializeLockedWith(w.apm, api)
<1>1. Initialized(w, f) = IF AcceptableFormat(api) THEN ApplyConfig(b, w.config) ELSE b
  BY DEF Initialized
<1>2. DOMAIN api = Apis
  BY DEF InitApi, Apis
<1> HIDE DEF api
<1>3. Silent(b) /\ (AcceptableFormat(api) => b.api = api)
  BY <1>2, InitializeLockedWithQuiet DEF Coherent
<1> HIDE DEF b
<1>4. LET c == ApplyConfig(b, w.config)
      IN  Silent(c) /\ c.config = w.config /\ c.api = b.api
  BY <1>3, ApplyConfigQuiet DEF Coherent
<1> QED
  BY <1>1, <1>3, <1>4 DEF api

-----------------------------------------------------------------------------
(* The invariant. *)

(* A format that init() has accepted for the input. *)
Accepted(f) == f.ch > 0 /\ f.rate > 0

(* What init() has established, and what the calls keep: the module is       *)
(* configured as m_apmConfig says, the reverse streams have the format of    *)
(* the input, and audio is processed only after init().                      *)
WrapperInv ==
  /\ Calm(m_config)
  /\ apm = None \/ Silent(apm)
  /\ ready => /\ Silent(apm) /\ apm.config = m_config
              /\ apm.api.rin = m_input /\ apm.api.rout = m_input
              /\ Accepted(m_input)
  /\ capture.pc # "idle" => ready
  /\ remote.pc # "idle" => ready
  /\ DOMAIN capture = {"pc", "n", "i", "failed"}
  /\ DOMAIN remote = {"pc", "n", "i", "failed"}
  /\ capture.failed = {}

(* A frame of the wrapper always has an acceptable format: the four streams  *)
(* have that of the input.                                                   *)
LEMMA FrameAcceptable ==
  ASSUME NEW a, Silent(a), NEW f, Accepted(f), a.api.rin = f, a.api.rout = f
  PROVE  LET api == StreamApi(a, f)
         IN  /\ AcceptableFormat(api) /\ DOMAIN api = Apis
             /\ api.rin = f /\ api.rout = f
<1> DEFINE api == StreamApi(a, f)
<1>1. /\ api.input = f /\ api.output = f /\ api.rin = f /\ api.rout = f
      /\ DOMAIN api = Apis
  BY DEF StreamApi, Silent, Apis
<1> HIDE DEF api
<1>2. AcceptableFormat(api)
  BY <1>1 DEF AcceptableFormat, Accepted
<1> QED
  BY <1>1, <1>2 DEF api

(* ProcessAudioFrame() keeps the configuration and the reverse formats.      *)
LEMMA ProcessFrameSilent ==
  ASSUME NEW a, Silent(a), NEW f, Accepted(f), a.api.rin = f, a.api.rout = f,
         NEW ok
  PROVE  LET b == ProcessFrame(a, f, ok)
         IN  /\ Silent(b) /\ b.config = a.config
             /\ b.api.rin = f /\ b.api.rout = f
<1> DEFINE api == StreamApi(a, f)
           b == Reconfigured(a, api)
<1>1. AcceptableFormat(api) /\ DOMAIN api = Apis /\ api.rin = f /\ api.rout = f
  BY FrameAcceptable
<1> HIDE DEF api
<1>2. Silent(b) /\ b.config = a.config /\ b.api.rin = f /\ b.api.rout = f
  <2>1. LET c == InitializeLockedWith(a, api)
        IN  Silent(c) /\ c.config = a.config /\ c.api = api
    BY <1>1, InitializeLockedWithQuiet
  <2>2. LET c == Update(a) IN Silent(c) /\ c.config = a.config /\ c.api = a.api
    BY SubmodulesQuiet DEF Quietly
  <2> QED
    BY <1>1, <2>1, <2>2 DEF Reconfigured
<1> HIDE DEF b
<1>3. LET c == [b EXCEPT !.delay_set = FALSE]
      IN  Silent(c) /\ c.config = b.config /\ c.api = b.api
  BY <1>2 DEF Silent
<1> QED
  BY <1>2, <1>3 DEF ProcessFrame, b, api

(* So does ProcessReverseAudioFrame().                                       *)
LEMMA ProcessReverseFrameSilent ==
  ASSUME NEW a, Silent(a), NEW f, a.api.rin = f, a.api.rout = f
  PROVE  LET b == ProcessReverseFrame(a, f)
         IN  /\ Silent(b) /\ b.config = a.config
             /\ b.api.rin = f /\ b.api.rout = f
<1> DEFINE api == ReverseApi(a, f)
<1>1. DOMAIN api = Apis /\ api.rin = f /\ api.rout = f
  BY DEF ReverseApi, Silent, Apis
<1> HIDE DEF api
<1>2. LET c == InitializeLockedWith(a, api)
      IN  /\ Silent(c) /\ c.config = a.config
          /\ c.api = IF AcceptableFormat(api) THEN api ELSE a.api
  BY <1>1, InitializeLockedWithQuiet
<1> QED
  BY <1>1, <1>2 DEF ProcessReverseFrame, api

(* Before init(). *)
LEMMA WrapperInit == Init => WrapperInv
  BY NewApmSilent DEF Init, WrapperInv, Idle

(* init(), first or again. *)
LEMMA InitCallInv ==
  ASSUME WrapperInv, InitCall PROVE WrapperInv'
<1>1. PICK f \in Inits :
        /\ apm' = Initialized(Defaults(m_config), f)
        /\ m_config' = Defaults(m_config).config
        /\ m_input' = f.input
        /\ ready' = AcceptableFormat(InitApi(f))
  BY DEF InitCall
<1>2. Coherent(Defaults(m_config))
  BY DefaultsCoherent DEF WrapperInv
<1>3. Silent(apm') /\ (ready' => apm'.config = m_config' /\ apm'.api = InitApi(f))
  BY <1>1, <1>2, InitializedSilent
<1>4. ready' => /\ apm'.api.rin = m_input' /\ apm'.api.rout = m_input'
                /\ Accepted(m_input')
  <2> DEFINE api == InitApi(f)
  <2>1. api.input = f.input /\ api.rin = f.input /\ api.rout = f.input
    BY DEF InitApi
  <2> HIDE DEF api
  <2>2. AcceptableFormat(api) => Accepted(api.input)
    BY DEF AcceptableFormat, Accepted
  <2> QED
    BY <1>1, <1>3, <2>1, <2>2 DEF api
<1>5. capture' = capture /\ remote' = remote /\ capture.pc = "idle" /\ remote.pc = "idle"
  BY DEF InitCall
<1> QED
  BY <1>1, <1>2, <1>3, <1>4, <1>5 DEF WrapperInv, Coherent

(* The enable...() functions. *)
LEMMA EnableInv ==
  ASSUME WrapperInv, Enable PROVE WrapperInv'
<1> DEFINE w == [apm |-> apm, config |-> m_config]
<1>1. /\ Silent(apm)
      /\ UNCHANGED <<apm_delay, m_input, m_delay, ready, capture, remote>>
  BY DEF Enable, WrapperInv
<1>2. PICK r : /\ Follows(w, r)
               /\ apm' = r.apm /\ m_config' = r.config
  <2>1. PICK b \in BOOLEAN, name \in Switches :
          LET r == CASE name = "AGC" -> enableAGC(w, b)
                     [] name = "NS" -> enableNS(w, b)
                     [] name = "VAD" -> enableVAD(w, b)
                     [] name = "ECM" -> enableECM(w, b)
                     [] name = "AEC" -> enableAEC(w, b)
                     [] name = "HPF" -> enableHPF(w, b)
                     [] name = "LE" -> enableLE(w, b)
          IN  apm' = r.apm /\ m_config' = r.config
    BY Zenon DEF Enable
  <2>2. name \in {"AGC", "NS", "VAD", "ECM", "AEC", "HPF", "LE"}
    BY WrapperAssumption
  <2> HIDE DEF w
  <2> QED
    BY <2>1, <2>2, EnablesFollow
<1>3. w.apm = apm /\ w.config = m_config
  OBVIOUS
<1> HIDE DEF w
<1>4. /\ Silent(apm') /\ Calm(m_config') /\ apm'.api = apm.api
      /\ apm.config = m_config => apm'.config = m_config'
  BY <1>1, <1>2, <1>3 DEF Follows, Coherent, WrapperInv
<1> QED
  BY <1>1, <1>4 DEF WrapperInv

(* The steps that only read the module. *)
LEMMA PassiveInv ==
  ASSUME WrapperInv, setStreamDelay \/ processCapture \/ processRemote \/ CaptureBack
  PROVE  WrapperInv'
<1>1. CASE setStreamDelay
  BY <1>1 DEF setStreamDelay, WrapperInv
<1>2. CASE processCapture
  <2>1. PICK n \in 0 .. MaxFrames : capture' = Begin(n)
    BY <1>2, Zenon DEF processCapture
  <2>2. DOMAIN capture' = {"pc", "n", "i", "failed"} /\ capture'.failed = {}
    BY <2>1 DEF Begin, Idle
  <2> QED
    BY <1>2, <2>2 DEF processCapture, WrapperInv
<1>3. CASE processRemote
  <2>1. PICK n \in 0 .. MaxFrames : remote' = Begin(n)
    BY <1>3, Zenon DEF processRemote
  <2>2. DOMAIN remote' = {"pc", "n", "i", "failed"}
    BY <2>1 DEF Begin, Idle
  <2> QED
    BY <1>3, <2>2 DEF processRemote, WrapperInv
<1>4. CASE CaptureBack
  BY <1>4 DEF CaptureBack, WrapperInv, Written
<1> QED
  BY <1>1, <1>2, <1>3, <1>4

(* set_stream_delay_ms(). *)
LEMMA CaptureDelayInv ==
  ASSUME WrapperInv, CaptureDelay PROVE WrapperInv'
<1>1. /\ ready /\ Silent(apm)
      /\ UNCHANGED <<m_config, m_input, m_delay, ready, remote>>
  BY DEF CaptureDelay, WrapperInv
<1>2. /\ DOMAIN capture' = {"pc", "n", "i", "failed"} /\ capture'.failed = {}
  BY DEF CaptureDelay, WrapperInv, Idle
<1>3. Silent(apm') /\ apm'.config = apm.config /\ apm'.api = apm.api
  <2>1. apm' = apm \/ apm' = [apm EXCEPT !.delay_set = TRUE]
    BY DEF CaptureDelay
  <2> QED
    BY <1>1, <2>1 DEF Silent
<1> QED
  BY <1>1, <1>2, <1>3 DEF WrapperInv

(* ProcessStream(), which cannot fail. *)
LEMMA CaptureFrameInv ==
  ASSUME WrapperInv, CaptureFrame PROVE WrapperInv'
<1>1. /\ ready /\ Silent(apm) /\ apm.config = m_config /\ Accepted(m_input)
      /\ apm.api.rin = m_input /\ apm.api.rout = m_input
      /\ UNCHANGED <<apm_delay, m_config, m_input, m_delay, ready, remote>>
  BY DEF CaptureFrame, WrapperInv
<1>2. AcceptableFormat(StreamApi(apm, m_input))
  BY <1>1, FrameAcceptable
<1>3. PICK ok \in {AcceptableFormat(StreamApi(apm, m_input))} :
        /\ apm' = ProcessFrame(apm, m_input, ok)
        /\ capture' = IF ok THEN [capture EXCEPT !.pc = "back"] ELSE Failed(capture)
  BY <1>1 DEF CaptureFrame, Silent
<1>4. capture' = [capture EXCEPT !.pc = "back"]
  BY <1>2, <1>3
<1>5. /\ Silent(apm') /\ apm'.config = apm.config
      /\ apm'.api.rin = m_input /\ apm'.api.rout = m_input
  BY <1>1, <1>3, ProcessFrameSilent
<1> QED
  BY <1>1, <1>4, <1>5 DEF WrapperInv

(* ProcessReverseStream(). *)
LEMMA RemoteFrameInv ==
  ASSUME WrapperInv, RemoteFrame PROVE WrapperInv'
<1>1. /\ ready /\ Silent(apm) /\ apm.config = m_config
      /\ apm.api.rin = m_input /\ apm.api.rout = m_input
      /\ UNCHANGED <<apm_delay, m_config, m_input, m_delay, ready, capture>>
  BY DEF RemoteFrame, WrapperInv
<1>2. DOMAIN remote' = {"pc", "n", "i", "failed"}
  BY Zenon DEF RemoteFrame, WrapperInv, Failed, Written, Idle
<1>3. /\ Silent(apm') /\ apm'.config = apm.config
      /\ apm'.api.rin = m_input /\ apm'.api.rout = m_input
  BY <1>1, ProcessReverseFrameSilent DEF RemoteFrame
<1> QED
  BY <1>1, <1>2, <1>3 DEF WrapperInv

(* No step disturbs the invariant. *)
LEMMA WrapperStep == WrapperInv /\ [Next]_vars => WrapperInv'
<1> SUFFICES ASSUME WrapperInv, [Next]_vars PROVE WrapperInv'
  OBVIOUS
<1>1. CASE UNCHANGED vars
  BY <1>1 DEF vars, WrapperInv
<1> QED
  BY <1>1, InitCallInv, EnableInv, PassiveInv, CaptureDelayInv, CaptureFrameInv,
     RemoteFrameInv DEF Next

(* In every reachable state. *)
LEMMA WrapperInvariance == Spec => []WrapperInv
  BY WrapperInit, WrapperStep, PTL DEF Spec

(* After an init() that succeeded, m_apmConfig is the configuration of the   *)
(* module, though enable...() does nothing when m_apmConfig has the value    *)
(* already: for every sequence of switches and any number of calls of        *)
(* init(), whatever the audio threads do.                                    *)
THEOREM ConfigStaysInSync == Spec => []ConfigInSync
<1>1. WrapperInv => ConfigInSync
  BY DEF WrapperInv, ConfigInSync
<1> QED
  BY <1>1, WrapperInvariance, PTL

(* No frame of processCapture() fails once init() has succeeded, for every   *)
(* set of formats and switches and every interleaving of the three threads.  *)
THEOREM CaptureAlwaysSucceeds == Spec => []CaptureNeverFails
<1>1. WrapperInv => CaptureNeverFails
  BY DEF WrapperInv, CaptureNeverFails
<1> QED
  BY <1>1, WrapperInvariance, PTL
================================================================================
