------------------------------- MODULE Wrapper -------------------------------
(***************************************************************************)
(* The class AudioProcessing of audioprocessing.cc, which the application  *)
(* uses: a capture thread in processCapture(), a playout thread in         *)
(* processRemote() and a control thread that calls init(), enable...() and *)
(* setStreamDelay().  The members of the class are shared without a lock.  *)
(* A call of the audio processing module is one step here (module Apm has  *)
(* its steps); an access of m_nStreamDelay is one of its own.              *)
(***************************************************************************)
EXTENDS ApmState, FiniteSets

CONSTANTS Inits,      \* [input, output] formats given to init()
          Delays,     \* delays given to setStreamDelay(), in ms
          MaxFrames,  \* most frames in a buffer
          NativeRates,\* the NativeRate values
          Switches    \* the enable...() functions the application calls

ASSUME WrapperAssumption == /\ MaxFrames \in Nat \ {0}
                            /\ Delays \subseteq Int
                            /\ Switches \subseteq {"AGC", "NS", "VAD", "ECM",
                                                   "AEC", "HPF", "LE"}

VARIABLES apm,          \* the record of ApmState
          apm_delay,    \* stream_delay_ms in capture_nonlocked_
          m_config,     \* m_apmConfig
          m_input,      \* m_pInputConfig, the same as m_pReverseConfig
          m_delay,      \* m_nStreamDelay
          ready,        \* the result of the last init()
          capture,      \* the capture thread: pc, loop and output buffer
          remote        \* the playout thread

vars == <<apm, apm_delay, m_config, m_input, m_delay, ready, capture, remote>>

(* A loop over the n frames of a buffer: i counts them, failed has the     *)
(* ones that were left as they are because of an error.                    *)
Idle == [pc |-> "idle", n |-> 0, i |-> 0, failed |-> {}]

-----------------------------------------------------------------------------
(* The calls of the audio processing module, without the render queues. *)

Reconfigured(a, api) ==
  IF StatesChanged(a) \/ api # a.api THEN InitializeLockedWith(a, api)
                                     ELSE Update(a)
StreamApi(a, f) == [a.api EXCEPT !.input = f, !.output = f]
ReverseApi(a, f) == [a.api EXCEPT !.rin = f, !.rout = f]

(* ProcessAudioFrame(): the output has the format of the frame too, and an *)
(* error leaves was_stream_delay_set as it is.                             *)
ProcessFrame(a, f, ok) ==
  LET b == Reconfigured(a, StreamApi(a, f))
  IN IF ok THEN [b EXCEPT !.delay_set = FALSE] ELSE b

(* ProcessReverseAudioFrame(), for an acceptable frame *)
ProcessReverseFrame(a, f) ==
  IF ReverseApi(a, f) = a.api THEN a
  ELSE InitializeLockedWith(a, ReverseApi(a, f))

(* set_stream_delay_ms() *)
Clamp(delay) == IF delay < 0 THEN 0 ELSE IF delay > 500 THEN 500 ELSE delay

-----------------------------------------------------------------------------
(* enable...(): w has the module and m_apmConfig.  Nothing is done for a   *)
(* setting that has the value already.                                     *)
Enabled(w, field, enable, config) ==
  IF w.config[field] = enable
    THEN w
    ELSE [apm |-> ApplyConfig(w.apm, config), config |-> config]

enableAGC(w, b) == Enabled(w, "agc2", b, [w.config EXCEPT !.agc2 = b])
enableNS(w, b) == Enabled(w, "ns", b, [w.config EXCEPT !.ns = b])
enableVAD(w, b) == Enabled(w, "vad", b, [w.config EXCEPT !.vad = b])
enableHPF(w, b) == Enabled(w, "hpf", b, [w.config EXCEPT !.hpf = b])
enableLE(w, b) == Enabled(w, "le", b, [w.config EXCEPT !.le = b])

(* Leaves the mobile mode as it is. *)
Mut_enableAEC(w, b) == Enabled(w, "aec", b, [w.config EXCEPT !.aec = b])

enableAEC(w, b) ==
  Enabled(w, "aec", b, [w.config EXCEPT !.aec = b, !.mobile = FALSE])
enableECM(w, b) ==
  Enabled(w, "mobile", b, [w.config EXCEPT !.aec = FALSE, !.mobile = b])

(* init(), up to Initialize(): a new module, and the defaults. *)
Defaults(config) ==
  LET w0 == [apm |-> InitializeLocked(NewApm), config |-> config]
      w1 == enableECM(enableAEC(enableHPF(w0, TRUE), TRUE), FALSE)
      w2 == enableVAD(enableNS(w1, TRUE), TRUE)
  IN enableAGC(enableLE(w2, TRUE), FALSE)

InitApi(f) == [input |-> f.input, output |-> f.output,
               rin |-> f.input, rout |-> f.input]

(* Leaves out the last ApplyConfig(). *)
Mut_Initialized(w, f) == InitializeLockedWith(w.apm, InitApi(f))

(* The rest of init(). *)
Initialized(w, f) ==
  LET a == InitializeLockedWith(w.apm, InitApi(f))
  IN IF AcceptableFormat(InitApi(f)) THEN ApplyConfig(a, w.config) ELSE a

-----------------------------------------------------------------------------
(* The constructor; the threads start after init(). *)
Init == /\ apm = None
        /\ apm_delay = 0
        /\ m_config = DefaultConfig
        /\ m_input = None
        /\ m_delay = 0
        /\ ready = FALSE
        /\ capture = Idle
        /\ remote = Idle

(* init(), first or again, while no audio is processed. *)
InitCall ==
  /\ capture.pc = "idle" /\ remote.pc = "idle"
  /\ \E f \in Inits :
       LET w == Defaults(m_config)
       IN /\ apm' = Initialized(w, f)
          /\ m_config' = w.config
          /\ m_input' = f.input
          /\ ready' = AcceptableFormat(InitApi(f))
  /\ apm_delay' = 0
  /\ UNCHANGED <<m_delay, capture, remote>>

(* The enable...() functions, from a control thread. *)
Enable ==
  /\ apm # None
  /\ \E b \in BOOLEAN, name \in Switches :
       LET w == [apm |-> apm, config |-> m_config]
           r == CASE name = "AGC" -> enableAGC(w, b)
                  [] name = "NS" -> enableNS(w, b)
                  [] name = "VAD" -> enableVAD(w, b)
                  [] name = "ECM" -> enableECM(w, b)
                  [] name = "AEC" -> enableAEC(w, b)
                  [] name = "HPF" -> enableHPF(w, b)
                  [] name = "LE" -> enableLE(w, b)
       IN apm' = r.apm /\ m_config' = r.config
  /\ UNCHANGED <<apm_delay, m_input, m_delay, ready, capture, remote>>

setStreamDelay == /\ m_delay' \in Delays
                  /\ UNCHANGED <<apm, apm_delay, m_config, m_input, ready,
                                 capture, remote>>

-----------------------------------------------------------------------------
(* processCapture() *)

Begin(n) == [Idle EXCEPT !.pc = "next", !.n = n]
Failed(l) == [l EXCEPT !.pc = "next", !.i = @ + 1, !.failed = @ \cup {l.i}]
Written(l) == [l EXCEPT !.pc = "next", !.i = @ + 1]

processCapture == /\ ready
                  /\ capture.pc = "idle"
                  /\ capture' \in {Begin(n) : n \in 0 .. MaxFrames}
                  /\ UNCHANGED <<apm, apm_delay, m_config, m_input, m_delay,
                                 ready, remote>>

(* The test of the loop and set_stream_delay_ms(m_nStreamDelay). *)
CaptureDelay ==
  /\ capture.pc = "next"
  /\ IF capture.i < capture.n
       THEN /\ capture' = [capture EXCEPT !.pc = "process"]
            /\ apm_delay' = Clamp(m_delay)
            /\ apm' = [apm EXCEPT !.delay_set = TRUE]
       ELSE capture' = Idle /\ UNCHANGED <<apm, apm_delay>>
  /\ UNCHANGED <<m_config, m_input, m_delay, ready, remote>>

(* ProcessStream(): only the AECM and the gain control can report an error *)
(* for a format that is acceptable.                                        *)
CaptureFrame ==
  /\ capture.pc = "process"
  /\ \E ok \in IF apm.aecm # None \/ apm.agc # None THEN BOOLEAN
               ELSE {AcceptableFormat(StreamApi(apm, m_input))} :
       /\ apm' = ProcessFrame(apm, m_input, ok)
       /\ capture' = IF ok THEN [capture EXCEPT !.pc = "back"]
                           ELSE Failed(capture)
  /\ UNCHANGED <<apm_delay, m_config, m_input, m_delay, ready, remote>>

(* The copy of stream_delay_ms() back into m_nStreamDelay, and the frame. *)
CaptureBack == /\ capture.pc = "back"
               /\ m_delay' = apm_delay
               /\ capture' = Written(capture)
               /\ UNCHANGED <<apm, apm_delay, m_config, m_input, ready, remote>>

-----------------------------------------------------------------------------
(* processRemote() *)

processRemote == /\ ready
                 /\ remote.pc = "idle"
                 /\ remote' \in {Begin(n) : n \in 0 .. MaxFrames}
                 /\ UNCHANGED <<apm, apm_delay, m_config, m_input, m_delay,
                                ready, capture>>

(* A frame with a rate that is not native is refused. *)
RemoteFrame ==
  /\ remote.pc = "next"
  /\ IF remote.i = remote.n
       THEN remote' = Idle /\ UNCHANGED apm
     ELSE IF m_input.rate \notin NativeRates
       THEN remote' = Failed(remote) /\ UNCHANGED apm
     ELSE /\ remote' = Written(remote)
          /\ apm' = ProcessReverseFrame(apm, m_input)
  /\ UNCHANGED <<apm_delay, m_config, m_input, m_delay, ready, capture>>

Next == \/ InitCall \/ Enable \/ setStreamDelay
        \/ processCapture \/ CaptureDelay \/ CaptureFrame \/ CaptureBack
        \/ processRemote \/ RemoteFrame

Spec == Init /\ [][Next]_vars

-----------------------------------------------------------------------------
(* Properties *)

(* Types: the delays, the loops and the two configurations. *)
TypeOK == /\ apm_delay \in 0 .. 500
          /\ m_delay \in Delays \cup (0 .. 500)
          /\ DOMAIN m_config = DOMAIN DefaultConfig
          /\ \A l \in {capture, remote} :
               l.n \in 0 .. MaxFrames /\ l.i \in 0 .. l.n
          /\ remote.pc \in {"idle", "next"}
          /\ ready => apm # None /\ m_input # None

(* The application's view of what is enabled is the module's: after an     *)
(* init() that succeeded, m_apmConfig is the configuration in force,       *)
(* though enable...() does nothing when m_apmConfig has the value already, *)
(* and a second init() starts from a new module.                           *)
ConfigInSync == ready => apm.config = m_config

(* After init() has succeeded, ProcessStream() never fails in              *)
(* processCapture(): whatever is enabled or disabled, no submodule that    *)
(* needs another parameter for every frame is ever active.                 *)
CaptureNeverFails == capture.failed = {}

(* The echo controller works on as many channels as the capture buffer has *)
(* after downmixing, as EchoCanceller3::ProcessCapture() asserts.          *)
EchoChannels ==
  capture.pc = "process" =>
    LET a == Reconfigured(apm, StreamApi(apm, m_input))
    IN a.ec # None => a.ec.cch = NumProcChannels(a)
=============================================================================
