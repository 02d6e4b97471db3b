---------------------------- MODULE ApmShapesProofs ----------------------------
(***************************************************************************)
(* What AudioProcessingImpl has built fits the audio it gets, for every    *)
(* set of configurations and of formats and every size of the queues.      *)
(*                                                                         *)
(* Three facts carry the argument.  What is built is built for the rates   *)
(* of the moment (Built, in SoundInv).  The rates are those that the       *)
(* noticed states of the submodules ask for, unless the capture thread has *)
(* noticed a change and is on its way to reinitialize (RatesInv): it has   *)
(* to hold crit_render_ for that, so no one else undoes the notice.  And   *)
(* between the split of the render buffer and the queueing of its bands    *)
(* only the capture thread can change the noticed states (SplitInTime).    *)
(***************************************************************************)
EXTENDS ApmProofs

(* Every format that the calls pass is acceptable, so neither the two      *)
(* functions MaybeInitialize...() fail nor Initialize().  With a format    *)
(* that is refused, ProcessStream() has used up the news that a submodule  *)
(* has come or gone and has not reinitialized.                             *)
FormatsAccepted ==
  /\ \A f \in CaptureFormats :
       AcceptableFormat([input |-> f.input, output |-> f.output,
                         rin |-> DefaultStream, rout |-> DefaultStream])
  /\ \A f \in RenderFormats :
       AcceptableFormat([input |-> DefaultStream, output |-> DefaultStream,
                         rin |-> f.rin, rout |-> f.rout])
  /\ \A api \in InitFormats : AcceptableFormat(api)

(* The capture thread is about to reinitialize. *)
Waiting == pc["capture"] \in {"lock_render", "reinit"}

(* What the calls under way were given. *)
CallsSound ==
  /\ Waiting => Sound(call["capture"].api)
  /\ pc["control"] = "apply" => call["control"] \in Configs
  /\ pc["control"] = "initialize" => Reinitialize
  /\ pc["control"] = "initialize_formats" => Sound(call["control"])

SoundInv == Typed(apm) /\ Built(apm) /\ CallsSound

(* Most steps change nothing of the record but its queues, and neither     *)
(* start nor end the wait of the capture thread.                           *)
Loose == Queues \cup {"delay_set"}
Plain ==
  /\ Only(apm, apm', Loose)
  /\ Waiting' <=> Waiting
  /\ Waiting => call'["capture"] = call["capture"]
  /\ pc'["control"] = pc["control"] /\ call'["control"] = call["control"]

(* What is built, and for which rates, does not depend on the queues.      *)
LEMMA LooseFrame ==
  ASSUME NEW a, NEW b, Typed(a), Only(a, b, Loose)
  PROVE  /\ Typed(b)
         /\ Built(a) => Built(b)
         /\ Rates(a) => Rates(b)
         /\ Channels(a) => Channels(b)
         /\ Lasting(a) => Lasting(b)
<1>1. /\ DOMAIN b = DOMAIN a
      /\ b.config = a.config /\ b.api = a.api /\ b.capture_rate = a.capture_rate
      /\ b.render = a.render /\ b.ec_enabled = a.ec_enabled
      /\ b.states = a.states /\ b.capture_audio = a.capture_audio
      /\ b.ec = a.ec /\ b.aecm = a.aecm /\ b.ns = a.ns /\ b.agc = a.agc
      /\ b.hpf = a.hpf /\ b.vad = a.vad
  BY DEF Only, Typed, Members, Loose, Queues
<1>2. NumProcChannels(b) = NumProcChannels(a)
  BY <1>1 DEF NumProcChannels
<1>3. Typed(b)
  BY <1>1 DEF Typed
<1>4. Built(a) => Built(b)
  BY <1>1 DEF Built
<1>5. Rates(a) => Rates(b)
  BY <1>1 DEF Rates
<1>6. Channels(a) => Channels(b)
  BY <1>1, <1>2 DEF Channels
<1>7. Lasting(a) => Lasting(b)
  BY <1>1 DEF Lasting
<1> QED
  BY <1>3, <1>4, <1>5, <1>6, <1>7

(* One queue is changed.                                                   *)
LEMMA QueueOnly ==
  ASSUME NEW a, NEW q \in Queues, NEW s
  PROVE  Only(a, [a EXCEPT ![q] = s], Loose)
  BY DEF Only, Loose

(* Nothing of the record is changed.                                       *)
LEMMA SameOnly ==
  ASSUME NEW a
  PROVE  Only(a, a, Loose)
  BY DEF Only

(* EmptyQueuedRenderAudio() is plain.                                      *)
LEMMA PopPlain ==
  ASSUME Locks, NEW t \in {"capture", "render"}, NEW queue \in Queues, NEW present,
         NEW here \in Emptying, NEW next \in Processing,
         Pop(t, queue, present, here, next)
  PROVE  Plain
<1>1. Only(apm, apm', Loose)
  <2>1. apm' = apm \/ apm' = [apm EXCEPT ![queue] = Tail(apm[queue])]
    BY DEF Pop
  <2>2. Only(apm, [apm EXCEPT ![queue] = Tail(apm[queue])], Loose)
    BY QueueOnly, ZenonT(30)
  <2> QED
    BY <2>1, <2>2, SameOnly, ZenonT(30)
<1>2. call' = call /\ pc[t] = here /\ (pc' = pc \/ pc' = [pc EXCEPT ![t] = next])
  BY DEF Pop, At, Goto
<1>3. (Waiting' <=> Waiting) /\ pc'["control"] = pc["control"]
  BY <1>2 DEF Locks, Threads, Waiting, Processing, Emptying
<1> QED
  BY <1>1, <1>2, <1>3 DEF Plain

(* The steps of the capture thread are plain, except the one that notices  *)
(* the states and the one that reinitializes.                              *)
LEMMA CapturePlain ==
  ASSUME Locks, CaptureNext
  PROVE  Plain \/ ProcessStream \/ ReinitCapture
<1>1. CASE SetStreamDelay
  <2>1. /\ apm' = [apm EXCEPT !.delay_set = TRUE]
        /\ UNCHANGED <<pc, call>>
    BY <1>1 DEF SetStreamDelay
  <2>2. Only(apm, apm', Loose)
    BY <2>1 DEF Only, Loose
  <2> QED
    BY <2>1, <2>2 DEF Plain, Waiting
<1>2. CASE ReinitLockRender
  <2>1. /\ pc' = [pc EXCEPT !["capture"] = "reinit"] /\ pc["capture"] = "lock_render"
        /\ UNCHANGED <<apm, call>>
    BY <1>2 DEF ReinitLockRender, At, Goto
  <2> QED
    BY <2>1, SameOnly DEF Plain, Waiting, Locks, Threads
<1>3. CASE LockCapture
  <2>1. /\ pc' = [pc EXCEPT !["capture"] = "empty_aecm"]
        /\ pc["capture"] = "lock_capture" /\ UNCHANGED <<apm, call>>
    BY <1>3 DEF LockCapture, At, Goto
  <2> QED
    BY <2>1, SameOnly DEF Plain, Waiting, Locks, Threads
<1>4. CASE EmptyAecm("capture") \/ EmptyAgc("capture") \/ EmptyRedCapture
  BY <1>4, PopPlain, ZenonT(30) DEF EmptyAecm, EmptyAgc, EmptyRedCapture, Queues, Emptying,
                        Processing
<1>5. CASE ProcessCapture
  <2>1. /\ pc' = [pc EXCEPT !["capture"] = "idle"] /\ pc["capture"] = "process"
        /\ call' = [call EXCEPT !["capture"] = None]
        /\ apm' = apm \/ apm' = [apm EXCEPT !.delay_set = FALSE]
    BY <1>5 DEF ProcessCapture, At, Goto, Return
  <2>2. Only(apm, apm', Loose)
    BY <2>1 DEF Only, Loose
  <2> QED
    BY <2>1, <2>2 DEF Plain, Waiting, Locks, Threads
<1> QED
  BY <1>1, <1>2, <1>3, <1>4, <1>5 DEF CaptureNext

(* The steps of the render thread are plain, except MaybeInitializeRender. *)
LEMMA RenderPlain ==
  ASSUME IInv, RenderNext
  PROVE  Plain \/ InitRender
<1>0. Locks /\ DOMAIN pc = Threads /\ DOMAIN call = Threads
  BY DEF IInv, Locks
<1>a. ASSUME Only(apm, apm', Loose),
             NEW k, call' = call \/ call' = [call EXCEPT !["render"] = k],
             NEW l, pc' = pc \/ pc' = [pc EXCEPT !["render"] = l]
      PROVE  Plain
  <2>1. /\ pc'["capture"] = pc["capture"] /\ pc'["control"] = pc["control"]
        /\ call'["capture"] = call["capture"] /\ call'["control"] = call["control"]
    BY <1>0, <1>a DEF Threads
  <2> QED
    BY <1>a, <2>1 DEF Plain, Waiting
<1>1. CASE ProcessReverseStream
  <2>1. PICK f \in RenderFormats :
          /\ call' = [call EXCEPT !["render"] =
                        [f |-> f, split |-> FALSE, queue |-> None]]
          /\ pc' = [pc EXCEPT !["render"] = IF RenderConfig(f) # apm.api
                                              THEN "init" ELSE "red_queue"]
          /\ apm' = apm
    BY <1>1, ZenonT(30) DEF ProcessReverseStream, Goto
  <2> QED
    BY <2>1, <1>a, SameOnly, ZenonT(30)
<1>2. ASSUME NEW queue \in Queues, NEW wanted, Insert(queue, wanted)
      PROVE  Plain
  <2>1. \/ apm' = apm
        \/ apm' = [apm EXCEPT ![queue] = Append(apm[queue], Packed(queue))]
    BY <1>2 DEF Insert
  <2>2. Only(apm, [apm EXCEPT ![queue] = Append(apm[queue], Packed(queue))], Loose)
    BY QueueOnly, ZenonT(30)
  <2>3. Only(apm, apm', Loose)
    BY <2>1, <2>2, SameOnly
  <2>4. call' = call \/ call' = [call EXCEPT !["render"].queue = queue]
    BY <1>2 DEF Insert
  <2>5. \/ pc' = [pc EXCEPT !["render"] = AfterQueue[queue]]
        \/ pc' = [pc EXCEPT !["render"] = "full"]
    BY <1>2 DEF Insert, Goto
  <2>6. call' = call \/ call' = [call EXCEPT !["render"] =
                                   [call["render"] EXCEPT !.queue = queue]]
    BY <2>4
  <2> QED
    BY <2>3, <2>5, <2>6, <1>a
<1>3. CASE InsertRed \/ InsertAecm \/ InsertAgc
  BY <1>2, <1>3, ZenonT(30) DEF InsertRed, InsertAecm, InsertAgc, Queues
<1>4. CASE SplitIntoFrequencyBands
  <2>1. PICK split : /\ call' = [call EXCEPT !["render"] =
                                   [call["render"] EXCEPT !.split = split]]
                     /\ pc' = [pc EXCEPT !["render"] = "banded"]
                     /\ apm' = apm
    BY <1>4, ZenonT(30) DEF SplitIntoFrequencyBands, Goto
  <2> QED
    BY <2>1, <1>a, SameOnly, ZenonT(30)
<1>5. CASE QueueBandedRenderAudio \/ LockFull
  <2>1. /\ apm' = apm /\ call' = call
        /\ \E l : pc' = [pc EXCEPT !["render"] = l]
    BY <1>5 DEF QueueBandedRenderAudio, LockFull, Goto
  <2> QED
    BY <2>1, <1>a, SameOnly, ZenonT(30)
<1>6. CASE EmptyAecm("render") \/ EmptyAgc("render")
  BY <1>0, <1>6, PopPlain DEF EmptyAecm, EmptyAgc, Queues, Emptying, Processing
<1>7. CASE EmptyRedRender
  <2>1. /\ apm' = apm \/ apm' = [apm EXCEPT !["red_queue"] = Tail(apm.red_queue)]
        /\ call' = call /\ (pc' = pc \/ pc' = [pc EXCEPT !["render"] = "retry"])
    BY <1>7 DEF EmptyRedRender, Goto
  <2>2. Only(apm, [apm EXCEPT !["red_queue"] = Tail(apm.red_queue)], Loose)
    BY QueueOnly, ZenonT(30) DEF Queues
  <2>3. Only(apm, apm', Loose)
    BY <2>1, <2>2, SameOnly, ZenonT(30)
  <2> QED
    BY <2>1, <2>3, <1>a
<1>8. CASE Retry
  <2> DEFINE queue == call["render"].queue
  <2>1. queue \in Queues
    BY <1>8, SMTT(30) DEF Retry, At, IInv, Emptied
  <2>2. /\ \/ apm' = apm
           \/ apm' = [apm EXCEPT ![queue] = Append(apm[queue], Packed(queue))]
        /\ call' = [call EXCEPT !["render"] = [call["render"] EXCEPT !.queue = None]]
        /\ pc' = [pc EXCEPT !["render"] = AfterQueue[queue]]
    BY <1>8 DEF Retry, Goto
  <2> HIDE DEF queue
  <2>3. Only(apm, [apm EXCEPT ![queue] = Append(apm[queue], Packed(queue))], Loose)
    BY <2>1, QueueOnly, ZenonT(30)
  <2>4. Only(apm, apm', Loose)
    BY <2>2, <2>3, SameOnly, SMTT(30)
  <2> QED
    BY <2>2, <2>4, <1>a, ZenonT(30)
<1>9. CASE AnalyzeRender
  <2>1. /\ apm' = apm /\ call' = [call EXCEPT !["render"] = None]
        /\ pc' = [pc EXCEPT !["render"] = "idle"]
    BY <1>9 DEF AnalyzeRender, Goto, Return
  <2> QED
    BY <2>1, <1>a, SameOnly, ZenonT(30)
<1> QED
  BY <1>1, <1>3, <1>4, <1>5, <1>6, <1>7, <1>8, <1>9, SMTT(30) DEF RenderNext

(* A call that changes two of the formats makes formats that are           *)
(* acceptable again.                                                       *)
LEMMA CallsAccepted ==
  ASSUME FormatsAccepted, NEW api, Sound(api)
  PROVE  /\ \A f \in CaptureFormats :
              Sound([api EXCEPT !.input = f.input, !.output = f.output])
         /\ \A f \in RenderFormats :
              Sound([api EXCEPT !.rin = f.rin, !.rout = f.rout])
<1>1. api.input \in StreamType /\ api.output \in StreamType
      /\ api.rin \in StreamType /\ api.rout \in StreamType
      /\ api \in ApiType /\ AcceptableFormat(api)
  BY DEF Sound, ApiType
<1>2. ASSUME NEW f \in CaptureFormats
      PROVE  Sound([api EXCEPT !.input = f.input, !.output = f.output])
  <2> DEFINE b == [api EXCEPT !.input = f.input, !.output = f.output]
  <2>1. f.input \in StreamType /\ f.output \in StreamType
    BY ApmAssumption
  <2>2. /\ b.input = f.input /\ b.output = f.output
        /\ b.rin = api.rin /\ b.rout = api.rout
        /\ b \in ApiType
    BY <1>1, <2>1, ZenonT(30) DEF ApiType
  <2>3. /\ \A s \in {f.input, f.output} : s.ch > 0 => s.rate > 0
        /\ f.input.ch > 0
        /\ f.output.ch = 1 \/ f.output.ch = f.input.ch
    BY DEF FormatsAccepted, AcceptableFormat
  <2> HIDE DEF b
  <2>4. AcceptableFormat(b)
    BY <1>1, <2>2, <2>3 DEF AcceptableFormat
  <2> QED
    BY <2>2, <2>4 DEF Sound, b
<1>3. ASSUME NEW f \in RenderFormats
      PROVE  Sound([api EXCEPT !.rin = f.rin, !.rout = f.rout])
  <2> DEFINE b == [api EXCEPT !.rin = f.rin, !.rout = f.rout]
  <2>1. f.rin \in StreamType /\ f.rout \in StreamType
    BY ApmAssumption
  <2>2. /\ b.rin = f.rin /\ b.rout = f.rout
        /\ b.input = api.input /\ b.output = api.output
        /\ b \in ApiType
    BY <1>1, <2>1, ZenonT(30) DEF ApiType
  <2>3. \A s \in {f.rin, f.rout} : s.ch > 0 => s.rate > 0
    BY DEF FormatsAccepted, AcceptableFormat
  <2> HIDE DEF b
  <2>4. AcceptableFormat(b)
    BY <1>1, <2>2, <2>3 DEF AcceptableFormat
  <2> QED
    BY <2>2, <2>4 DEF Sound, b
<1> QED
  BY <1>2, <1>3, ZenonT(30)

(* MaybeInitializeCapture() notices the states.  If it does not go on to   *)
(* reinitialize, they were noticed before.                                 *)
LEMMA ProcessStreamEffect ==
  ASSUME FormatsAccepted, IInv, SoundInv, ProcessStream
  PROVE  /\ Typed(apm') /\ Built(apm')
         /\ Only(apm, apm', {"states", "first_update"})
         /\ ~ Waiting' => apm'.states = apm.states
         /\ apm'.states.ec = apm.ec_enabled
         /\ ~ Waiting /\ (Waiting' => Sound(call'["capture"].api))
         /\ pc'["control"] = pc["control"] /\ call'["control"] = call["control"]
         /\ pc'["render"] = pc["render"] /\ call'["render"] = call["render"]
<1>1. PICK f \in CaptureFormats :
        /\ pc["capture"] = "idle"
        /\ call' = [call EXCEPT !["capture"] = [f |-> f, api |-> CaptureConfig(f)]]
        /\ pc' = [pc EXCEPT !["capture"] =
                    IF StatesChanged(apm) \/ CaptureConfig(f) # apm.api
                      THEN "lock_render" ELSE "lock_capture"]
        /\ apm' = Update(apm)
  BY ZenonT(30) DEF ProcessStream, CallProcessStream, At, Goto
<1> DEFINE api == CaptureConfig(f)
<1>2. Sound(api)
  BY CallsAccepted, ZenonT(30) DEF CaptureConfig, SoundInv, Typed
<1> HIDE DEF api
<1>3. /\ pc'["capture"] = IF StatesChanged(apm) \/ api # apm.api
                            THEN "lock_render" ELSE "lock_capture"
      /\ call'["capture"] = [f |-> f, api |-> api]
      /\ pc'["control"] = pc["control"] /\ call'["control"] = call["control"]
      /\ pc'["render"] = pc["render"] /\ call'["render"] = call["render"]
  BY <1>1 DEF IInv, Locks, Threads, api
<1>4. Waiting' => Sound(call'["capture"].api)
  BY <1>2, <1>3
<1>5. ~ Waiting' => ~ StatesChanged(apm)
  BY <1>3 DEF Waiting
<1>6. Typed(apm) /\ Built(apm)
  BY DEF SoundInv
<1>7. /\ Only(apm, apm', {"states", "first_update"})
      /\ apm'.states = CurrentStates(apm) /\ apm'.states.ec = apm.ec_enabled
  BY <1>1, <1>6, UpdateResult DEF Typed
<1>8. /\ DOMAIN apm' = DOMAIN apm
      /\ apm'.config = apm.config /\ apm'.api = apm.api
      /\ apm'.capture_rate = apm.capture_rate
      /\ apm'.render = apm.render /\ apm'.ec_enabled = apm.ec_enabled
      /\ apm'.capture_audio = apm.capture_audio
      /\ apm'.ec = apm.ec /\ apm'.aecm = apm.aecm /\ apm'.vad = apm.vad
  BY <1>6, <1>7 DEF Only, Typed, Members
<1>9. Typed(apm')
  BY <1>6, <1>7, <1>8 DEF Typed
<1>10. Built(apm')
  BY <1>6, <1>8 DEF Built
<1>11. ~ Waiting' => apm'.states = apm.states
  BY <1>5, <1>7 DEF StatesChanged
<1>12. ~ Waiting
  BY <1>1, SMTT(30) DEF Waiting
<1> QED
  BY <1>3, <1>4, <1>7, <1>9, <1>10, <1>11, <1>12

(* The two functions MaybeInitialize...() reinitialize.                    *)
LEMMA ReinitEffect ==
  ASSUME FormatsAccepted, IInv, SoundInv, ReinitCapture \/ InitRender
  PROVE  /\ Typed(apm') /\ Built(apm') /\ Rates(apm') /\ Channels(apm')
         /\ BandsSplit(apm') /\ IsSeq(apm'.agc_queue)
         /\ Lasting(apm')
         /\ Waiting' => Waiting /\ call'["capture"] = call["capture"]
         /\ pc["control"] = "idle" /\ pc'["control"] = "idle"
         /\ pc'["render"] \in {"idle", "red_queue"}
<1>1. PICK api : /\ apm' = InitializeLockedWith(apm, api) /\ Sound(api)
                 /\ Waiting' => Waiting /\ call'["capture"] = call["capture"]
                 /\ pc["control"] = "idle" /\ pc'["control"] = "idle"
                 /\ pc'["render"] \in {"idle", "red_queue"}
  <2>1. CASE ReinitCapture
    <3> DEFINE api == call["capture"].api
    <3>1. pc["capture"] = "reinit" /\ apm' = InitializeLockedWith(apm, api)
      BY <2>1 DEF ReinitCapture, ReinitCaptureWith, At
    <3>2. Sound(api)
      BY <3>1 DEF SoundInv, CallsSound, Waiting
    <3>3. pc' = [pc EXCEPT !["capture"] = "lock_capture"]
      BY <2>1, <3>2 DEF ReinitCapture, ReinitCaptureWith, Goto, Sound
    <3>4. pc["render"] = "idle" /\ pc["control"] = "idle"
      BY <3>1 DEF IInv, Locks
    <3>5. pc'["capture"] = "lock_capture"
          /\ pc'["render"] = "idle" /\ pc'["control"] = "idle"
      BY <3>3, <3>4 DEF IInv, Locks, Threads
    <3> QED
      BY <3>1, <3>2, <3>4, <3>5 DEF Waiting
  <2>2. CASE InitRender
    <3> DEFINE api == RenderConfig(call["render"].f)
    <3>1. pc["render"] = "init" /\ apm' = InitializeLockedWith(apm, api)
      BY <2>2 DEF InitRender, At
    <3>2. Sound(api)
      BY <3>1, CallsAccepted, ZenonT(30) DEF SoundInv, Typed, IInv, RenderCall, RenderConfig
    <3>3. pc' = [pc EXCEPT !["render"] = "red_queue"] /\ call' = call
      BY <2>2, <3>2 DEF InitRender, Goto, Sound
    <3>4. pc["control"] = "idle"
      BY <3>1 DEF IInv, Locks
    <3>5. pc'["capture"] = pc["capture"] /\ pc'["render"] = "red_queue"
          /\ pc'["control"] = "idle"
      BY <3>3, <3>4 DEF IInv, Locks, Threads
    <3> QED
      BY <3>1, <3>2, <3>3, <3>4, <3>5 DEF Waiting
  <2> QED
    BY <2>1, <2>2
<1>2. Typed(apm) /\ Built(apm)
  BY DEF SoundInv
<1>3. LET b == InitializeLockedWith(apm, api)
      IN  /\ b.config = apm.config /\ b.states.ec = apm.ec_enabled
          /\ Typed(b) /\ Built(b) /\ Rates(b) /\ Channels(b)
          /\ BandsSplit(b) /\ IsSeq(b.agc_queue)
  BY <1>1, <1>2, InitializeLockedWithResult, SMTT(30)
<1>4. Lasting(apm')
  BY <1>1, <1>2, <1>3, SMTT(30) DEF Lasting, Built
<1> QED
  BY <1>1, <1>3, <1>4

(* ApplyConfig() and Initialize(), on the control thread.                  *)
LEMMA ControlEffect ==
  ASSUME IInv, SoundInv, Control
  PROVE  /\ \/ /\ call["control"] \in Configs /\ pc["control"] = "apply"
               /\ apm' = ApplyConfig(apm, call["control"])
            \/ Reinitialize /\ apm' = InitializeLocked(apm)
            \/ /\ Sound(call["control"])
               /\ apm' = InitializeLockedWith(apm, call["control"])
         /\ Typed(apm') /\ Built(apm')
         /\ Waiting' <=> Waiting
         /\ call'["capture"] = call["capture"]
         /\ pc'["control"] = "idle" /\ pc'["render"] = "idle"
<1>1. /\ \/ pc["control"] = "apply" /\ apm' = ApplyConfig(apm, call["control"])
         \/ pc["control"] = "initialize" /\ apm' = InitializeLocked(apm)
         \/ /\ pc["control"] = "initialize_formats"
            /\ apm' = InitializeLockedWith(apm, call["control"])
      /\ pc' = [pc EXCEPT !["control"] = "idle"]
      /\ call' = [call EXCEPT !["control"] = None]
  BY DEF Control, At, Goto, Return
<1>2. \/ /\ call["control"] \in Configs /\ pc["control"] = "apply"
         /\ apm' = ApplyConfig(apm, call["control"])
      \/ Reinitialize /\ apm' = InitializeLocked(apm)
      \/ /\ Sound(call["control"])
         /\ apm' = InitializeLockedWith(apm, call["control"])
  BY <1>1 DEF SoundInv, CallsSound
<1>3. pc["render"] = "idle"
  BY <1>1 DEF IInv, Locks
<1>4. /\ pc'["control"] = "idle" /\ pc'["render"] = "idle"
      /\ pc'["capture"] = pc["capture"] /\ call'["capture"] = call["capture"]
  BY <1>1, <1>3 DEF IInv, Locks, Threads
<1>5. Typed(apm) /\ Built(apm) /\ Configs \subseteq ConfigType
  BY ApmAssumption DEF SoundInv
<1>6. Typed(apm') /\ Built(apm')
  <2>1. CASE call["control"] \in Configs /\ apm' = ApplyConfig(apm, call["control"])
    <3>1. call["control"] \in ConfigType
      BY <1>5, <2>1
    <3> QED
      BY <1>5, <2>1, <3>1, ApplyConfigResult
  <2>2. CASE apm' = InitializeLocked(apm)
    BY <1>5, <2>2, InitializeLockedResult
  <2>3. CASE /\ Sound(call["control"])
             /\ apm' = InitializeLockedWith(apm, call["control"])
    BY <1>5, <2>3, InitializeLockedWithResult
  <2> QED
    BY <1>2, <2>1, <2>2, <2>3, SMTT(30)
<1> QED
  BY <1>2, <1>4, <1>6 DEF Waiting

(* The control thread takes crit_render_ and chooses what to do.           *)
LEMMA ControlLockEffect ==
  ASSUME Locks, ControlLock
  PROVE  /\ apm' = apm
         /\ Waiting' <=> Waiting
         /\ call'["capture"] = call["capture"] /\ pc'["render"] = pc["render"]
         /\ call'["render"] = call["render"]
         /\ \/ /\ pc'["control"] = "apply" /\ call'["control"] \in Configs
               /\ apm.ec # None => SwitchOff \/ ( /\ call'["control"].aec
                                                 /\ ~ call'["control"].mobile )
            \/ pc'["control"] = "initialize" /\ Reinitialize
            \/ /\ pc'["control"] = "initialize_formats"
               /\ call'["control"] \in InitFormats
<1>1. CASE Reinitialize /\ pc' = [pc EXCEPT !["control"] = "initialize"]
           /\ call' = call /\ apm' = apm
  <2>1. pc'["control"] = "initialize" /\ pc'["capture"] = pc["capture"]
        /\ pc'["render"] = pc["render"]
    BY <1>1 DEF Locks, Threads
  <2> QED
    BY <1>1, <2>1 DEF Waiting
<1>2. ASSUME NEW c \in Configs,
             apm.ec # None => SwitchOff \/ (c.aec /\ ~ c.mobile),
             call' = [call EXCEPT !["control"] = c],
             pc' = [pc EXCEPT !["control"] = "apply"], apm' = apm
      PROVE  /\ pc'["control"] = "apply" /\ call'["control"] = c
             /\ pc'["capture"] = pc["capture"] /\ pc'["render"] = pc["render"]
             /\ call'["capture"] = call["capture"] /\ call'["render"] = call["render"]
  BY <1>2 DEF Locks, Threads
<1>3. CASE \E c \in Configs : /\ apm.ec # None => SwitchOff \/ (c.aec /\ ~ c.mobile)
                              /\ call' = [call EXCEPT !["control"] = c]
                              /\ pc' = [pc EXCEPT !["control"] = "apply"]
                              /\ apm' = apm
  BY <1>2, <1>3, ZenonT(30) DEF Waiting
<1>4. ASSUME NEW api \in InitFormats,
             call' = [call EXCEPT !["control"] = api],
             pc' = [pc EXCEPT !["control"] = "initialize_formats"], apm' = apm
      PROVE  /\ pc'["control"] = "initialize_formats" /\ call'["control"] = api
             /\ pc'["capture"] = pc["capture"] /\ pc'["render"] = pc["render"]
             /\ call'["capture"] = call["capture"] /\ call'["render"] = call["render"]
  BY <1>4 DEF Locks, Threads
<1>5. CASE \E api \in InitFormats :
             /\ call' = [call EXCEPT !["control"] = api]
             /\ pc' = [pc EXCEPT !["control"] = "initialize_formats"]
             /\ apm' = apm
  BY <1>4, <1>5, ZenonT(30) DEF Waiting
<1> QED
  BY <1>1, <1>3, <1>5, ZenonT(30) DEF ControlLock, Goto

(* The kinds of steps.                                                     *)
LEMMA Steps ==
  ASSUME IInv, [Next]_vars
  PROVE  \/ Plain \/ ProcessStream \/ ReinitCapture \/ InitRender
         \/ ControlLock \/ Control
<1>1. CASE UNCHANGED vars
  BY <1>1, SameOnly DEF vars, Plain, Waiting
<1>2. Locks
  BY DEF IInv
<1> QED
  BY <1>1, <1>2, CapturePlain, RenderPlain DEF Next

(* Everything stays built for the rates of the moment.                     *)
LEMMA SoundStep ==
  ASSUME FormatsAccepted, IInv, SoundInv, [Next]_vars
  PROVE  SoundInv'
<1>1. CASE Plain
  <2>1. Typed(apm') /\ Built(apm')
    BY <1>1, LooseFrame DEF Plain, SoundInv
  <2>2. CallsSound'
    BY <1>1 DEF Plain, SoundInv, CallsSound
  <2> QED
    BY <2>1, <2>2 DEF SoundInv
<1>2. CASE ProcessStream
  <2>1. /\ Typed(apm') /\ Built(apm')
        /\ Waiting' => Sound(call'["capture"].api)
        /\ pc'["control"] = pc["control"] /\ call'["control"] = call["control"]
    BY <1>2, ProcessStreamEffect
  <2> QED
    BY <2>1 DEF SoundInv, CallsSound
<1>3. CASE ReinitCapture \/ InitRender
  <2>1. /\ Typed(apm') /\ Built(apm')
        /\ Waiting' => Waiting /\ call'["capture"] = call["capture"]
        /\ pc'["control"] = "idle"
    BY <1>3, ReinitEffect
  <2> QED
    BY <2>1 DEF SoundInv, CallsSound
<1>4. CASE ControlLock
  <2>1. Locks
    BY DEF IInv
  <2>2. /\ apm' = apm
        /\ Waiting' <=> Waiting
        /\ call'["capture"] = call["capture"]
        /\ \/ pc'["control"] = "apply" /\ call'["control"] \in Configs
           \/ pc'["control"] = "initialize" /\ Reinitialize
           \/ /\ pc'["control"] = "initialize_formats"
              /\ call'["control"] \in InitFormats
    BY <1>4, <2>1, ControlLockEffect
  <2>3. Typed(apm') /\ Built(apm')
    BY <2>2 DEF SoundInv
  <2>4. \A api \in InitFormats : Sound(api)
    BY ApmAssumption DEF FormatsAccepted, Sound, ApiType
  <2> QED
    BY <2>2, <2>3, <2>4 DEF SoundInv, CallsSound
<1>5. CASE Control
  <2>1. /\ Typed(apm') /\ Built(apm')
        /\ Waiting' <=> Waiting
        /\ call'["capture"] = call["capture"]
        /\ pc'["control"] = "idle"
    BY <1>5, ControlEffect
  <2> QED
    BY <2>1 DEF SoundInv, CallsSound
<1> QED
  BY <1>1, <1>2, <1>3, <1>4, <1>5, Steps

(* The rates are right unless the capture thread is about to reinitialize. *)
RatesInv == ~ Waiting => Rates(apm)

(* So are the channels; and no echo controller is switched off.            *)
ChannelsInv ==
  /\ Lasting(apm)
  /\ ~ Waiting => Channels(apm)
  /\ pc["control"] = "apply" /\ apm.ec # None
       => call["control"].aec /\ ~ call["control"].mobile

(* Whoever changes what the rates depend on sets them again, but for       *)
(* Initialize() without formats on the control thread.                     *)
LEMMA RatesStep ==
  ASSUME FormatsAccepted, ~ Reinitialize, IInv, SoundInv, RatesInv, [Next]_vars
  PROVE  RatesInv'
<1> SUFFICES ASSUME ~ Waiting' PROVE Rates(apm')
  BY DEF RatesInv
<1>0. Typed(apm) /\ Built(apm)
  BY DEF SoundInv
<1>1. CASE Plain
  BY <1>0, <1>1, LooseFrame DEF Plain, RatesInv
<1>2. CASE ProcessStream
  <2>1. /\ Only(apm, apm', {"states", "first_update"})
        /\ ~ Waiting /\ apm'.states = apm.states
    BY <1>2, ProcessStreamEffect
  <2>2. /\ apm'.config = apm.config /\ apm'.api = apm.api
        /\ apm'.capture_rate = apm.capture_rate /\ apm'.render = apm.render
    BY <1>0, <2>1 DEF Only, Typed, Members
  <2> QED
    BY <2>1, <2>2 DEF RatesInv, Rates
<1>3. CASE ReinitCapture \/ InitRender
  BY <1>3, ReinitEffect
<1>4. CASE ControlLock
  <2>1. Locks
    BY DEF IInv
  <2>2. apm' = apm /\ ~ Waiting
    BY <1>4, <2>1, ControlLockEffect
  <2> QED
    BY <2>2 DEF RatesInv
<1>5. CASE Control
  <2>1. /\ ~ Waiting
        /\ \/ /\ call["control"] \in Configs
              /\ apm' = ApplyConfig(apm, call["control"])
           \/ /\ Sound(call["control"])
              /\ apm' = InitializeLockedWith(apm, call["control"])
    BY <1>5, ControlEffect, SMTT(30)
  <2>2. CASE call["control"] \in Configs /\ apm' = ApplyConfig(apm, call["control"])
    <3>1. call["control"] \in ConfigType
      BY <2>2, ApmAssumption, SMTT(30)
    <3> QED
      BY <1>0, <2>1, <2>2, <3>1, ApplyConfigResult, SMTT(30) DEF RatesInv
  <2>3. CASE /\ Sound(call["control"])
             /\ apm' = InitializeLockedWith(apm, call["control"])
    BY <1>0, <2>3, InitializeLockedWithResult
  <2> QED
    BY <2>1, <2>2, <2>3
<1> QED
  BY <1>1, <1>2, <1>3, <1>4, <1>5, Steps, SMTT(30)

(* Whoever changes the number of channels to process rebuilds what depends *)
(* on it, as long as the echo controller is not switched off.              *)
LEMMA ChannelsStep ==
  ASSUME FormatsAccepted, ~ Reinitialize, ~ SwitchOff,
         IInv, SoundInv, ChannelsInv, [Next]_vars
  PROVE  ChannelsInv'
<1>0. Typed(apm) /\ Built(apm)
  BY DEF SoundInv
<1>1. CASE Plain
  <2>1. Lasting(apm') /\ (Channels(apm) => Channels(apm'))
    BY <1>0, <1>1, LooseFrame DEF Plain, ChannelsInv
  <2>2. apm'.ec = apm.ec
    BY <1>0, <1>1, SMTT(30) DEF Plain, Only, Typed, Members, Loose, Queues
  <2> QED
    BY <1>1, <2>1, <2>2 DEF Plain, ChannelsInv
<1>2. CASE ProcessStream
  <2>1. /\ Only(apm, apm', {"states", "first_update"})
        /\ ~ Waiting /\ (~ Waiting' => apm'.states = apm.states)
        /\ apm'.states.ec = apm.ec_enabled
        /\ pc'["control"] = pc["control"] /\ call'["control"] = call["control"]
    BY <1>2, ProcessStreamEffect
  <2>2. /\ apm'.config = apm.config /\ apm'.api = apm.api
        /\ apm'.capture_rate = apm.capture_rate
        /\ apm'.ec_enabled = apm.ec_enabled /\ apm'.ec = apm.ec
        /\ apm'.agc = apm.agc /\ apm'.ns = apm.ns /\ apm'.hpf = apm.hpf
    BY <1>0, <2>1 DEF Only, Typed, Members
  <2>3. NumProcChannels(apm') = NumProcChannels(apm)
    BY <2>2 DEF NumProcChannels
  <2>4. Lasting(apm')
    BY <2>1, <2>2, SMTT(30) DEF Lasting
  <2>5. ~ Waiting' => Channels(apm')
    BY <2>1, <2>2, <2>3 DEF Channels, ChannelsInv
  <2> QED
    BY <2>1, <2>2, <2>4, <2>5, SMTT(30) DEF ChannelsInv
<1>3. CASE ReinitCapture \/ InitRender
  <2>1. Lasting(apm') /\ Channels(apm') /\ pc'["control"] = "idle"
    BY <1>3, ReinitEffect
  <2> QED
    BY <2>1 DEF ChannelsInv
<1>4. CASE ControlLock
  <2>1. Locks
    BY DEF IInv
  <2>2. /\ apm' = apm
        /\ Waiting' <=> Waiting
        /\ \/ /\ pc'["control"] = "apply"
              /\ apm.ec # None => /\ call'["control"].aec
                                  /\ ~ call'["control"].mobile
           \/ pc'["control"] \in {"initialize", "initialize_formats"}
    BY <1>4, <2>1, ControlLockEffect
  <2>3. Lasting(apm') /\ (Channels(apm) => Channels(apm')) /\ apm'.ec = apm.ec
    BY <2>2 DEF ChannelsInv
  <2> QED
    BY <2>2, <2>3 DEF ChannelsInv
<1>5. CASE Control
  <2>1. /\ \/ /\ call["control"] \in Configs /\ pc["control"] = "apply"
              /\ apm' = ApplyConfig(apm, call["control"])
           \/ /\ Sound(call["control"])
              /\ apm' = InitializeLockedWith(apm, call["control"])
        /\ Waiting' <=> Waiting
        /\ pc'["control"] = "idle"
    BY <1>5, ControlEffect
  <2>2. CASE /\ call["control"] \in Configs /\ pc["control"] = "apply"
             /\ apm' = ApplyConfig(apm, call["control"])
    <3>1. call["control"] \in ConfigType
      BY <2>2, ApmAssumption, SMTT(30)
    <3>2. Lasting(apm') /\ (Channels(apm) => Channels(apm'))
      BY <1>0, <2>2, <3>1, ApplyConfigResult, SMTT(30) DEF ChannelsInv
    <3> QED
      BY <2>1, <3>2 DEF ChannelsInv
  <2>3. CASE /\ Sound(call["control"])
             /\ apm' = InitializeLockedWith(apm, call["control"])
    <3>1. /\ apm'.config = apm.config /\ apm'.states.ec = apm.ec_enabled
          /\ Built(apm') /\ Channels(apm')
      BY <1>0, <2>3, InitializeLockedWithResult
    <3>2. Lasting(apm')
      BY <1>0, <3>1, SMTT(30) DEF Lasting, Built
    <3> QED
      BY <2>1, <3>1, <3>2, SMTT(30) DEF ChannelsInv
  <2> QED
    BY <2>1, <2>2, <2>3
<1> QED
  BY <1>1, <1>2, <1>3, <1>4, <1>5, Steps

(* The instance that AudioProcessingBuilder::Create() returns.             *)
LEMMA InitSound ==
  Init => SoundInv /\ RatesInv /\ ChannelsInv /\ BandsSplit(apm)
          /\ IsSeq(apm.agc_queue)
<1> SUFFICES ASSUME Init PROVE SoundInv /\ RatesInv /\ ChannelsInv
                               /\ BandsSplit(apm) /\ IsSeq(apm.agc_queue)
  OBVIOUS
<1>1. /\ apm = InitializeLocked(NewApm)
      /\ \A t \in Threads : pc[t] = "idle"
  BY DEF Init
<1> DEFINE api == [input |-> DefaultStream, output |-> DefaultStream,
                   rin |-> DefaultStream, rout |-> DefaultStream]
<1>2. /\ Members \subseteq DOMAIN NewApm
      /\ NewApm.config = DefaultConfig /\ NewApm.api = api
      /\ NewApm.capture_rate = 16000 /\ NewApm.render = DefaultStream
      /\ ~ NewApm.ec_enabled
      /\ NewApm.aecm = None /\ NewApm.agc = None /\ NewApm.ns = None
  <2>1. Members \subseteq DOMAIN NewApm
    BY SMTT(30) DEF NewApm, Members
  <2>2. /\ NewApm.config = DefaultConfig /\ NewApm.api = api
        /\ NewApm.capture_rate = 16000 /\ NewApm.render = DefaultStream
    BY SMTT(30) DEF NewApm
  <2>3. NewApm.aecm = None /\ NewApm.agc = None /\ NewApm.ns = None
    BY SMTT(30) DEF NewApm
  <2>4. ~ NewApm.ec_enabled
    BY DEF NewApm
  <2> QED
    BY <2>1, <2>2, <2>3, <2>4, SMTT(30)
<1>3. DefaultStream \in StreamType /\ DefaultStream.rate = 16000
      /\ DefaultStream.ch = 1
  BY DEF DefaultStream, Stream, StreamType
<1>4. Sound(api)
  BY <1>3 DEF Sound, ApiType, AcceptableFormat
<1>5. DefaultConfig \in ConfigType /\ DefaultConfig.max_rate = 48000
      /\ DefaultConfig.hpf = FALSE /\ DefaultConfig.vad = FALSE
  BY DEF DefaultConfig, ConfigType
<1>6. Typed(NewApm)
  <2> HIDE DEF api
  <2>1. NewApm.capture_rate \in Nat
    BY <1>2, SMTT(30)
  <2>a. NewApm.ec_enabled = FALSE /\ NewApm.states.ec = FALSE
    BY DEF NewApm
  <2>2. NewApm.ec_enabled \in BOOLEAN /\ NewApm.states.ec \in BOOLEAN
    BY <2>a, ZenonT(30)
  <2>3. Sound(NewApm.api)
    BY <1>2, <1>4
  <2>4. NewApm.config \in ConfigType
    BY <1>2, <1>5
  <2>5. NewApm.render \in StreamType
    BY <1>2, <1>3, SMTT(30)
  <2> QED
    BY <1>2, <2>1, <2>2, <2>3, <2>4, <2>5, SMTT(30) DEF Typed
<1>7. /\ SameSettings(NewApm, apm)
      /\ apm.states = CurrentStates(NewApm) /\ apm.states.ec = NewApm.ec_enabled
      /\ Typed(apm) /\ Built(apm) /\ Channels(apm)
      /\ BandsSplit(apm) /\ IsSeq(apm.agc_queue)
  BY <1>1, <1>6, InitializeLockedResult
<1>8. /\ ~ apm.states.hpf /\ ~ apm.states.aecm /\ ~ apm.states.ns
      /\ ~ apm.states.agc /\ ~ apm.states.vad /\ ~ apm.states.ec
  <2> DEFINE s == CurrentStates(NewApm)
  <2>1. /\ s.hpf = NewApm.config.hpf /\ s.vad = NewApm.config.vad
        /\ (s.aecm <=> NewApm.aecm # None) /\ (s.ns <=> NewApm.ns # None)
        /\ (s.agc <=> NewApm.agc # None)
    BY ZenonT(30) DEF CurrentStates
  <2> HIDE DEF s, api
  <2>2. apm.states = s
    BY <1>7 DEF s
  <2>3. ~ apm.states.hpf /\ ~ apm.states.vad
    BY <1>2, <1>5, <2>1, <2>2
  <2>4. ~ apm.states.aecm /\ ~ apm.states.ns /\ ~ apm.states.agc
    BY <1>2, <2>1, <2>2
  <2>5. ~ apm.states.ec
    BY <1>2, <1>7
  <2> QED
    BY <2>3, <2>4, <2>5
<1>9. /\ ~ RenderMultiBandSubModulesActive(apm.states)
      /\ ~ CaptureMultiBandSubModulesActive(apm.states)
  BY <1>8, SMTT(30) DEF RenderMultiBandSubModulesActive, CaptureMultiBandSubModulesActive,
              CaptureMultiBandProcessingPresent
<1>10. /\ apm.config = DefaultConfig /\ apm.api = api
       /\ apm.capture_rate = 16000 /\ apm.render = DefaultStream
  BY <1>2, <1>7 DEF SameSettings
<1>11. Rates(apm)
  <2>1. CaptureRate(apm.api, apm.config, apm.states) = 16000
    <3>1. Smaller(apm.api.input.rate, apm.api.output.rate) = 16000
      BY <1>3, <1>10 DEF Smaller
    <3> QED
      BY <1>9, <3>1 DEF CaptureRate, SuitableProcessRate
  <2>2. RenderFormat(apm.api, apm.config, apm.states, apm.states.ec) = DefaultStream
    BY <1>9, <1>10 DEF RenderFormat
  <2> QED
    BY <1>10, <2>1, <2>2 DEF Rates
<1>12. Lasting(apm)
  BY <1>8 DEF Lasting
<1>13. CallsSound /\ ~ Waiting /\ pc["control"] = "idle"
  BY <1>1 DEF CallsSound, Waiting, Threads
<1> QED
  BY <1>7, <1>11, <1>12, <1>13 DEF SoundInv, RatesInv, ChannelsInv

(* The invariants hold together.                                           *)
LEMMA SoundInvariance ==
  ASSUME FormatsAccepted
  PROVE  Spec => []SoundInv
<1>1. Init => SoundInv
  BY InitSound
<1>2. IInv /\ SoundInv /\ [Next]_vars => SoundInv'
  BY SoundStep
<1> QED
  BY <1>1, <1>2, Invariance, PTL DEF Spec

(* The rates are right whenever no reinitialization is pending.            *)
LEMMA RatesInvariance ==
  ASSUME FormatsAccepted, ~ Reinitialize
  PROVE  Spec => []RatesInv
<1>1. Init => RatesInv
  BY InitSound
<1>2. IInv /\ SoundInv /\ RatesInv /\ [Next]_vars => RatesInv'
  BY RatesStep
<1> QED
  BY <1>1, <1>2, Invariance, SoundInvariance, PTL DEF Spec

(* MaybeInitializeCapture() never forgets a reinitialization: for every    *)
(* interleaving of the three threads and every sequence of configurations  *)
(* and formats, once UpdateActiveSubmoduleStates() has nothing to report   *)
(* and no reinitialization is under way, the rates are the ones that the   *)
(* formats, the configuration and the active submodules ask for.           *)
THEOREM ReinitsAreNotForgotten ==
  ASSUME FormatsAccepted, ~ Reinitialize
  PROVE  Spec => []NoForgottenReinit
<1>1. RatesInv => NoForgottenReinit
  <2> SUFFICES ASSUME RatesInv, Settled
               PROVE  /\ apm.capture_rate = CaptureRate(apm.api, apm.config, apm.states)
                      /\ apm.render = RenderFormat(apm.api, apm.config, apm.states,
                                                   apm.ec_enabled)
    BY DEF NoForgottenReinit
  <2>1. Rates(apm)
    BY DEF RatesInv, Settled, Waiting
  <2>2. apm.states.ec = apm.ec_enabled
    BY DEF Settled, StatesChanged, CurrentStates
  <2> QED
    BY <2>1, <2>2 DEF Rates
<1> QED
  BY <1>1, RatesInvariance, PTL

(* The render stream has the rate of the capture stream when it is         *)
(* processed for the echo controller.                                      *)
LEMMA EchoRates ==
  ASSUME NEW a, Typed(a), Rates(a), a.states.ec
  PROVE  a.render.rate = a.capture_rate /\ a.capture_rate \in NativeProcessRates
<1> DEFINE rate == CaptureRate(a.api, a.config, a.states)
<1>1. rate \in NativeProcessRates
  BY RatesTyped DEF Typed
<1>2. RenderRate(a.api, a.config, a.states, a.states.ec) = rate
  BY <1>1 DEF RenderRate, NativeProcessRates, Larger
<1>3. RenderFormat(a.api, a.config, a.states, a.states.ec).rate = rate
  BY <1>2, ZenonT(30) DEF RenderFormat, RenderMultiBandSubModulesActive, Stream
<1> QED
  BY <1>1, <1>3, ZenonT(30) DEF Rates

(* The assertions of EchoCanceller3::RenderWriter::Insert() hold for every *)
(* interleaving: the buffer that AnalyzeRender() is given has the bands,   *)
(* the frames and the channels the echo controller was created for.        *)
THEOREM RenderAudioFits ==
  ASSUME FormatsAccepted, ~ Reinitialize
  PROVE  Spec => []AnalyzeRenderShape
<1>1. IInv /\ SoundInv /\ RatesInv => AnalyzeRenderShape
  <2> SUFFICES ASSUME IInv, SoundInv, RatesInv, Settled, apm.ec # None,
                      pc["render"] = "analyze"
               PROVE  LET buf == apm.render_audio.buf
                      IN /\ FramesPerBand(buf.rate) = 160
                         /\ NumBands(NumFrames(buf.rate))
                              = NumBands(NumFrames(apm.ec.rate))
                         /\ buf.ch = apm.ec.rch
    BY DEF AnalyzeRenderShape, RenderShapeFits, At
  <2>1. Rates(apm) /\ Typed(apm) /\ Built(apm)
    BY DEF RatesInv, Settled, Waiting, SoundInv
  <2>2. apm.states.ec
    <3>1. apm.states = CurrentStates(apm)
      BY ZenonT(30) DEF Settled, StatesChanged
    <3>2. CurrentStates(apm).ec = apm.ec_enabled
      BY ZenonT(30) DEF CurrentStates
    <3>3. apm.ec_enabled
      BY <2>1, ZenonT(30) DEF Built
    <3> QED
      BY <3>1, <3>2, <3>3, ZenonT(30)
  <2>3. apm.render.rate = apm.capture_rate /\ apm.capture_rate \in NativeProcessRates
    BY <2>1, <2>2, EchoRates, SMTT(30)
  <2>4. apm.ec.rate = apm.capture_rate /\ apm.ec.rch = apm.render.ch
    BY <2>1 DEF Built
  <2>5. apm.render_audio.buf = apm.render
    <3>1. apm.api.rin.ch > 0
      BY ApmAssumption DEF IInv, RenderCall
    <3> QED
      BY <3>1 DEF IInv, Streams, Valid, Buffers
  <2>6. FramesPerBand(apm.render.rate) = 160
    BY <2>3, BandsOf160
  <2> QED
    BY <2>3, <2>4, <2>5, <2>6, SMTT(30)
<1> QED
  BY <1>1, Invariance, SoundInvariance, RatesInvariance, PTL

(* The submodules of the capture side fit what they are given: the         *)
(* assertions of EchoCanceller3, GainControlImpl, EchoControlMobileImpl    *)
(* and HighPassFilter hold, and NoiseSuppressor finds its channels.        *)
THEOREM CaptureAudioFits ==
  ASSUME FormatsAccepted, ~ Reinitialize, ~ SwitchOff
  PROVE  Spec => []CaptureShapes
<1>1. Init => ChannelsInv
  BY InitSound
<1>2. IInv /\ SoundInv /\ ChannelsInv /\ [Next]_vars => ChannelsInv'
  BY ChannelsStep, SMTT(30)
<1>3. IInv /\ SoundInv /\ ChannelsInv => CaptureShapes
  <2> SUFFICES ASSUME IInv, SoundInv, ChannelsInv, Settled
               PROVE  CaptureShapes
    BY DEF CaptureShapes
  <2>1. Channels(apm) /\ Built(apm) /\ Typed(apm)
    BY SMTT(30) DEF ChannelsInv, Settled, Waiting, SoundInv
  <2>2. apm.states.ec = apm.ec_enabled
    BY SMTT(30) DEF Settled, StatesChanged, CurrentStates
  <2>3. apm.capture_audio.buf.ch = apm.api.output.ch
    BY <2>1, SMTT(30) DEF Built, Stream
  <2>4. ProcChannels = NumProcChannels(apm)
    BY <2>1, <2>3, SMTT(30) DEF ProcChannels, NumProcChannels, Built
  <2>5. /\ apm.ec # None => /\ apm.ec.cch = ProcChannels
                            /\ apm.ec.rate = apm.capture_rate
        /\ apm.agc # None => apm.agc = Stream(apm.capture_rate, ProcChannels)
        /\ apm.ns # None => apm.ns = Stream(apm.capture_rate, ProcChannels)
        /\ apm.hpf # None =>
             apm.hpf.ch = IF apm.config.hpf_full THEN apm.capture_audio.buf.ch
                                                 ELSE ProcChannels
        /\ apm.vad # None => apm.vad = SplitRate(apm.capture_rate)
    BY <2>1, <2>2, <2>3, <2>4, SMTT(30) DEF Channels, Built
  <2>6. apm.aecm # None => /\ apm.aecm.och = ProcChannels
                           /\ apm.aecm.rate = SplitRate(apm.capture_rate)
                           /\ apm.aecm.rch = apm.render.ch
    <3>1. apm.aecm # None => apm.ec = None
      BY <2>1 DEF Built
    <3>2. apm.aecm # None => Shaped(apm, apm.aecm)
      BY DEF IInv, Streams, Valid, Echo
    <3> QED
      BY <2>1, <2>3, <3>1, <3>2, SMTT(30) DEF Shaped, ProcChannels, Built
  <2> QED
    BY <2>5, <2>6, SMTT(30) DEF CaptureShapes, EchoChannelsFit
<1> QED
  BY <1>1, <1>2, <1>3, Invariance, SoundInvariance, PTL DEF Spec

-----------------------------------------------------------------------------
(* The bands of the render stream. *)

(* The render buffer has been split, or has one band. *)
InBands == \/ call["render"].split
           \/ ~ SampleRateSupportsMultiBand(apm.render.rate)

(* What is queued, and what the render thread has still to queue, is in    *)
(* bands, unless the capture thread is about to reinitialize.              *)
SplitInTime ==
  /\ IsSeq(apm.agc_queue)
  /\ ~ Waiting =>
       /\ BandsSplit(apm)
       /\ pc["render"] = "banded" /\ RenderMultiBandSubModulesActive(apm.states)
            => InBands
       /\ pc["render"] \in {"aecm_queue", "agc_queue"} => InBands
       /\ pc["render"] \in Emptying \cup {"full", "retry"}
            /\ call["render"].queue # "red_queue" => InBands

(* Remove() leaves a queue with what was in it.                            *)
LEMMA TailSplit ==
  ASSUME NEW a, Typed(a), Valid(a), IsSeq(a.agc_queue), NEW q \in Queues,
         a[q] # <<>>, q = "aecm_queue" => a.aecm # None
  PROVE  LET b == [a EXCEPT ![q] = Tail(a[q])]
         IN  IsSeq(b.agc_queue) /\ (BandsSplit(a) => BandsSplit(b))
<1> DEFINE s == Tail(a[q])
           b == [a EXCEPT ![q] = s]
<1>1. /\ b.aecm = a.aecm /\ b[q] = s
      /\ q # "agc_queue" => b.agc_queue = a.agc_queue
      /\ q # "aecm_queue" => b.aecm_queue = a.aecm_queue
  <2> HIDE DEF s
  <2> QED
    BY DEF Queues, Valid, Tracked
<1>2. IsSeq(a[q]) => IsSeq(s) /\ \A i \in DOMAIN s : i + 1 \in DOMAIN a[q]
                                                    /\ s[i] = a[q][i + 1]
  BY TailSeq
<1>3. a.aecm # None => IsSeq(a.aecm_queue)
  BY DEF Valid, Echo
<1> HIDE DEF b, s
<1>4. IsSeq(b.agc_queue)
  BY <1>1, <1>2, SMTT(30)
<1>5. ASSUME BandsSplit(a) PROVE BandsSplit(b)
  <2>1. CASE q = "agc_queue"
    BY <1>1, <1>2, <1>5, <2>1, SMTT(30) DEF BandsSplit
  <2>2. CASE q = "aecm_queue"
    BY <1>1, <1>2, <1>3, <1>5, <2>2, SMTT(30) DEF BandsSplit
  <2>3. CASE q = "red_queue"
    BY <1>1, <1>5, <2>3 DEF BandsSplit
  <2> QED
    BY <2>1, <2>2, <2>3, SMTT(30) DEF Queues
<1> QED
  BY <1>4, <1>5 DEF b, s

(* Insert() adds one element.                                              *)
LEMMA AppendSplit ==
  ASSUME NEW a, Typed(a), Valid(a), IsSeq(a.agc_queue), NEW q \in Queues, NEW e,
         q = "aecm_queue" => a.aecm # None
  PROVE  LET b == [a EXCEPT ![q] = Append(a[q], e)]
         IN  /\ IsSeq(b.agc_queue)
             /\ BandsSplit(a) /\ (q # "red_queue" => e.bands) => BandsSplit(b)
<1> DEFINE s == Append(a[q], e)
           b == [a EXCEPT ![q] = s]
<1>1. /\ b.aecm = a.aecm /\ b[q] = s
      /\ q # "agc_queue" => b.agc_queue = a.agc_queue
      /\ q # "aecm_queue" => b.aecm_queue = a.aecm_queue
  <2> HIDE DEF s
  <2> QED
    BY DEF Queues, Valid, Tracked
<1>2. IsSeq(a[q]) =>
        /\ IsSeq(s)
        /\ \A i \in DOMAIN s : s[i] = e \/ (i \in DOMAIN a[q] /\ s[i] = a[q][i])
  BY AppendSeq
<1>3. a.aecm # None => IsSeq(a.aecm_queue)
  BY DEF Valid, Echo
<1> HIDE DEF b, s
<1>4. IsSeq(b.agc_queue)
  BY <1>1, <1>2
<1>5. ASSUME BandsSplit(a), q # "red_queue" => e.bands PROVE BandsSplit(b)
  <2>1. CASE q = "agc_queue"
    BY <1>1, <1>2, <1>5, <2>1, SMTT(30) DEF BandsSplit
  <2>2. CASE q = "aecm_queue"
    BY <1>1, <1>2, <1>3, <1>5, <2>2, SMTT(30) DEF BandsSplit
  <2>3. CASE q = "red_queue"
    BY <1>1, <1>5, <2>3, SMTT(30) DEF BandsSplit
  <2> QED
    BY <2>1, <2>2, <2>3, SMTT(30) DEF Queues
<1> QED
  BY <1>4, <1>5 DEF b, s

(* Nothing happens to the bands when neither the render thread moves nor   *)
(* what it has read changes.                                               *)
LEMMA SplitFrame ==
  ASSUME SplitInTime, IsSeq(apm'.agc_queue), BandsSplit(apm) => BandsSplit(apm'),
         ~ Waiting' => ~ Waiting /\ apm'.states = apm.states,
         apm'.render = apm.render,
         pc'["render"] = pc["render"], call'["render"] = call["render"]
  PROVE  SplitInTime'
<1>1. InBands' <=> InBands
  BY DEF InBands
<1> QED
  BY <1>1 DEF SplitInTime

(* EmptyQueuedRenderAudio(), on either thread: what is left was split, and *)
(* if the render thread empties, it goes on with the same buffer.          *)
LEMMA PopSplit ==
  ASSUME IInv, SoundInv, SplitInTime, NEW t \in {"capture", "render"},
         NEW queue \in Queues,
         NEW here \in Emptying, NEW next \in Processing \cup {"retry"},
         t = "render" => next # "process",
         t = "capture" => next # "retry",
         \/ apm' = [apm EXCEPT ![queue] = Tail(apm[queue])] /\ pc' = pc
            /\ apm[queue] # <<>> /\ (queue = "aecm_queue" => apm.aecm # None)
         \/ apm' = apm /\ pc' = [pc EXCEPT ![t] = next],
         pc[t] = here, call' = call
  PROVE  SplitInTime'
<1>1. Typed(apm) /\ Valid(apm) /\ IsSeq(apm.agc_queue)
      /\ DOMAIN pc = Threads
  BY SMTT(30) DEF IInv, Streams, SoundInv, SplitInTime, Locks
<1>2. CASE apm' = [apm EXCEPT ![queue] = Tail(apm[queue])] /\ pc' = pc
           /\ apm[queue] # <<>> /\ (queue = "aecm_queue" => apm.aecm # None)
  <2>1. IsSeq(apm'.agc_queue) /\ (BandsSplit(apm) => BandsSplit(apm'))
    BY <1>1, <1>2, TailSplit, ZenonT(30)
  <2>2. apm'.states = apm.states /\ apm'.render = apm.render
    BY <1>2 DEF Queues
  <2>3. Waiting' <=> Waiting
    BY <1>2 DEF Waiting
  <2> QED
    BY <1>2, <2>1, <2>2, <2>3, SplitFrame
<1>3. CASE apm' = apm /\ pc' = [pc EXCEPT ![t] = next]
  <2>1. CASE t = "capture"
    <3>1. pc'["render"] = pc["render"] /\ pc'["capture"] = next
      BY <1>1, <1>3, <2>1 DEF Threads
    <3>2. ~ Waiting
      BY <2>1 DEF Waiting, Emptying
    <3> QED
      BY <1>1, <1>3, <3>1, <3>2, SplitFrame, SMTT(30)
  <2>2. CASE t = "render"
    <3>1. pc'["capture"] = pc["capture"] /\ pc'["render"] = next
      BY <1>1, <1>3, <2>2, SMTT(30) DEF Threads
    <3>2. (Waiting' <=> Waiting) /\ (InBands' <=> InBands)
      BY <1>3, <3>1 DEF Waiting, InBands
    <3>3. next \in Emptying \cup {"retry"} /\ pc["render"] \in Emptying
      BY <2>2 DEF Processing
    <3> QED
      BY <1>3, <3>1, <3>2, <3>3, SMTT(30) DEF SplitInTime, Emptying
  <2> QED
    BY <2>1, <2>2, SMTT(30)
<1> QED
  BY <1>2, <1>3, SMTT(30)

(* The steps of the capture thread.                                        *)
LEMMA CaptureSplit ==
  ASSUME FormatsAccepted, IInv, SoundInv, SplitInTime, CaptureNext
  PROVE  SplitInTime'
<1>0. Typed(apm) /\ DOMAIN pc = Threads /\ DOMAIN call = Threads
      /\ IsSeq(apm.agc_queue)
  BY DEF SoundInv, IInv, Locks, SplitInTime
<1>1. ASSUME NEW v, apm' = apm \/ apm' = [apm EXCEPT !.delay_set = v],
             ~ Waiting' => ~ Waiting,
             pc'["render"] = pc["render"], call'["render"] = call["render"]
      PROVE  SplitInTime'
  <2>1. /\ apm'.states = apm.states /\ apm'.render = apm.render
        /\ apm'.agc_queue = apm.agc_queue /\ apm'.aecm_queue = apm.aecm_queue
        /\ apm'.aecm = apm.aecm
    <3>1. CASE apm' = apm
      BY <3>1
    <3>2. CASE apm' = [apm EXCEPT !.delay_set = v]
      BY <3>2
    <3> QED
      BY <1>1, <3>1, <3>2
  <2>2. BandsSplit(apm) => BandsSplit(apm')
    BY <2>1 DEF BandsSplit
  <2> QED
    BY <1>0, <1>1, <2>1, <2>2, SplitFrame
<1>2. CASE SetStreamDelay
  <2>1. apm' = [apm EXCEPT !.delay_set = TRUE] /\ pc' = pc /\ call' = call
    BY <1>2 DEF SetStreamDelay
  <2> QED
    BY <1>1, <2>1 DEF Waiting
<1>3. CASE ReinitLockRender \/ LockCapture
  <2>1. /\ apm' = apm /\ call' = call
        /\ \/ pc' = [pc EXCEPT !["capture"] = "reinit"]
           \/ pc["capture"] = "lock_capture"
              /\ pc' = [pc EXCEPT !["capture"] = "empty_aecm"]
    BY <1>3 DEF ReinitLockRender, LockCapture, At, Goto
  <2>2. pc'["render"] = pc["render"] /\ (~ Waiting' => ~ Waiting)
    BY <1>0, <2>1 DEF Waiting, Threads
  <2> QED
    BY <1>1, <2>1, <2>2
<1>4. CASE ProcessCapture
  <2>1. /\ pc' = [pc EXCEPT !["capture"] = "idle"] /\ pc["capture"] = "process"
        /\ call' = [call EXCEPT !["capture"] = None]
        /\ apm' = apm \/ apm' = [apm EXCEPT !.delay_set = FALSE]
    BY <1>4 DEF ProcessCapture, At, Goto, Return
  <2>2. pc'["render"] = pc["render"] /\ call'["render"] = call["render"] /\ ~ Waiting
    BY <1>0, <2>1, SMTT(30) DEF Waiting, Threads
  <2> QED
    BY <1>1, <2>1, <2>2
<1>5. CASE EmptyAecm("capture")
  <2>1. /\ pc["capture"] = "empty_aecm" /\ call' = call
        /\ \/ apm' = [apm EXCEPT !["aecm_queue"] = Tail(apm["aecm_queue"])]
              /\ pc' = pc /\ apm["aecm_queue"] # <<>> /\ apm.aecm # None
           \/ apm' = apm /\ pc' = [pc EXCEPT !["capture"] = "empty_agc"]
    BY <1>5, SMTT(30) DEF EmptyAecm, Pop, At, Goto
  <2> QED
    BY <2>1, PopSplit DEF Queues, Emptying, Processing
<1>6. CASE EmptyAgc("capture")
  <2>1. /\ pc["capture"] = "empty_agc" /\ call' = call
        /\ \/ apm' = [apm EXCEPT !["agc_queue"] = Tail(apm["agc_queue"])]
              /\ pc' = pc /\ apm["agc_queue"] # <<>>
           \/ apm' = apm /\ pc' = [pc EXCEPT !["capture"] = "empty_red"]
    BY <1>6, SMTT(30) DEF EmptyAgc, Pop, At, Goto
  <2> QED
    BY <2>1, PopSplit DEF Queues, Emptying, Processing
<1>7. CASE EmptyRedCapture
  <2>1. /\ pc["capture"] = "empty_red" /\ call' = call
        /\ \/ apm' = [apm EXCEPT !["red_queue"] = Tail(apm["red_queue"])]
              /\ pc' = pc /\ apm["red_queue"] # <<>>
           \/ apm' = apm /\ pc' = [pc EXCEPT !["capture"] = "process"]
    BY <1>7, SMTT(30) DEF EmptyRedCapture, Pop, At, Goto
  <2> QED
    BY <2>1, PopSplit DEF Queues, Emptying, Processing
<1>8. CASE ProcessStream
  <2>1. /\ Only(apm, apm', {"states", "first_update"})
        /\ ~ Waiting' => apm'.states = apm.states
        /\ ~ Waiting
        /\ pc'["render"] = pc["render"] /\ call'["render"] = call["render"]
    BY <1>8, ProcessStreamEffect, SMTT(30)
  <2>2. /\ apm'.render = apm.render /\ apm'.agc_queue = apm.agc_queue
        /\ apm'.aecm_queue = apm.aecm_queue /\ apm'.aecm = apm.aecm
    BY <1>0, <2>1 DEF Only, Typed, Members
  <2>3. BandsSplit(apm) => BandsSplit(apm')
    BY <2>2, SMTT(30) DEF BandsSplit
  <2> QED
    BY <1>0, <2>1, <2>2, <2>3, SplitFrame, SMTT(30)
<1>9. CASE ReinitCapture
  <2>1. BandsSplit(apm') /\ IsSeq(apm'.agc_queue)
        /\ pc'["render"] \in {"idle", "red_queue"}
    BY <1>9, ReinitEffect
  <2> QED
    BY <2>1 DEF SplitInTime, Emptying
<1> QED
  BY <1>2, <1>3, <1>4, <1>5, <1>6, <1>7, <1>8, <1>9, SMTT(30) DEF CaptureNext

(* PackRenderAudioBuffer() makes bands of a buffer that is in bands.       *)
LEMMA PackedBands ==
  ASSUME IInv, pc["render"] \notin {"idle", "init"},
         NEW queue \in {"aecm_queue", "agc_queue"}
  PROVE  Packed(queue).bands <=> InBands
<1>1. apm.render_audio.buf = apm.render
  <2>1. apm.api.rin.ch > 0
    BY ApmAssumption DEF IInv, RenderCall
  <2> QED
    BY <2>1 DEF IInv, Streams, Valid, Buffers
<1> QED
  BY <1>1, ZenonT(30) DEF Packed, InBands

(* The first Insert(): it adds a buffer that is in bands, and a thread     *)
(* that finds the queue full comes back with the same buffer.              *)
LEMMA InsertSplit ==
  ASSUME IInv, SoundInv, SplitInTime, NEW queue \in Queues, NEW wanted,
         queue = "aecm_queue" => (wanted => apm.aecm # None),
         Insert(queue, wanted)
  PROVE  SplitInTime'
<1>1. Typed(apm) /\ Valid(apm) /\ IsSeq(apm.agc_queue)
      /\ DOMAIN pc = Threads /\ DOMAIN call = Threads
      /\ DOMAIN call["render"] = {"f", "split", "queue"}
  <2>1. pc["render"] = queue
    BY DEF Insert, At
  <2> QED
    BY <2>1 DEF IInv, Streams, SoundInv, SplitInTime, Locks, RenderCall, Queues
<1>2. pc["render"] = queue /\ (queue # "red_queue" /\ ~ Waiting => InBands)
  BY SMTT(30) DEF Insert, At, SplitInTime, Queues
<1>3. CASE /\ call' = call /\ pc' = [pc EXCEPT !["render"] = AfterQueue[queue]]
           /\ \/ apm' = apm
              \/ wanted
                 /\ apm' = [apm EXCEPT ![queue] = Append(apm[queue], Packed(queue))]
  <2>1. /\ pc'["capture"] = pc["capture"]
        /\ pc'["render"] \in {"split", "agc_queue", "analyze"}
        /\ pc'["render"] = "agc_queue" => queue = "aecm_queue"
    BY <1>1, <1>3 DEF Threads, AfterQueue, Queues
  <2>2. /\ IsSeq(apm'.agc_queue) /\ apm'.render = apm.render
        /\ BandsSplit(apm) /\ ~ Waiting => BandsSplit(apm')
    <3>1. CASE apm' = apm
      BY <1>1, <3>1
    <3>2. CASE wanted
               /\ apm' = [apm EXCEPT ![queue] = Append(apm[queue], Packed(queue))]
      <4>1. queue # "red_queue" /\ ~ Waiting => Packed(queue).bands
        BY <1>2, PackedBands DEF Queues
      <4>2. apm'.render = apm.render
        BY <3>2 DEF Queues
      <4> QED
        BY <1>1, <3>2, <4>1, <4>2, AppendSplit, ZenonT(30)
    <3> QED
      BY <1>3, <3>1, <3>2
  <2>3. (Waiting' <=> Waiting) /\ (InBands' <=> InBands)
    BY <1>3, <2>1, <2>2 DEF Waiting, InBands
  <2> QED
    BY <1>2, <2>1, <2>2, <2>3, SMTT(30) DEF SplitInTime, Emptying
<1>4. CASE /\ call' = [call EXCEPT !["render"].queue = queue]
           /\ pc' = [pc EXCEPT !["render"] = "full"]
           /\ apm' = apm
  <2>1. /\ pc'["capture"] = pc["capture"] /\ pc'["render"] = "full"
        /\ call'["render"].queue = queue
        /\ call'["render"].split = call["render"].split
    BY <1>1, <1>4 DEF Threads
  <2>2. (Waiting' <=> Waiting) /\ (InBands' <=> InBands)
    BY <1>4, <2>1, SMTT(30) DEF Waiting, InBands
  <2> QED
    BY <1>1, <1>2, <1>4, <2>1, <2>2 DEF SplitInTime, Emptying
<1> QED
  BY <1>3, <1>4, SMTT(30) DEF Insert, Goto

(* The second Insert().                                                    *)
LEMMA RetrySplit ==
  ASSUME IInv, SoundInv, SplitInTime, Retry
  PROVE  SplitInTime'
<1> DEFINE queue == call["render"].queue
<1>1. Typed(apm) /\ Valid(apm) /\ IsSeq(apm.agc_queue)
      /\ DOMAIN pc = Threads /\ DOMAIN call = Threads
      /\ DOMAIN call["render"] = {"f", "split", "queue"}
      /\ queue \in Queues /\ (queue = "aecm_queue" => apm.aecm # None)
      /\ pc["render"] = "retry"
  <2>1. pc["render"] = "retry"
    BY DEF Retry, At
  <2> QED
    BY <2>1 DEF IInv, Streams, SoundInv, SplitInTime, Locks, RenderCall, Emptied
<1>2. queue # "red_queue" /\ ~ Waiting => InBands
  BY <1>1 DEF SplitInTime
<1>3. /\ call' = [call EXCEPT !["render"].queue = None]
      /\ pc' = [pc EXCEPT !["render"] = AfterQueue[queue]]
      /\ \/ apm' = apm
         \/ apm' = [apm EXCEPT ![queue] = Append(apm[queue], Packed(queue))]
  BY DEF Retry, Goto
<1>4. call'["render"].split = call["render"].split
  BY <1>1, <1>3 DEF Threads
<1> HIDE DEF queue
<1>5. /\ pc'["capture"] = pc["capture"]
      /\ pc'["render"] \in {"split", "agc_queue", "analyze"}
      /\ pc'["render"] = "agc_queue" => queue = "aecm_queue"
  BY <1>1, <1>3 DEF Threads, AfterQueue, Queues
<1>6. /\ IsSeq(apm'.agc_queue) /\ apm'.render = apm.render
      /\ BandsSplit(apm) /\ ~ Waiting => BandsSplit(apm')
  <2>1. CASE apm' = apm
    BY <1>1, <2>1
  <2>2. CASE apm' = [apm EXCEPT ![queue] = Append(apm[queue], Packed(queue))]
    <3>1. queue # "red_queue" /\ ~ Waiting => Packed(queue).bands
      BY <1>1, <1>2, PackedBands DEF Queues
    <3>2. apm'.render = apm.render
      BY <1>1, <2>2 DEF Queues
    <3> QED
      BY <1>1, <2>2, <3>1, <3>2, AppendSplit, ZenonT(30)
  <2> QED
    BY <1>3, <2>1, <2>2, SMTT(30)
<1>7. (Waiting' <=> Waiting) /\ (InBands' <=> InBands)
  BY <1>4, <1>5, <1>6 DEF Waiting, InBands
<1> QED
  BY <1>2, <1>5, <1>6, <1>7, SMTT(30) DEF SplitInTime, Emptying

(* The steps of the render thread: the first read of submodule_states_     *)
(* decides whether to split, the second whether to queue; if the states    *)
(* changed in between, the capture thread is about to reinitialize.        *)
LEMMA RenderSplit ==
  ASSUME FormatsAccepted, IInv, SoundInv, SplitInTime, RenderNext
  PROVE  SplitInTime'
<1>0. Typed(apm) /\ DOMAIN pc = Threads /\ DOMAIN call = Threads
      /\ IsSeq(apm.agc_queue)
  BY DEF SoundInv, IInv, Locks, SplitInTime
<1>1. CASE ProcessReverseStream \/ AnalyzeRender
  <2>1. /\ apm' = apm
        /\ \E l \in {"init", "red_queue", "idle"} : pc' = [pc EXCEPT !["render"] = l]
    BY <1>1 DEF ProcessReverseStream, AnalyzeRender, Return, Goto
  <2>2. pc'["capture"] = pc["capture"] /\ pc'["render"] \in {"init", "red_queue", "idle"}
    BY <1>0, <2>1 DEF Threads
  <2> QED
    BY <2>1, <2>2 DEF SplitInTime, Waiting, Emptying
<1>2. CASE InitRender
  <2>1. BandsSplit(apm') /\ IsSeq(apm'.agc_queue)
        /\ pc'["render"] \in {"idle", "red_queue"}
    BY <1>2, ReinitEffect
  <2> QED
    BY <2>1 DEF SplitInTime, Emptying
<1>3. CASE InsertRed
  BY <1>3, InsertSplit, ZenonT(30) DEF InsertRed, Queues
<1>4. CASE InsertAecm
  <2> DEFINE wanted == apm.aecm # None
  <2>1. Insert("aecm_queue", wanted) /\ (wanted => apm.aecm # None)
    BY <1>4 DEF InsertAecm
  <2> HIDE DEF wanted
  <2> QED
    BY <2>1, InsertSplit DEF Queues
<1>5. CASE InsertAgc
  <2> DEFINE wanted == apm.agc_manager = None /\ apm.agc # None
  <2>1. Insert("agc_queue", wanted)
    BY <1>5, SMTT(30) DEF InsertAgc
  <2> HIDE DEF wanted
  <2> QED
    BY <2>1, InsertSplit DEF Queues
<1>6. CASE SplitIntoFrequencyBands
  <2> DEFINE split == RenderMultiBandSubModulesActive(apm.states)
                      /\ SampleRateSupportsMultiBand(apm.render.rate)
  <2>1. /\ apm' = apm /\ pc["render"] = "split"
        /\ pc' = [pc EXCEPT !["render"] = "banded"]
        /\ call' = [call EXCEPT !["render"].split = split]
    BY <1>6, ZenonT(30) DEF SplitIntoFrequencyBands, At, Goto
  <2>2. DOMAIN call["render"] = {"f", "split", "queue"}
    BY <2>1 DEF IInv, RenderCall
  <2>3. call'["render"].split = split
    <3> HIDE DEF split
    <3> QED
      BY <1>0, <2>1, <2>2 DEF Threads
  <2>4. pc'["capture"] = pc["capture"] /\ pc'["render"] = "banded"
    BY <1>0, <2>1 DEF Threads
  <2>5. RenderMultiBandSubModulesActive(apm'.states) => InBands'
    BY <2>1, <2>3, ZenonT(30) DEF InBands
  <2>6. (BandsSplit(apm) => BandsSplit(apm')) /\ IsSeq(apm'.agc_queue)
    BY <1>0, <2>1, SMTT(30)
  <2> QED
    BY <2>4, <2>5, <2>6 DEF SplitInTime, Waiting, Emptying
<1>7. CASE QueueBandedRenderAudio
  <2>1. /\ apm' = apm /\ call' = call /\ pc["render"] = "banded"
        /\ pc' = [pc EXCEPT !["render"] =
                    IF RenderMultiBandSubModulesActive(apm.states)
                      THEN "aecm_queue" ELSE "analyze"]
    BY <1>7 DEF QueueBandedRenderAudio, At, Goto
  <2>2. /\ pc'["capture"] = pc["capture"]
        /\ pc'["render"] = IF RenderMultiBandSubModulesActive(apm.states)
                             THEN "aecm_queue" ELSE "analyze"
    BY <1>0, <2>1 DEF Threads
  <2>3. (InBands' <=> InBands) /\ (Waiting' <=> Waiting)
    BY <2>1, <2>2 DEF InBands, Waiting
  <2>4. (BandsSplit(apm) => BandsSplit(apm')) /\ IsSeq(apm'.agc_queue)
    BY <1>0, <2>1, SMTT(30)
  <2> QED
    BY <2>1, <2>2, <2>3, <2>4 DEF SplitInTime, Emptying
<1>8. CASE LockFull
  <2>1. /\ apm' = apm /\ call' = call /\ pc["render"] = "full"
        /\ pc' = [pc EXCEPT !["render"] = "empty_aecm"]
    BY <1>8 DEF LockFull, At, Goto
  <2>2. pc'["capture"] = pc["capture"] /\ pc'["render"] = "empty_aecm"
    BY <1>0, <2>1 DEF Threads
  <2>3. (InBands' <=> InBands) /\ (Waiting' <=> Waiting)
    BY <2>1, <2>2 DEF InBands, Waiting
  <2>4. (BandsSplit(apm) => BandsSplit(apm')) /\ IsSeq(apm'.agc_queue)
    BY <1>0, <2>1
  <2> QED
    BY <2>1, <2>2, <2>3, <2>4 DEF SplitInTime, Emptying
<1>9. CASE EmptyAecm("render")
  <2>1. /\ pc["render"] = "empty_aecm" /\ call' = call
        /\ \/ apm' = [apm EXCEPT !["aecm_queue"] = Tail(apm["aecm_queue"])]
              /\ pc' = pc /\ apm["aecm_queue"] # <<>> /\ apm.aecm # None
           \/ apm' = apm /\ pc' = [pc EXCEPT !["render"] = "empty_agc"]
    BY <1>9, SMTT(30) DEF EmptyAecm, Pop, At, Goto
  <2> QED
    BY <2>1, PopSplit, ZenonT(30) DEF Queues, Emptying, Processing
<1>10. CASE EmptyAgc("render")
  <2>1. /\ pc["render"] = "empty_agc" /\ call' = call
        /\ \/ apm' = [apm EXCEPT !["agc_queue"] = Tail(apm["agc_queue"])]
              /\ pc' = pc /\ apm["agc_queue"] # <<>>
           \/ apm' = apm /\ pc' = [pc EXCEPT !["render"] = "empty_red"]
    BY <1>10, SMTT(30) DEF EmptyAgc, Pop, At, Goto
  <2> QED
    BY <2>1, PopSplit, SMTT(30) DEF Queues, Emptying, Processing
<1>11. CASE EmptyRedRender
  <2>1. /\ pc["render"] = "empty_red" /\ call' = call
        /\ \/ apm' = [apm EXCEPT !["red_queue"] = Tail(apm["red_queue"])]
              /\ pc' = pc /\ apm["red_queue"] # <<>>
           \/ apm' = apm /\ pc' = [pc EXCEPT !["render"] = "retry"]
    BY <1>11 DEF EmptyRedRender, At, Goto
  <2> QED
    BY <2>1, PopSplit DEF Queues, Emptying, Processing
<1>12. CASE Retry
  BY <1>12, RetrySplit
<1> QED
  BY <1>1, <1>2, <1>3, <1>4, <1>5, <1>6, <1>7, <1>8, <1>9, <1>10, <1>11, <1>12, SMTT(30)
     DEF RenderNext

(* The steps of the control thread: crit_render_ keeps the render thread   *)
(* out, and a queue that is kept has the same bands.                       *)
LEMMA ControlSplit ==
  ASSUME IInv, SoundInv, SplitInTime, ControlLock \/ Control
  PROVE  SplitInTime'
<1>0. Typed(apm) /\ Built(apm) /\ IsSeq(apm.agc_queue) /\ Locks
  BY DEF SoundInv, IInv, SplitInTime
<1>1. CASE ControlLock
  <2>1. /\ apm' = apm
        /\ Waiting' <=> Waiting
        /\ pc'["render"] = pc["render"] /\ call'["render"] = call["render"]
    BY <1>0, <1>1, ControlLockEffect, SMTT(30)
  <2> QED
    BY <1>0, <2>1, SplitFrame, SMTT(30)
<1>2. CASE Control
  <2>1. /\ \/ /\ call["control"] \in Configs
              /\ apm' = ApplyConfig(apm, call["control"])
           \/ apm' = InitializeLocked(apm)
           \/ /\ Sound(call["control"])
              /\ apm' = InitializeLockedWith(apm, call["control"])
        /\ Waiting' <=> Waiting
        /\ pc'["render"] = "idle"
    BY <1>2, ControlEffect, SMTT(30)
  <2>2. IsSeq(apm'.agc_queue) /\ (BandsSplit(apm) => BandsSplit(apm'))
    <3>1. CASE call["control"] \in Configs
               /\ apm' = ApplyConfig(apm, call["control"])
      <4>1. call["control"] \in ConfigType
        BY <3>1, ApmAssumption, SMTT(30)
      <4> QED
        BY <1>0, <3>1, <4>1, ApplyConfigResult, SMTT(30)
    <3>2. CASE apm' = InitializeLocked(apm)
      BY <1>0, <3>2, InitializeLockedResult, SMTT(30)
    <3>3. CASE /\ Sound(call["control"])
               /\ apm' = InitializeLockedWith(apm, call["control"])
      BY <1>0, <3>3, InitializeLockedWithResult
    <3> QED
      BY <2>1, <3>1, <3>2, <3>3, SMTT(30)
  <2> QED
    BY <2>1, <2>2, SMTT(30) DEF SplitInTime, Emptying
<1> QED
  BY <1>1, <1>2, SMTT(30)

(* ProcessStream() never feeds bands to a submodule that were taken from a *)
(* buffer that was not split, though the render thread reads the states    *)
(* twice without the lock that protects them.  The control thread may do   *)
(* what it likes.                                                          *)
THEOREM ProcessedBandsAreSplit ==
  ASSUME FormatsAccepted
  PROVE  Spec => []OnlySplitBandsProcessed
<1>1. Init => SplitInTime
  <2> SUFFICES ASSUME Init PROVE SplitInTime
    OBVIOUS
  <2>1. pc["render"] = "idle"
    BY DEF Init, Threads
  <2> QED
    BY <2>1, InitSound DEF SplitInTime, Emptying
<1>2. IInv /\ SoundInv /\ SplitInTime /\ [Next]_vars => SplitInTime'
  <2> SUFFICES ASSUME IInv, SoundInv, SplitInTime, [Next]_vars PROVE SplitInTime'
    OBVIOUS
  <2>1. CASE UNCHANGED vars
    <3>1. UNCHANGED <<apm, pc, call>>
      BY <2>1, SMTT(30) DEF vars
    <3>2. (BandsSplit(apm) => BandsSplit(apm')) /\ IsSeq(apm'.agc_queue)
          /\ (Waiting' <=> Waiting)
      BY <3>1, SMTT(30) DEF SplitInTime, Waiting
    <3> QED
      BY <3>1, <3>2, SplitFrame, SMTT(30)
  <2> QED
    BY <2>1, CaptureSplit, RenderSplit, ControlSplit, SMTT(30) DEF Next
<1>3. SplitInTime => OnlySplitBandsProcessed
  BY DEF SplitInTime, OnlySplitBandsProcessed, Waiting, BandsSplit, At
<1> QED
  BY <1>1, <1>2, <1>3, Invariance, SoundInvariance, PTL DEF Spec
=============================================================================
