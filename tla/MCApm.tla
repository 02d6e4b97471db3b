-------------------------------- MODULE MCApm --------------------------------
(* Apm for TLC. *)
EXTENDS Apm

C(rate, ch) == [input |-> Stream(rate, ch), output |-> Stream(rate, ch)]
R(rate, ch) == [rin |-> Stream(rate, ch), rout |-> Stream(rate, ch)]
D == DefaultConfig

MixedConfigs == {D,
                 [D EXCEPT !.aec = TRUE],
                 [D EXCEPT !.aec = TRUE, !.mobile = TRUE],
                 [D EXCEPT !.agc1 = TRUE, !.analog = FALSE]}
MixedCapture == {C(16000, 1), C(48000, 2),
                 [input |-> Stream(16000, 1), output |-> Stream(16000, 2)]}
TwoCapture == {C(16000, 1), C(48000, 2)}
MixedRender == {R(16000, 1), R(48000, 2)}

(* Formats for Initialize(): others than the calls have, the same, and what *)
(* is refused.                                                              *)
A(rate, ch, rrate, rch) ==
  [input |-> Stream(rate, ch), output |-> Stream(rate, ch),
   rin |-> Stream(rrate, rch), rout |-> Stream(rrate, rch)]
MixedInit == {A(48000, 1, 16000, 1), A(0, 1, 16000, 1)}
ShapeInit == {A(48000, 2, 16000, 1)}

E == [D EXCEPT !.aec = TRUE]
BandConfigs == {[D EXCEPT !.ns = TRUE, !.hpf_full = FALSE],
                [D EXCEPT !.agc1 = TRUE, !.analog = FALSE, !.agc2 = TRUE,
                          !.le = TRUE],
                [D EXCEPT !.aec = TRUE, !.mobile = TRUE, !.vad = TRUE],
                [D EXCEPT !.hpf = TRUE, !.pre = TRUE, !.max_rate = 32000]}
EchoConfigs == {[E EXCEPT !.ns = TRUE], [E EXCEPT !.agc1 = TRUE, !.vad = TRUE],
                [E EXCEPT !.multi_render = TRUE, !.multi_capture = TRUE,
                          !.hpf_full = FALSE],
                [E EXCEPT !.max_rate = 32000, !.hpf = TRUE]}
ShapeConfigs == BandConfigs \cup EchoConfigs
OtherRender == {R(16000, 1), R(48000, 2), R(44100, 1)}
=============================================================================
