------------------------------ MODULE MCWrapper ------------------------------
(* Wrapper for TLC. *)
EXTENDS Wrapper

F(in, in_ch, out, out_ch) == [input |-> Stream(in, in_ch),
                              output |-> Stream(out, out_ch)]

(* Native rates, a rate that is not native, and channels init() refuses. *)
AllInits == {F(16000, 1, 16000, 1), F(48000, 2, 16000, 1),
             F(44100, 1, 44100, 1), F(16000, 1, 16000, 2)}
OneInit == {F(48000, 2, 48000, 2)}
OneDelay == {40}
AllDelays == {-10, 900}
EchoSwitches == {"AEC", "ECM"}
MainSwitches == {"AEC", "ECM", "NS", "AGC"}
Native == {8000, 16000, 32000, 48000}
=============================================================================
