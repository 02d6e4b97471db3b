-------------------------- MODULE MCRuntimeSettings --------------------------
(* RuntimeSettings for TLC: three types of settings, one of them without   *)
(* its submodule, set in turn.                                             *)
EXTENDS RuntimeSettings

MCKinds == {"volume", "pre_gain", "post_gain"}
MCActive == {"volume", "pre_gain"}
MCKindOf == [s \in 1 .. MaxSettings |-> IF s % 3 = 0 THEN "post_gain"
                                        ELSE IF s % 3 = 1 THEN "volume"
                                        ELSE "pre_gain"]
=============================================================================
