---------------------------- MODULE MCProcessing ----------------------------
(* A camera whose tables ask for automatic gain and white balance, opened  *)
(* by two programs, in two lights.                                         *)
EXTENDS Processing

(* Brighter with more light, a longer exposure and more gain.              *)
MCLuminance(light, exposure, gain) == Min({255, light * (exposure * (gain + 1) + 5)})

MCGain     == [minimum |-> 0, maximum |-> 2, step |-> 1, default |-> 1]
MCExposure == [minimum |-> 0, maximum |-> 20, step |-> 1, default |-> 6]

MCScenes == {[light |-> 1, colours |-> <<1000, 1000, 1040>>],
             [light |-> 3, colours |-> <<900, 1000, 1800>>]}

(* The lens is covered for a moment.                                       *)
MCBlinking == {[light |-> 0, colours |-> <<512, 512, 512>>],
               [light |-> 3, colours |-> <<900, 1000, 1800>>]}

MCHwCtrls   == {"GAIN", "EXPOSURE", "HFLIP", "VFLIP"}
MCFlags     == {"WANTS_WB", "WANTS_AUTOGAIN"}
MCSetValues == [WHITEBALANCE |-> {0, 1}, GAMMA |-> {600, 5000},
                AUTOGAIN |-> {0, 1}]
=============================================================================
