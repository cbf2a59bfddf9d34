SPECIFICATION Spec
CONSTANTS
    Handles = {h1, h2}
    Streamers = {h1}
    NoHandle = NoHandle
    HwCtrls <- MCHwCtrls
    Flags <- MCFlags
    AlwaysNeedsConversion = TRUE
    DefaultGamma = 0
    SetValues <- MCSetValues
    MaxSets = 2
    GainRange <- MCGain
    ExposureRange <- MCExposure
    Luminance <- MCLuminance
    Scenes <- MCScenes
    MaxScenes = 1
    FramesInFlight = 2
PROPERTIES SettingsSurvive NoReactionToOldFrames TablesSettle
