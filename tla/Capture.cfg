CONSTANTS
    Cameras <- MCCameras
    Sizes <- MCSizes
    Intervals <- MCIntervals
    Standards = {"WEBCAM", "PAL", "NTSC"}
    Faults = {"reqbufs"}
SPECIFICATION Spec
INVARIANTS
    FramesAsPromised
    PipelineDelivers
    ChannelReported
    DeviceReusable
    ListsDescribeGrabber
PROPERTIES
    OfferedFormatsWork
    OfferedSizesDelivered
