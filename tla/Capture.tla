------------------------------ MODULE Capture -------------------------------
(***************************************************************************)
(* How a frame grabber sets up a V4L2 camera and what its frames are:      *)
(* VideoDevice.get*FrameGrabber and AbstractGrabber.init, doInit and       *)
(* fillBuffer of src/src/v4l4j_FrameGrabber.c, and the capture interface   *)
(* of src/libvideo/v4l2-input.c over libv4lconvert.                        *)
(*                                                                         *)
(* The calls are made one at a time (FrameGrabber and VideoDevice have     *)
(* their threads); doInit is split into the calls it makes to libvideo, so *)
(* that the state each of them leaves behind when the next one fails is a  *)
(* state of the model.                                                     *)
(***************************************************************************)
EXTENDS DeviceInfo

CONSTANTS
    Cameras,   \* the cameras, see V4lConvert; here they also have enumstd, what
               \* VIDIOC_ENUMSTD says ("fails", "unknown" or "analog"), and
               \* inputs, tunerOf and tuners, see DeviceInputs
    Sizes,     \* the image sizes a program asks for
    Intervals, \* the frame intervals it asks for
    Standards, \* the standards it asks for, "WEBCAM" among them
    Faults     \* the driver calls that may fail: "reqbufs", "mmap"

(* VIDIOC_ENUMINPUT counts the inputs of a camera from 0.  That a sensor   *)
(* is mounted sideways is one of libv4lcontrol's flags.  A driver has a    *)
(* pixel format, and a size for each.                                      *)
ASSUME CamerasAssumption ==
    \A c \in Cameras : /\ IsFiniteSet(DOMAIN c.inputs)
                       /\ DOMAIN c.inputs = 0 .. Cardinality(DOMAIN c.inputs) - 1
                       /\ {c.uvc, c.others, c.flags, c.rotated, c.wraps} \subseteq BOOLEAN
                       /\ c.bandwidth \in Nat
                       /\ c.rotated => c.flags
ASSUME FormatsAssumption ==
    \A c \in Cameras : /\ c.formats \in Seq(STRING) \ {<<>>} /\ ~Contains(c.formats, "none")
                       /\ DOMAIN c.sizes = ToSet(c.formats)
                       /\ \A f \in DOMAIN c.sizes : c.sizes[f] \in Seq(Nat \X Nat) \ {<<>>}
ASSUME SizesAssumption == Sizes \subseteq Nat \X Nat
ASSUME FaultsAssumption == Faults \subseteq {"reqbufs", "mmap"}
ASSUME StandardsAssumption == Standards \subseteq {"WEBCAM", "PAL", "SECAM", "NTSC"}

VARIABLES
    cam,       \* the camera
    driver,    \* the driver: format, interval, standard, input, the frequency of each
               \* tuner, whether it has buffers
    inputs,    \* DeviceInfo: the InputInfo of each input
    lists,     \* ImageFormatList: the formats for each kind of grabber
    info,      \* the ResolutionInfo of each of them
    stage,     \* how far doInit has come: "closed", "created", "set", "mapped"
               \* (between its calls), "ready" (a grabber), "streaming"
    capture,   \* struct capture_device
    dev,       \* struct v4l4j_device: output_fmt, in_fmt, need_conv, the buffers
               \* of the converters and the size of the Java buffers
    format,    \* the format field of the grabber
    frame,     \* the last frame delivered since capture was started
    exception  \* what the last call threw

vars == <<cam, driver, inputs, lists, info, stage, capture, dev, format, frame, exception>>

MAX_WIDTH == 0
V4L2_MAX_WIDTH == 4096

NoCapture == [width |-> 0, height |-> 0, channel |-> 0, std |-> "none",
              palette |-> "none", src_palette |-> "none", src_fmt |-> NoFormat,
              dst_fmt |-> NoFormat, needs_conversion |-> FALSE, is_native |-> FALSE,
              imagesize |-> 0]
NoFrame == [fmt |-> "none", w |-> 0, h |-> 0, len |-> 0, native |-> FALSE]
NoDev == [output_fmt |-> "none", in_fmt |-> "none", need_conv |-> FALSE, jpeg |-> FALSE,
          double |-> 0, buffer |-> 0]

NoInfo == [fmt \in {} |-> {}]

(* A driver whose format is set starts with the shortest interval.         *)
DefaultInterval(c, fmt, size) == Max({0} \cup DriverIntervals(c, fmt, size).values)

Init ==
    /\ cam \in Cameras
    /\ \E f \in ToSet(cam.formats) : \E s \in ToSet(cam.sizes[f]), i \in DOMAIN cam.inputs :
          \E std \in cam.inputs[i] :
             driver = [fmt |-> Format(f, s[1], s[2], DriverImage(f, s[1], s[2])),
                       intv |-> DefaultInterval(cam, f, s), std |-> std, input |-> i, buffers |-> FALSE,
                       freq |-> [t \in DOMAIN cam.tuners |-> 0]]
    /\ inputs = <<>> /\ lists = NoLists /\ info = NoInfo
    /\ stage = "closed"
    /\ capture = NoCapture
    /\ dev = NoDev
    /\ format = "none"
    /\ frame = NoFrame
    /\ exception = "none"

-----------------------------------------------------------------------------
(* VideoDevice.initDeviceInfo: what libvideo finds out about the inputs,   *)
(* then about the palettes, once per device; nothing if a part fails.      *)
GetDeviceInfo ==
    /\ stage = "closed" /\ lists = NoLists
    /\ \E found \in {check_inputs_v4l2(cam)} :
       \E palettes \in {IF found.ok THEN check_palettes_v4l2(cam, <<driver.fmt.w, driver.fmt.h>>)
                        ELSE {}} :
          \/ /\ query_device_v4l2(found, palettes)
             /\ inputs' = create_inputs_object(found.inputs)
             /\ lists' = listFormats(palettes)
             /\ info' = [fmt \in UNION Range(listFormats(palettes)) |->
                            ResolutionInfo(palettes, fmt)]
             /\ exception' = "none"
          \/ /\ ~query_device_v4l2(found, palettes) /\ exception' = "V4L4JException"
             /\ UNCHANGED <<inputs, lists, info>>
    /\ UNCHANGED <<cam, driver, stage, capture, dev, format, frame>>

(* Tuner.setFrequency of a tuner of the list; a streaming driver may       *)
(* refuse.                                                                 *)
SetTunerFrequency(t, f) ==
    /\ stage \in {"closed", "ready", "streaming"}
    /\ \/ /\ driver' = [driver EXCEPT !.freq = set_tuner_freq_v4l2(cam, @, t.index, f)]
          /\ exception' = "none"
       \/ /\ stage = "streaming" /\ exception' = "V4L4JException"
          /\ UNCHANGED driver
    /\ UNCHANGED <<cam, inputs, lists, info, stage, capture, dev, format, frame>>

ListedSizes(fmt) == {r.size : r \in info[fmt]}

(* get*FrameGrabber of a format of the list, init_capture_device and       *)
(* init_capture_format.  JPEG and raw grabbers leave the source to         *)
(* libv4lconvert.                                                          *)
DestFormat == IF dev.output_fmt \in {"JPG", "RAW"} THEN dev.in_fmt ELSE dev.output_fmt
SrcFormat  == IF dev.output_fmt \in {"JPG", "RAW"} THEN "none" ELSE dev.in_fmt

GetFrameGrabber(out, imf, size, ch, std) ==
    /\ stage = "closed" /\ imf \in lists[out]
    /\ stage' = "created"
    /\ capture' = [NoCapture EXCEPT !.width = size[1], !.height = size[2],
                                    !.channel = ch, !.std = std]
    /\ dev' = [dev EXCEPT !.output_fmt = out, !.in_fmt = imf, !.need_conv = (out = "JPG")]
    /\ format' = imf
    /\ exception' = "none"
    /\ frame' = NoFrame
    /\ UNCHANGED <<cam, driver, inputs, lists, info>>

-----------------------------------------------------------------------------
(* The driver's ioctls.  A std is accepted if the current input has it; an *)
(* input that does not have the current one takes one of its own.          *)
try_std(d, std) == IF std \in cam.inputs[d.input] THEN [d EXCEPT !.std = std] ELSE d
StdAccepted(d, std) == std \in cam.inputs[d.input]

SetInput(d, ch) ==
    [d EXCEPT !.input = ch,
              !.std = IF @ \in cam.inputs[ch] THEN @ ELSE CHOOSE s \in cam.inputs[ch] : TRUE]

(* detect_standard tries the standards in this order; PAL is accepted      *)
(* without being noted in c->std.                                          *)
detect_standard(c, d) ==
    LET order == <<"WEBCAM", "PAL", "NTSC", "SECAM">>
        i     == SelectInSeq(order, LAMBDA s : StdAccepted(d, s))
    IN  IF i = 0 THEN [ok |-> FALSE, c |-> c, d |-> d]
        ELSE [ok |-> TRUE, d |-> try_std(d, order[i]),
              c |-> IF order[i] = "PAL" THEN c ELSE [c EXCEPT !.std = order[i]]]

set_std(c, d) ==
    IF cam.enumstd = "fails" THEN [ok |-> TRUE, c |-> [c EXCEPT !.std = "WEBCAM"], d |-> d]
    ELSE IF c.std = "WEBCAM" /\ cam.enumstd = "unknown" THEN [ok |-> TRUE, c |-> c, d |-> d]
    ELSE IF c.std # "WEBCAM" /\ StdAccepted(d, c.std)
         THEN [ok |-> TRUE, c |-> c, d |-> try_std(d, c.std)]
    ELSE detect_standard(c, d)

(* Mutant: channel 0 is taken for the default and not set. *)
SetInputUnlessFirst(c, d) ==
    IF c.std = "WEBCAM" \/ c.channel = 0 THEN [ok |-> TRUE, d |-> d]
    ELSE IF c.channel \in DOMAIN cam.inputs THEN [ok |-> TRUE, d |-> SetInput(d, c.channel)]
    ELSE [ok |-> FALSE, d |-> d]

(* set_input leaves the input of a webcam alone.                           *)
set_input(c, d) ==
    IF c.std = "WEBCAM" THEN [ok |-> TRUE, d |-> d]
    ELSE IF c.channel \in DOMAIN cam.inputs THEN [ok |-> TRUE, d |-> SetInput(d, c.channel)]
    ELSE [ok |-> FALSE, d |-> d]

-----------------------------------------------------------------------------
(* try_image_format: the source palette for an output palette, "none" for  *)
(* -1; src and dst are set in any case.                                    *)
TriedPalette(try, palette) ==
    IF try.dest.fmt = palette /\ find_v4l2_palette(try.src.fmt) THEN try.src.fmt ELSE "none"

try_image_format(c, palette) ==
    v4lconvert_try_format(cam, Format(palette, c.width, c.height, 0))

(* apply_image_format: S_FMT, refused while the driver has buffers.        *)
apply_image_format(f) == DriverTryFmt(cam, f.fmt, f.w, f.h)

(* set_image_format: the native palette asked for overrides the choice of  *)
(* libv4lconvert; a source libv4lconvert would not give to a program makes *)
(* the output palette "native".                                            *)
Sized(c) == [c EXCEPT !.width = IF @ = MAX_WIDTH THEN V4L2_MAX_WIDTH ELSE @,
                      !.height = IF @ = MAX_WIDTH THEN V4L2_MAX_WIDTH ELSE @]

Source(try, native, output) ==
    IF native # "none" /\ TriedPalette(try, output) # native
    THEN [try.src EXCEPT !.fmt = native] ELSE try.src

force_native_fmt(want) == v4lconvert_try_format(cam, want).dest.fmt # want.fmt

WithFormat(c, try, src, palette, output, forced) ==
    LET needs == v4lconvert_needs_conversion(cam, src, try.dest)
    IN  [c EXCEPT !.palette = output, !.src_fmt = src, !.dst_fmt = try.dest,
                  !.src_palette = palette, !.needs_conversion = needs,
                  !.is_native = forced \/ ~needs,
                  !.width = try.dest.w, !.height = try.dest.h,
                  !.imagesize = IF needs THEN try.dest.image ELSE src.image]

(* S_FMT gives the driver's own format if it does not have the wanted one. *)
SetFormat(c, d, try, want, native, output) ==
    LET src     == apply_image_format(want)
        palette == IF native # "none" THEN native ELSE TriedPalette(try, output)
    IN  IF d.buffers THEN [ok |-> FALSE, c |-> c, d |-> d]
        ELSE [ok |-> src.fmt = want.fmt,
              d  |-> [d EXCEPT !.fmt = src,
                               !.intv = DefaultInterval(cam, src.fmt, <<src.w, src.h>>)],
              c  |-> WithFormat(c, try, src, palette, output, force_native_fmt(want))]

set_image_format(c, d, native, output) ==
    LET from(try) == SetFormat(Sized(c), d, try, Source(try, native, output), native, output)
    IN  from(try_image_format(Sized(c), output))

(* The grabber is gone; jpeg and double, what is left of its converters.   *)
Close(jpeg, double) ==
    /\ stage' = "closed"
    /\ capture' = NoCapture
    /\ dev' = [NoDev EXCEPT !.jpeg = jpeg, !.double = double]
    /\ format' = "none" /\ frame' = NoFrame
    /\ UNCHANGED <<cam, inputs, lists, info>>

(* A failed doInit: free_capture_device, and the exception.                *)
Fail(d, e) == driver' = d /\ exception' = e /\ Close(dev.jpeg, dev.double)

(* set_cap_param, and what doInit makes of its errors: it expects another  *)
(* code for a bad channel than the one it gets.                            *)
SetCapParam ==
    /\ stage = "created"
    /\ \E s \in {set_std(capture, driver)} : \E i \in {set_input(s.c, s.d)} :
       \E f \in {set_image_format(s.c, i.d, SrcFormat, DestFormat)} :
          \/ ~s.ok /\ Fail(s.d, "VideoStandardException")
          \/ s.ok /\ ~i.ok /\ Fail(i.d, "V4L4JException")
          \/ s.ok /\ i.ok /\ ~f.ok /\ Fail(f.d, "ImageFormatException")
          \/ /\ s.ok /\ i.ok /\ f.ok
             /\ capture' = f.c
             /\ driver' = f.d
             /\ stage' = "set"
             /\ UNCHANGED <<cam, inputs, lists, info, dev, format, frame, exception>>

(* init_capture: REQBUFS, then QUERYBUF and mmap of each buffer.           *)
InitCapture ==
    /\ stage = "set"
    /\ driver' = [driver EXCEPT !.buffers = TRUE]
    /\ stage' = "mapped"
    /\ UNCHANGED <<cam, inputs, lists, info, capture, dev, format, frame, exception>>

(* Mutant: the buffers stay when REQBUFS granted too few. *)
ReqbufsFailsLate ==
    /\ stage = "set"
    /\ \E fault \in Faults : Fail([driver EXCEPT !.buffers = TRUE], "V4L4JException")

(* Neither failure releases the driver's buffers: free_capture_device      *)
(* does not call free_capture.                                             *)
InitCaptureFails ==
    /\ stage = "set"
    /\ \E fault \in Faults :
          Fail([driver EXCEPT !.buffers = (fault = "mmap")], "V4L4JException")

(* init_jpeg_compressor fails on a palette it cannot compress.             *)
JpegFails == dev.output_fmt = "JPG" /\ capture.palette \notin JPEG_CONVERTIBLE_FORMATS

(* Mutant: the buffer has the size of the source image. *)
BufferOfTheSource == capture.src_fmt.image

get_buffer_length ==
    CASE dev.output_fmt \in {"RAW", "JPG"} -> capture.imagesize
      [] OTHER -> Needed(dev.output_fmt, capture.width, capture.height)

(* A JPEG grabber converts into a buffer of its own before it compresses.  *)
NeedsDoubleBuffer == dev.need_conv /\ ~capture.is_native

(* update_width_height: the format the grabber reports.                    *)
ReportedFormat ==
    IF dev.output_fmt = "RAW" THEN format
    ELSE IF capture.is_native THEN capture.palette ELSE capture.src_palette

(* init_format_converter, update_width_height, getBufferSize               *)
InitFormatConverter ==
    /\ stage = "mapped"
    /\ LET double == IF NeedsDoubleBuffer THEN capture.imagesize ELSE dev.double
       IN  IF JpegFails
           THEN /\ driver' = [driver EXCEPT !.buffers = FALSE]
                /\ exception' = "V4L4JException"
                /\ Close(FALSE, double)
           ELSE /\ dev' = [dev EXCEPT !.jpeg = dev.need_conv, !.double = double,
                                      !.buffer = get_buffer_length]
                /\ stage' = "ready"
                /\ format' = ReportedFormat
                /\ UNCHANGED <<cam, driver, inputs, lists, info, capture, frame, exception>>

-----------------------------------------------------------------------------
StartCapture ==
    /\ stage = "ready" /\ stage' = "streaming"
    /\ exception' = "none"
    /\ UNCHANGED <<cam, driver, inputs, lists, info, capture, dev, format, frame>>

StopCapture ==
    /\ stage = "streaming" /\ stage' = "ready"
    /\ frame' = NoFrame /\ exception' = "none"
    /\ UNCHANGED <<cam, driver, inputs, lists, info, capture, dev, format>>

(* The software controls a camera can have set.                            *)
Settings == IF v4lcontrol_needs_conversion(cam)
            THEN [hflip : BOOLEAN, vflip : BOOLEAN, processing : BOOLEAN]
            ELSE [hflip : {FALSE}, vflip : {FALSE}, processing : {FALSE}]

(* fillBuffer: a native frame is copied, any other is converted; a JPEG    *)
(* grabber compresses the result, whatever it is, as a palette image.      *)
fillBuffer(set) ==
    LET conv  == v4lconvert_convert(cam, capture.src_fmt, capture.dst_fmt, set)
        image == IF capture.is_native THEN Captured(cam, capture.src_fmt) ELSE conv.image
        len   == IF capture.is_native THEN capture.src_fmt.image
                 ELSE IF conv.ok THEN Needed(capture.dst_fmt.fmt, image.w, image.h) ELSE -1
    IN  [fmt |-> IF ~dev.need_conv THEN image.fmt
                 ELSE IF image.fmt = capture.palette THEN "JPEG" ELSE "garbage",
         w |-> image.w, h |-> image.h, len |-> len, native |-> capture.is_native]

DeliverFrame ==
    /\ stage = "streaming"
    /\ \E set \in Settings : frame' = fillBuffer(set)
    /\ exception' = "none"
    /\ UNCHANGED <<cam, driver, inputs, lists, info, stage, capture, dev, format>>

(* set_video_input_std: first the input, then the standard; the input is   *)
(* kept if the standard is refused.  Allowed at any time, a streaming      *)
(* driver may refuse.                                                      *)
SetVideoInputNStandard(ch, std) ==
    /\ stage \in {"ready", "streaming"}
    /\ \E accepted \in IF stage = "streaming" THEN BOOLEAN ELSE {TRUE} :
          LET input == accepted /\ ch \in DOMAIN cam.inputs
              d     == SetInput(driver, ch)
              ok    == input /\ StdAccepted(d, std)
          IN  /\ driver' = IF ~input THEN driver ELSE try_std(d, std)
              /\ capture' = [capture EXCEPT !.channel = IF input THEN ch ELSE @,
                                            !.std = IF ok THEN std ELSE @]
              /\ exception' = IF ~input THEN "CaptureChannelException"
                              ELSE IF ~ok THEN "VideoStandardException" ELSE "none"
    /\ UNCHANGED <<cam, inputs, lists, info, stage, dev, format, frame>>

(* S_PARM takes the nearest interval the driver has for its format; any    *)
(* other than the one asked for is refused, but stays set.                 *)
DriverHas(d) == FrameInterval(DriverIntervals(cam, d.fmt.fmt, <<d.fmt.w, d.fmt.h>>))
Nearest(values, n) == CHOOSE m \in values : \A k \in values : Square(m - n) <= Square(k - n)

set_frame_intv(d, n) ==
    IF DriverHas(d) = {} THEN [ok |-> FALSE, d |-> d]
    ELSE [ok |-> Nearest(DriverHas(d), n) = n,
          d  |-> [d EXCEPT !.intv = Nearest(DriverHas(d), n)]]

SetFrameInterval(n) ==
    /\ \/ /\ stage = "ready"
          /\ driver' = set_frame_intv(driver, n).d
          /\ exception' = IF set_frame_intv(driver, n).ok THEN "none" ELSE "InvalidValueException"
       \/ /\ stage = "streaming"
          /\ exception' = "StateException"
          /\ UNCHANGED driver
    /\ UNCHANGED <<cam, inputs, lists, info, stage, capture, dev, format, frame>>

(* doRelease: release_format_converter, free_capture, free_capture_device. *)
release_format_converter == IF NeedsDoubleBuffer THEN 0 ELSE dev.double

ReleaseFrameGrabber ==
    /\ stage = "ready"
    /\ driver' = [driver EXCEPT !.buffers = FALSE]
    /\ exception' = "none"
    /\ Close(FALSE, release_format_converter)

Next ==
    \/ GetDeviceInfo
    \/ \E t \in TunerList(inputs) : SetTunerFrequency(t, t.rangeHigh + 1)
    \/ \E out \in DOMAIN lists : \E imf \in lists[out] : \E size \in Sizes \cup ListedSizes(imf),
          std \in Standards, ch \in DOMAIN cam.inputs \cup {Cardinality(DOMAIN cam.inputs)} :
          GetFrameGrabber(out, imf, size, ch, std)
    \/ SetCapParam
    \/ InitCapture \/ InitCaptureFails
    \/ InitFormatConverter
    \/ StartCapture \/ DeliverFrame \/ StopCapture
    \/ \E ch \in DOMAIN cam.inputs \cup {Cardinality(DOMAIN cam.inputs)}, std \in Standards :
          SetVideoInputNStandard(ch, std)
    \/ \E n \in Intervals : SetFrameInterval(n)
    \/ ReleaseFrameGrabber

Spec == Init /\ [][Next]_vars
-----------------------------------------------------------------------------
(* Properties                                                              *)

SetUp == stage \in {"ready", "streaming"}

(* The format of the images of this kind of grabber.                       *)
Promised == CASE dev.output_fmt = "JPG" -> "JPEG"
              [] dev.output_fmt = "RAW" -> dev.in_fmt
              [] OTHER -> dev.output_fmt

(* A camera with a format that libv4lconvert knows.  (For one without, the *)
(* lists hold four formats nothing converts to: see README.)               *)
Convertible == SupportedSrc(cam) # {}

(* libv4lconvert asks every driver but uvcvideo whether it has the formats *)
(* of its mask; of a UVC camera it must have them right.                   *)
Unmistaken(c) == c.uvc => SupportedSrc(c) = ToSet(c.formats) \cap SrcFormats

(* Every frame a program gets is an image of the format the grabber was    *)
(* created for, has the width and height the grabber reports and fits in   *)
(* its buffer, whatever the camera, the size asked for, the standard and   *)
(* the software controls set meanwhile: try_image_format, the S_FMT of the *)
(* driver, init_capture_format and fillBuffer agree on it.  (Frames that   *)
(* should have been converted are the subject of FramesConverted.)         *)
FramesAsPromised ==
    (/\ stage = "streaming" /\ frame # NoFrame /\ Convertible
     /\ ~(frame.native /\ capture.needs_conversion))
        => /\ frame.fmt = Promised
           /\ frame.w = capture.width /\ frame.h = capture.height
           /\ frame.len \in 0 .. IF NeedsDoubleBuffer THEN dev.double ELSE dev.buffer

(* v4lconvert_convert turns whatever set_image_format chose as the source  *)
(* into the image it chose as the destination, whichever buffers the frame *)
(* takes its way through: processed exactly once, turned if the sensor is  *)
(* mounted sideways, mirrored as the controls say.                         *)
PipelineDelivers ==
    (SetUp /\ capture.needs_conversion /\ v4lconvert_supported_dst_format(capture.dst_fmt.fmt))
        => \A set \in Settings :
              LET c == v4lconvert_convert(cam, capture.src_fmt, capture.dst_fmt, set)
              IN  c.ok /\ c.image = [fmt |-> capture.dst_fmt.fmt, w |-> capture.width,
                                     h |-> capture.height,
                                     processed |-> IF set.processing THEN 1 ELSE 0,
                                     rotated |-> cam.rotated,
                                     hflip |-> set.hflip, vflip |-> set.vflip]

(* A format from the device's own lists does not fail for its format: what *)
(* check_palettes_v4l2 found out with TRY_FMT, set_image_format can set.   *)
(* (Cameras libv4lconvert always converts for are left out, and so are the *)
(* UVC cameras whose formats its mask confuses: see README.)               *)
OfferedFormatsWork ==
    [][(/\ stage = "created" /\ ~driver.buffers
        /\ ~v4lcontrol_needs_conversion(cam) /\ Convertible /\ Unmistaken(cam))
          => exception' # "ImageFormatException"]_vars

(* A resolution the device lists for a format comes out exactly as asked   *)
(* for: the roundings of v4lconvert_enum_framesizes and of the two rounds  *)
(* of v4lconvert_try_format agree.  (Resolutions of a native format that   *)
(* are no multiples of 8 by 2 are rounded when they are converted.)        *)
OfferedSizesDelivered ==
    [][LET size == <<capture.width, capture.height>>
       IN  (/\ stage = "created" /\ stage' = "set" /\ size \in ListedSizes(dev.in_fmt)
            /\ dev.output_fmt \in {"RAW", "JPG"} \/ size = Rounded(size))
              => <<capture'.width, capture'.height>> = size]_vars

(* The lists still describe the camera once set_image_format has chosen:   *)
(* setFrameInterval() does not refuse an interval the device lists for the *)
(* format and the resolution of the grabber, be it in ResolutionInfo or by *)
(* listIntervals, although the driver captures in another format, perhaps  *)
(* of another size; and the format a grabber says it captures in is one a  *)
(* program may also ask for.                                               *)
ListsDescribeGrabber ==
    /\ stage = "ready" =>
          LET size   == <<capture.width, capture.height>>
              listed == UNION {FrameInterval(r.intv) :
                                  r \in {q \in info[dev.in_fmt] : q.size = size}}
          IN  \A n \in listed \cup listIntervals(cam, dev.in_fmt, size) :
                 set_frame_intv(driver, n).ok
    /\ (SetUp /\ Convertible) => \E out \in DOMAIN lists : format \in lists[out]

(* set_input switches the input only for a grabber whose standard is not   *)
(* "WEBCAM".  Webcams have that standard; a grabber asked for with         *)
(* "WEBCAM" on a capture card keeps it too, even after detect_standard set *)
(* PAL, and reports its channel while the driver stays on its input.       *)
Switched == capture.std # "WEBCAM"

(* The channel reported by a grabber whose standard is not "WEBCAM" is the *)
(* input the driver is switched to, after doInit and after any sequence of *)
(* setVideoInputNStandard, refused and half refused ones included; and the *)
(* tuner found for it is that input's: the frequency read from it is the   *)
(* one the camera receives, or the end of the listed range next to it.     *)
ChannelReported ==
    (SetUp /\ Switched)
        => /\ capture.channel = driver.input
           /\ IF driver.input \notin DOMAIN cam.tunerOf THEN findTuner(inputs, capture.channel) = NoTuner
              ELSE LET t    == findTuner(inputs, capture.channel)[1]
                       read == getFrequency(cam, driver.freq, t)
                       real == driver.freq[cam.tunerOf[driver.input]]
                   IN  read = Clip(t.rangeLow, t.rangeHigh, real)

(* Once the grabber is gone, after whichever call it failed, the driver    *)
(* has no buffers left, so that another grabber can set its format.        *)
DeviceReusable ==
    stage = "closed" => ~driver.buffers /\ ~dev.jpeg /\ dev.double = 0

(* "needs_conversion [...] specifies whether or not captured frames needs  *)
(* to be passed to libv4lconvert after being captured" (libvideo.h): a     *)
(* frame delivered without it did not need to.                             *)
FramesConverted ==
    (stage = "streaming" /\ frame # NoFrame /\ capture.needs_conversion) => ~frame.native
=============================================================================
