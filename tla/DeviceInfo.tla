----------------------------- MODULE DeviceInfo -----------------------------
(***************************************************************************)
(* What v4l4j tells the program about a camera: the palettes libvideo      *)
(* finds (src/libvideo/v4l2-query.c), the lists of image formats a frame   *)
(* grabber can be created with (src/src/v4l4j_ImageFormatList.c,           *)
(* ImageFormatList.java), and their resolutions and frame intervals        *)
(* (ResolutionInfo.java, FrameInterval.java and their JNI files).          *)
(*                                                                         *)
(* A palette is a format libv4lconvert enumerates, with raw, the formats   *)
(* it is converted from, none if it is native, and discrete, its sizes     *)
(* with their intervals; its position is left out.                         *)
(***************************************************************************)
EXTENDS V4lPipeline, DeviceInputs

(* The formats of libv4lconvert that libvideo has no palette for.          *)
UnknownPalettes == {"SE401", "M420", "JPGL", "JL2005BCD", "Y10BPACK", "none"}
find_v4l2_palette(fmt) == fmt \notin UnknownPalettes

try_format(cam, fmt, size) == v4lconvert_try_format(cam, Format(fmt, size[1], size[2], 0))

(* The intervals of a stepwise kind whose ends coincide are a discrete one.*)
Reported(intv) ==
    IF intv.type = "stepwise" /\ Cardinality(intv.values) = 1
    THEN [intv EXCEPT !.type = "discrete"] ELSE intv

lookup_frame_intv(cam, fmt, size) == Reported(v4lconvert_enum_frameintervals(cam, fmt, size))

(* Mutant: every size gets the intervals of the first. *)
IntervalsOfFirstSize(cam, fmt) ==
    {[size |-> s, intv |-> lookup_frame_intv(cam, fmt, v4lconvert_enum_framesizes(cam, fmt)[1])] :
        s \in ToSet(v4lconvert_enum_framesizes(cam, fmt))}

lookup_frame_sizes(cam, fmt) ==
    {[size |-> s, intv |-> lookup_frame_intv(cam, fmt, s)] :
        s \in ToSet(v4lconvert_enum_framesizes(cam, fmt))}

(* Whether a format another one is converted from can itself be captured.  *)
add_raw_format(cam, fmt, size) == try_format(cam, fmt, size).dest.fmt = fmt

(* The formats fmt is converted from, at the camera's current size first,  *)
(* then at every other size it has.                                        *)
RawPalettes(cam, fmt, first) ==
    LET Converted(size) == LET try == try_format(cam, fmt, size)
                           IN  /\ v4lconvert_needs_conversion(cam, try.src, try.dest)
                               /\ add_raw_format(cam, try.src.fmt, size)
        sizes == {s \in ToSet(v4lconvert_enum_framesizes(cam, fmt)) : Converted(s)}
    IN  {first} \cup {try_format(cam, fmt, s).src.fmt : s \in sizes}

(* add_supported_palette: a converted format whose source cannot be        *)
(* captured counts as native, but its sizes are looked up for the source;  *)
(* a source libvideo does not know fails the query.                        *)
Found(ok, fmt, raw, discrete) == [ok |-> ok, index |-> fmt, raw |-> raw, discrete |-> discrete]

Palette(cam, fmt, size, try) ==
    LET sources == {try_format(cam, fmt, s).src.fmt :
                       s \in ToSet(v4lconvert_enum_framesizes(cam, fmt))}
    IN  IF ~v4lconvert_needs_conversion(cam, try.src, try.dest)
        THEN Found(TRUE, fmt, {}, lookup_frame_sizes(cam, fmt))
        ELSE IF ~find_v4l2_palette(try.src.fmt) THEN Found(FALSE, fmt, {}, {})
        ELSE IF ~add_raw_format(cam, try.src.fmt, size)
        THEN Found(TRUE, fmt, {}, lookup_frame_sizes(cam, try.src.fmt))
        ELSE Found(\A f \in sources : find_v4l2_palette(f), fmt,
                   RawPalettes(cam, fmt, try.src.fmt), {})

add_supported_palette(cam, fmt, size) == Palette(cam, fmt, size, try_format(cam, fmt, size))

check_palettes_v4l2(cam, size) ==
    {add_supported_palette(cam, fmt, size) :
        fmt \in {f \in v4lconvert_enum_fmt(cam) : find_v4l2_palette(f)}}

(* Whether all of it could be found out.                                   *)
query_device_v4l2(found, palettes) ==
    found.ok /\ \A p \in palettes : p.ok

-----------------------------------------------------------------------------
(* listFormats and the constructor of ImageFormatList.                     *)
JPEG_CONVERTIBLE_FORMATS == {"JPEG", "MJPEG", "YUV420", "YUYV", "YVYU", "UYVY",
                             "RGB24", "BGR24", "RGB32", "BGR32"}

(* Mutant: the format itself is offered even when it is only converted to. *)
OffersItself(palettes, fmt) ==
    UNION {{fmt} \cup p.raw : p \in {q \in palettes : q.index = fmt}}

(* The formats of the list for images of the format fmt.                   *)
EncodableFormats(palettes, fmt) ==
    UNION {IF p.raw = {} THEN {fmt} ELSE p.raw :
              p \in {q \in palettes : q.index = fmt}}

listFormats(palettes) ==
    [out \in {"RAW", "JPG", "RGB24", "BGR24", "YUV420", "YVU420"} |->
        CASE out = "RAW" -> {p.index : p \in {q \in palettes : q.raw = {}}}
          [] out = "JPG" -> {p.index : p \in palettes} \cap JPEG_CONVERTIBLE_FORMATS
          [] OTHER -> EncodableFormats(palettes, out)]

(* The resolutions of an image format, each with its frame intervals; none *)
(* if the palette has none, or was not found.  (A driver enumerates a      *)
(* format once.)                                                           *)
find_palette_info(palettes, fmt) == {p \in palettes : p.index = fmt}

ResolutionInfo(palettes, fmt) == UNION {p.discrete : p \in find_palette_info(palettes, fmt)}

(* The frame intervals a program may ask for.                              *)
StepwiseInterval(intv) == Min(intv.values) .. Max(intv.values)

FrameInterval(intv) ==
    IF intv.type = "stepwise" THEN StepwiseInterval(intv) ELSE intv.values

(* DeviceInfo.listIntervals, of any format and size.                       *)
listIntervals(cam, fmt, size) == FrameInterval(lookup_frame_intv(cam, fmt, size))

NoLists == [out \in {"RAW", "JPG", "RGB24", "BGR24", "YUV420", "YVU420"} |-> {}]
=============================================================================
