--------------------------- MODULE Capture_proofs ---------------------------
(***************************************************************************)
(* Proofs about Capture, for any cameras, sizes and standards: whichever   *)
(* call of a frame grabber's set-up fails, nothing of it is left behind;   *)
(* the channel a grabber reports is the input the driver is switched to,   *)
(* and the tuner found for it is that input's; a frame comes out of        *)
(* libv4lconvert, and of fillBuffer, as the image the grabber was          *)
(* promised; and a format of the device's lists can be set.  The first two *)
(* use neither the choice of formats nor the conversion.                   *)
(***************************************************************************)
EXTENDS Capture, FiniteSetTheorems, SequenceTheorems, WellFoundedInduction, TLAPS

(* The fields of the three structs: no call adds or removes any.           *)
DriverFields  == {"fmt", "intv", "std", "input", "buffers", "freq"}
CaptureFields == {"width", "height", "channel", "std", "palette", "src_palette", "src_fmt",
                  "dst_fmt", "needs_conversion", "is_native", "imagesize"}
DevFields     == {"output_fmt", "in_fmt", "need_conv", "jpeg", "double", "buffer"}

IsDriver(d)  == d = [f \in DriverFields |-> d[f]]
IsCapture(c) == c = [f \in CaptureFields |-> c[f]]
IsDev(v)     == v = [f \in DevFields |-> v[f]]

Structs == IsDriver(driver) /\ IsCapture(capture) /\ IsDev(dev)

(* e is d with other settings, but the same buffers and the same input,    *)
(* and the same format.                                                    *)
Kept(e, d)  == IsDriver(e) /\ e.buffers = d.buffers /\ e.input = d.input
Alike(e, d) == Kept(e, d) /\ e.fmt = d.fmt

(* What an ioctl that sets one thing leaves alone.                         *)
LEMMA DriverSet ==
  ASSUME NEW d, IsDriver(d), NEW x
  PROVE  /\ Alike([d EXCEPT !.freq = x], d)
         /\ Alike([d EXCEPT !.std = x], d)
         /\ Alike([d EXCEPT !.intv = x], d)
         /\ IsDriver([d EXCEPT !.buffers = x]) /\ [d EXCEPT !.buffers = x].buffers = x
         /\ [d EXCEPT !.buffers = x].input = d.input /\ [d EXCEPT !.buffers = x].fmt = d.fmt
BY DEF IsDriver, DriverFields, Alike, Kept

(* Setting the format also sets an interval.                               *)
LEMMA FormatSet ==
  ASSUME NEW d, IsDriver(d), NEW x, NEW y
  PROVE  LET e == [d EXCEPT !.fmt = x, !.intv = y]
         IN  Kept(e, d) /\ e.fmt = x
BY DEF IsDriver, DriverFields, Alike, Kept

-----------------------------------------------------------------------------
(* The calls of set_cap_param leave the driver's buffers alone.            *)
LEMMA StdSet ==
  ASSUME NEW d, IsDriver(d), NEW std
  PROVE  Alike(try_std(d, std), d)
BY DriverSet DEF try_std, Alike, Kept

(* set_std may settle for another standard than the one asked for.         *)
LEMMA StdNegotiated ==
  ASSUME NEW d, IsDriver(d), NEW c, IsCapture(c)
  PROVE  LET s == set_std(c, d)
         IN  /\ IsCapture(s.c) /\ s.c.channel = c.channel
             /\ s.c.width = c.width /\ s.c.height = c.height
             /\ Alike(s.d, d)
<1>1. Alike(d, d)
  BY DEF Alike, Kept
<1>2. \A x : LET e == [c EXCEPT !.std = x]
            IN  /\ IsCapture(e) /\ e.channel = c.channel
                /\ e.width = c.width /\ e.height = c.height
  BY DEF IsCapture, CaptureFields
<1>3. LET s == detect_standard(c, d)
      IN  /\ IsCapture(s.c) /\ s.c.channel = c.channel
          /\ s.c.width = c.width /\ s.c.height = c.height
          /\ Alike(s.d, d)
  BY <1>1, <1>2, StdSet DEF detect_standard
<1> QED BY <1>1, <1>2, <1>3, StdSet DEF set_std

(* Switching the input may also switch the standard.                       *)
LEMMA InputSet ==
  ASSUME NEW d, IsDriver(d), NEW ch
  PROVE  /\ IsDriver(SetInput(d, ch)) /\ SetInput(d, ch).buffers = d.buffers
         /\ SetInput(d, ch).input = ch /\ SetInput(d, ch).fmt = d.fmt
<1>1. ASSUME NEW y
      PROVE  LET e == [d EXCEPT !.input = ch, !.std = y]
             IN  IsDriver(e) /\ e.buffers = d.buffers /\ e.input = ch /\ e.fmt = d.fmt
  BY DEF IsDriver, DriverFields
<1> QED BY <1>1, Zenon DEF SetInput

(* A set_input that does not fail has switched to the channel, unless the  *)
(* camera is a webcam.                                                     *)
LEMMA InputSwitched ==
  ASSUME NEW d, IsDriver(d), NEW c
  PROVE  LET i == set_input(c, d)
         IN  /\ IsDriver(i.d) /\ i.d.buffers = d.buffers /\ i.d.fmt = d.fmt
             /\ i.ok /\ c.std # "WEBCAM" => i.d.input = c.channel
             /\ i.d.input \in DOMAIN cam.inputs \cup {d.input}
BY InputSet DEF set_input

(* set_image_format keeps the channel, and chooses the palette asked for.  *)
LEMMA FormatNegotiated ==
  ASSUME NEW d, IsDriver(d), NEW c, IsCapture(c), NEW native, NEW output
  PROVE  LET f == set_image_format(c, d, native, output)
         IN  /\ IsCapture(f.c) /\ f.c.channel = c.channel /\ f.c.std = c.std
             /\ Kept(f.d, d)
             /\ f.ok => f.c.palette = output
<1>1. /\ IsCapture(Sized(c)) /\ Sized(c).channel = c.channel /\ Sized(c).std = c.std
  BY DEF IsCapture, CaptureFields, Sized
<1>2. ASSUME NEW b, IsCapture(b), NEW try, NEW src, NEW palette, NEW forced
      PROVE  LET e == WithFormat(b, try, src, palette, output, forced)
             IN  IsCapture(e) /\ e.channel = b.channel /\ e.std = b.std /\ e.palette = output
  BY <1>2 DEF IsCapture, CaptureFields, WithFormat
<1>3. ASSUME NEW try, NEW want
      PROVE  LET f == SetFormat(Sized(c), d, try, want, native, output)
             IN  /\ IsCapture(f.c) /\ f.c.channel = c.channel /\ f.c.std = c.std
                 /\ Kept(f.d, d)
                 /\ f.ok => f.c.palette = output
  <2> DEFINE src == apply_image_format(want)
             palette == IF native # "none" THEN native ELSE TriedPalette(try, output)
             e == [d EXCEPT !.fmt = src,
                            !.intv = DefaultInterval(cam, src.fmt, <<src.w, src.h>>)]
             b == WithFormat(Sized(c), try, src, palette, output, force_native_fmt(want))
             f == SetFormat(Sized(c), d, try, want, native, output)
  <2>1. Kept(e, d) /\ Kept(d, d)
    <3>1. Kept(e, d)
      BY FormatSet
    <3> QED BY <3>1 DEF Kept
  <2>2. IsCapture(b) /\ b.channel = c.channel /\ b.std = c.std /\ b.palette = output
    BY <1>1, <1>2
  <2>3. f = IF d.buffers THEN [ok |-> FALSE, c |-> Sized(c), d |-> d]
            ELSE [ok |-> src.fmt = want.fmt, d |-> e, c |-> b]
    BY DEF SetFormat
  <2> HIDE DEF src, palette, e, b, f
  <2>4. CASE d.buffers
    BY <1>1, <2>1, <2>3, <2>4 DEF f
  <2>5. CASE ~d.buffers
    BY <2>1, <2>2, <2>3, <2>5 DEF f
  <2> QED BY <2>4, <2>5
<1> QED BY <1>3 DEF set_image_format

-----------------------------------------------------------------------------
(* Where a JPEG grabber comes from, and the palette set_cap_param chose.   *)
Compressible ==
  /\ lists["JPG"] \subseteq JPEG_CONVERTIBLE_FORMATS
  /\ stage # "closed" /\ dev.output_fmt = "JPG" => dev.in_fmt \in JPEG_CONVERTIBLE_FORMATS
  /\ stage \notin {"closed", "created"} => capture.palette = DestFormat

(* The driver has no buffers, unless an mmap has failed.                   *)
Unbuffered(d) == "mmap" \notin Faults => d.buffers = FALSE

(* What is allocated at which stage.                                       *)
Allocated ==
  /\ stage \in {"closed", "created", "set", "mapped", "ready", "streaming"}
  /\ stage \in {"closed", "created", "set"} => Unbuffered(driver)
  /\ ~SetUp => dev.jpeg = FALSE /\ dev.double = 0
  /\ SetUp => dev.double = 0 \/ NeedsDoubleBuffer

(* The channel is the input the driver is switched to.                     *)
ChannelIsInput ==
  stage \notin {"closed", "created"} /\ capture.std # "WEBCAM" => capture.channel = driver.input

(* The inductive invariant.                                                *)
RInv == Structs /\ Compressible /\ Allocated /\ ChannelIsInput

(* It holds of a device nobody has used yet.                               *)
LEMMA RInvInit == Init => RInv
<1> SUFFICES ASSUME Init PROVE RInv
  OBVIOUS
<1>1. PICK f, intv, std, i, freq :
        driver = [fmt |-> f, intv |-> intv, std |-> std, input |-> i, buffers |-> FALSE,
             freq |-> freq]
  BY Zenon DEF Init
<1>2. IsDriver(driver) /\ driver.buffers = FALSE
  BY <1>1 DEF IsDriver, DriverFields
<1>3. stage = "closed" /\ capture = NoCapture /\ dev = NoDev /\ lists = NoLists
  BY DEF Init
<1> QED BY <1>2, <1>3 DEF RInv, Structs, IsCapture, CaptureFields, IsDev, DevFields, NoCapture,
     NoDev, NoLists, Compressible, Allocated, Unbuffered, ChannelIsInput, SetUp

(* A grabber that is closed leaves nothing behind if its converters don't. *)
LEMMA ClosedClean ==
  ASSUME RInv, Close(FALSE, 0), IsDriver(driver'), Unbuffered(driver')
  PROVE  RInv'
<1>1. Structs'
  BY DEF Close, RInv, Structs, IsCapture, CaptureFields, IsDev, DevFields, NoCapture, NoDev
<1>2. dev'.jpeg = FALSE /\ dev'.double = 0
  BY DEF Close, NoDev
<1> QED BY <1>1, <1>2 DEF Close, RInv, Compressible, Allocated, ChannelIsInput, SetUp

(* doInit, whichever of its calls fails.                                   *)
LEMMA SetUpKeepsRInv ==
  ASSUME RInv,
         SetCapParam \/ InitCapture \/ InitCaptureFails \/ InitFormatConverter
  PROVE  RInv'
<1>1. ASSUME NEW d, NEW e, Fail(d, e), IsDriver(d), Unbuffered(d), ~SetUp
      PROVE  RInv'
  <2>1. Close(FALSE, 0) /\ driver' = d
    BY <1>1 DEF Fail, RInv, Allocated
  <2> QED BY <1>1, <2>1, ClosedClean
<1>2. CASE SetCapParam
  <2> DEFINE s == set_std(capture, driver)
             i == set_input(s.c, s.d)
             f == set_image_format(s.c, i.d, SrcFormat, DestFormat)
  <2>1. \/ ~s.ok /\ Fail(s.d, "VideoStandardException")
        \/ s.ok /\ ~i.ok /\ Fail(i.d, "V4L4JException")
        \/ s.ok /\ i.ok /\ ~f.ok /\ Fail(f.d, "ImageFormatException")
        \/ /\ s.ok /\ i.ok /\ f.ok /\ capture' = f.c /\ driver' = f.d /\ stage' = "set"
           /\ UNCHANGED <<cam, inputs, lists, info, dev, format, frame, exception>>
    BY <1>2 DEF SetCapParam
  <2>2. stage = "created" /\ Unbuffered(driver) /\ ~SetUp
    BY <1>2 DEF SetCapParam, RInv, Allocated, Unbuffered, SetUp
  <2>3. IsCapture(s.c) /\ s.c.channel = capture.channel /\ Alike(s.d, driver)
    BY StdNegotiated DEF RInv, Structs
  <2>4. IsDriver(i.d) /\ i.d.buffers = s.d.buffers
        /\ (i.ok /\ s.c.std # "WEBCAM" => i.d.input = s.c.channel)
    BY <2>3, InputSwitched DEF Alike, Kept
  <2>5. /\ IsCapture(f.c) /\ f.c.channel = s.c.channel /\ f.c.std = s.c.std
        /\ Kept(f.d, i.d)
        /\ f.ok => f.c.palette = DestFormat
    BY <2>3, <2>4, FormatNegotiated
  <2> HIDE DEF s, i, f
  <2> USE DEF Unbuffered
  <2>6. CASE s.ok /\ i.ok /\ f.ok /\ capture' = f.c /\ driver' = f.d /\ stage' = "set"
             /\ UNCHANGED <<cam, inputs, lists, info, dev, format, frame, exception>>
    <3>1. Structs'
      BY <2>5, <2>6 DEF RInv, Structs, Alike, Kept
    <3>2. Compressible'
      BY <2>2, <2>5, <2>6 DEF RInv, Compressible, DestFormat
    <3>3. Allocated'
      BY <2>2, <2>3, <2>4, <2>5, <2>6 DEF RInv, Allocated, Unbuffered, SetUp, Alike, Kept
    <3>4. ChannelIsInput'
      BY <2>3, <2>4, <2>5, <2>6 DEF ChannelIsInput, Alike, Kept
    <3> QED BY <3>1, <3>2, <3>3, <3>4 DEF RInv
  <2> QED BY <1>1, <2>1, <2>2, <2>3, <2>4, <2>5, <2>6 DEF Alike, Kept
<1>3. CASE InitCapture
  <2>1. IsDriver(driver') /\ driver'.input = driver.input
    BY <1>3, DriverSet DEF InitCapture, RInv, Structs
  <2> QED BY <1>3, <2>1 DEF InitCapture, RInv, Structs, Compressible, DestFormat, Allocated,
       Unbuffered, SetUp, ChannelIsInput
<1>4. CASE InitCaptureFails
  <2>1. PICK fault \in Faults : Fail([driver EXCEPT !.buffers = (fault = "mmap")],
       "V4L4JException")
    BY <1>4 DEF InitCaptureFails
  <2> DEFINE d == [driver EXCEPT !.buffers = (fault = "mmap")]
  <2>2. IsDriver(d) /\ d.buffers = (fault = "mmap")
    BY DriverSet DEF RInv, Structs
  <2>3. Unbuffered(d) /\ ~SetUp
    BY <1>4, <2>2 DEF InitCaptureFails, SetUp, Unbuffered
  <2> HIDE DEF d
  <2> QED BY <1>1, <2>1, <2>2, <2>3 DEF d
<1>5. CASE InitFormatConverter
  <2>1. stage = "mapped" /\ ~JpegFails
    BY <1>5 DEF InitFormatConverter, JpegFails, RInv, Compressible, DestFormat
  <2>2. /\ dev' = [dev EXCEPT !.jpeg = dev.need_conv,
                              !.double = IF NeedsDoubleBuffer THEN capture.imagesize ELSE dev.double,
                              !.buffer = get_buffer_length]
        /\ stage' = "ready"
        /\ UNCHANGED <<cam, driver, inputs, lists, info, capture, frame, exception>>
    BY <1>5, <2>1 DEF InitFormatConverter
  <2>3. /\ IsDev(dev')
        /\ dev'.output_fmt = dev.output_fmt /\ dev'.in_fmt = dev.in_fmt
        /\ dev'.need_conv = dev.need_conv
        /\ dev'.double = IF NeedsDoubleBuffer THEN capture.imagesize ELSE dev.double
    BY <2>2 DEF RInv, Structs, IsDev, DevFields
  <2>4. NeedsDoubleBuffer' <=> NeedsDoubleBuffer
    BY <2>2, <2>3 DEF NeedsDoubleBuffer
  <2>5. dev'.double = 0 \/ NeedsDoubleBuffer'
    BY <2>1, <2>3, <2>4 DEF RInv, Allocated, Unbuffered, SetUp
  <2>6. Structs' /\ Compressible' /\ ChannelIsInput'
    BY <2>1, <2>2, <2>3 DEF RInv, Structs, Compressible, DestFormat, ChannelIsInput
  <2>7. Allocated'
    BY <2>1, <2>2, <2>5 DEF RInv, Allocated, Unbuffered, SetUp
  <2> QED BY <2>6, <2>7 DEF RInv
<1> QED BY <1>2, <1>3, <1>4, <1>5

(* What is done with a grabber that exists, or before there is one.        *)
LEMMA UseKeepsRInv ==
  ASSUME RInv,
         \/ GetDeviceInfo
         \/ \E t \in TunerList(inputs) : SetTunerFrequency(t, t.rangeHigh + 1)
         \/ \E out \in DOMAIN lists : \E imf \in lists[out] : \E size, ch, std :
               GetFrameGrabber(out, imf, size, ch, std)
         \/ StartCapture \/ DeliverFrame \/ StopCapture
         \/ \E ch, std : SetVideoInputNStandard(ch, std)
         \/ \E n \in Intervals : SetFrameInterval(n)
         \/ ReleaseFrameGrabber
  PROVE  RInv'
<1> USE DEF RInv
<1>1. CASE GetDeviceInfo
  <2>1. lists'["JPG"] \subseteq JPEG_CONVERTIBLE_FORMATS
    BY <1>1 DEF GetDeviceInfo, listFormats, Compressible
  <2> QED BY <1>1, <2>1 DEF GetDeviceInfo, Structs, Compressible, DestFormat, Allocated,
       Unbuffered, SetUp, ChannelIsInput, NeedsDoubleBuffer
<1>2. ASSUME UNCHANGED <<lists, stage, capture, dev>>, Alike(driver', driver)
      PROVE  RInv'
  BY <1>2 DEF Structs, Compressible, DestFormat, Allocated, Unbuffered, SetUp, ChannelIsInput,
       NeedsDoubleBuffer, Alike, Kept
<1>3. ASSUME NEW t, NEW f, SetTunerFrequency(t, f) PROVE RInv'
  <2>1. Alike(driver', driver)
    <3>1. Alike(driver, driver) /\ \A x : Alike([driver EXCEPT !.freq = x], driver)
      BY DriverSet DEF Structs, Alike, Kept
    <3> QED BY <1>3, <3>1, Zenon DEF SetTunerFrequency
  <2> QED BY <1>2, <1>3, <2>1 DEF SetTunerFrequency
<1>4. ASSUME NEW out \in DOMAIN lists, NEW imf \in lists[out], NEW size, NEW ch, NEW std,
             GetFrameGrabber(out, imf, size, ch, std)
      PROVE  RInv'
  <2>1. /\ stage = "closed" /\ stage' = "created" /\ UNCHANGED <<driver, lists>>
        /\ capture' = [NoCapture EXCEPT !.width = size[1], !.height = size[2],
                                        !.channel = ch, !.std = std]
        /\ dev' = [dev EXCEPT !.output_fmt = out, !.in_fmt = imf, !.need_conv = (out = "JPG")]
    BY <1>4 DEF GetFrameGrabber
  <2>2. IsCapture(capture')
    BY <2>1 DEF IsCapture, CaptureFields, NoCapture
  <2>3. /\ IsDev(dev') /\ dev'.output_fmt = out /\ dev'.in_fmt = imf
        /\ dev'.jpeg = dev.jpeg /\ dev'.double = dev.double
    BY <2>1 DEF Structs, IsDev, DevFields
  <2> QED BY <2>1, <2>2, <2>3 DEF Structs, Compressible, Allocated, Unbuffered, SetUp,
       ChannelIsInput
<1>5. CASE StartCapture \/ DeliverFrame \/ StopCapture
  BY <1>5 DEF StartCapture, DeliverFrame, StopCapture, Structs, Compressible, DestFormat,
       Allocated, Unbuffered, SetUp, ChannelIsInput, NeedsDoubleBuffer
<1>6. ASSUME NEW ch, NEW std, SetVideoInputNStandard(ch, std) PROVE RInv'
  <2> DEFINE d == SetInput(driver, ch)
  <2>1. IsDriver(d) /\ d.buffers = driver.buffers /\ d.input = ch
    BY InputSet DEF Structs
  <2>2. Alike(try_std(d, std), d)
    BY <2>1, StdSet
  <2>3. PICK input \in BOOLEAN, ok \in BOOLEAN :
          /\ ok => input
          /\ driver' = IF ~input THEN driver ELSE try_std(d, std)
          /\ capture' = [capture EXCEPT !.channel = IF input THEN ch ELSE @,
                                        !.std = IF ok THEN std ELSE @]
    BY <1>6, Zenon DEF SetVideoInputNStandard
  <2>4. UNCHANGED <<lists, stage, dev>> /\ SetUp
    BY <1>6 DEF SetVideoInputNStandard, SetUp
  <2> HIDE DEF d
  <2>5. /\ IsCapture(capture')
        /\ capture'.palette = capture.palette /\ capture'.is_native = capture.is_native
        /\ capture'.channel = IF input THEN ch ELSE capture.channel
        /\ capture'.std = IF ok THEN std ELSE capture.std
    BY <2>3 DEF Structs, IsCapture, CaptureFields
  <2>6. /\ IsDriver(driver') /\ driver'.buffers = driver.buffers
        /\ driver'.input = IF input THEN ch ELSE driver.input
    BY <2>1, <2>2, <2>3 DEF Structs, Alike, Kept
  <2>7. Structs' /\ Compressible' /\ Allocated'
    BY <2>4, <2>5, <2>6 DEF Structs, Compressible, DestFormat, Allocated, Unbuffered, SetUp,
         NeedsDoubleBuffer
  <2>8. ChannelIsInput'
    BY <2>3, <2>4, <2>5, <2>6 DEF ChannelIsInput, SetUp
  <2> QED BY <2>7, <2>8
<1>7. ASSUME NEW n, SetFrameInterval(n) PROVE RInv'
  <2>1. Alike(set_frame_intv(driver, n).d, driver)
    BY DriverSet DEF set_frame_intv, Structs, Alike, Kept
  <2>2. Alike(driver', driver)
    BY <1>7, <2>1 DEF SetFrameInterval, Structs, Alike, Kept
  <2> QED BY <1>2, <1>7, <2>2 DEF SetFrameInterval
<1>8. CASE ReleaseFrameGrabber
  <2>1. release_format_converter = 0
    BY <1>8 DEF ReleaseFrameGrabber, release_format_converter, Allocated, Unbuffered, SetUp
  <2>2. Close(FALSE, 0) /\ IsDriver(driver') /\ Unbuffered(driver')
    BY <1>8, <2>1, DriverSet DEF ReleaseFrameGrabber, Structs, Unbuffered
  <2> QED BY <2>2, ClosedClean
<1> HIDE DEF RInv
<1> QED BY <1>1, <1>3, <1>4, <1>5, <1>6, <1>7, <1>8

(* The invariant always holds, also where mmap fails.                      *)
LEMMA RInvariance == Spec => []RInv
<1>1. ASSUME RInv, Next PROVE RInv'
  BY <1>1, SetUpKeepsRInv, UseKeepsRInv DEF Next
<1>2. ASSUME RInv, UNCHANGED vars PROVE RInv'
  BY <1>2 DEF vars, RInv, Structs, Compressible, DestFormat, Allocated, Unbuffered, SetUp,
       ChannelIsInput, NeedsDoubleBuffer
<1>3. RInv /\ [Next]_vars => RInv'
  BY <1>1, <1>2
<1> QED BY <1>3, RInvInit, PTL DEF Spec

-----------------------------------------------------------------------------
(* The smallest of some numbers.                                           *)
LEMMA MinIsOne ==
  ASSUME NEW S \in SUBSET Nat, S # {}
  PROVE  Min(S) \in S /\ \A n \in S : Min(S) <= n
<1>1. PICK x \in S : \A y \in S : <<y, x>> \notin OpToRel(<, Nat)
  BY NatLessThanWellFounded, WFMin, Zenon
<1>2. \A y \in S : ~(y < x)
  <2> TAKE y \in S
  <2>1. <<y, x>> \notin {ss \in Nat \X Nat : ss[1] < ss[2]}
    BY <1>1 DEF OpToRel
  <2> QED BY <2>1
<1>3. \A y \in S : x <= y
  BY <1>2
<1> QED BY <1>3, Zenon DEF Min

(* The InputInfo that check_inputs_v4l2 makes of each input of a camera    *)
(* whose tuners all answer.                                                *)
InputsFound == create_inputs_object(check_inputs_v4l2(cam).inputs)

LEMMA InputsDescribed ==
  ASSUME cam \in Cameras, TunersAnswer(cam)
  PROVE  /\ DOMAIN InputsFound = 1 .. Cardinality(DOMAIN cam.inputs)
         /\ \A n \in DOMAIN InputsFound :
               /\ InputsFound[n].index = n - 1
               /\ InputsFound[n].tuner =
                     IF HasTuner(cam, n - 1)
                     THEN <<create_tuner_object(query_tuner(cam, cam.tunerOf[n - 1])[1])>>
                     ELSE NoTuner
<1> DEFINE N == Cardinality(DOMAIN cam.inputs)
           asked(i) == [index |-> i, supported_stds |-> add_supported_std(cam.inputs[i]),
                        tuner |-> IF HasTuner(cam, i) THEN query_tuner(cam, cam.tunerOf[i])
                                  ELSE NoTuner]
           found == check_inputs_v4l2(cam).inputs
<1>1. found = [n \in 1 .. N |-> asked(n - 1)]
  BY DEF check_inputs_v4l2
<1>2. \A i : query_tuner(cam, i) # NoTuner
  BY DEF query_tuner, NoTuner
<1>3. \A i : /\ asked(i).index = i
            /\ asked(i).tuner = IF HasTuner(cam, i) THEN query_tuner(cam, cam.tunerOf[i])
                               ELSE NoTuner
  OBVIOUS
<1> HIDE DEF N, found, asked
<1>4. DOMAIN InputsFound = 1 .. N
  BY <1>1 DEF InputsFound, create_inputs_object, found
<1>5. ASSUME NEW n \in 1 .. N
      PROVE  /\ InputsFound[n].index = n - 1
             /\ InputsFound[n].tuner =
                   IF asked(n - 1).tuner = NoTuner THEN NoTuner
                   ELSE <<create_tuner_object(asked(n - 1).tuner[1])>>
  <2>1. found[n] = asked(n - 1) /\ n \in DOMAIN found
    BY <1>1
  <2>2. InputsFound = create_inputs_object(found)
    BY DEF InputsFound, found
  <2>3. InputsFound[n] =
          [index |-> found[n].index, supportedStandards |-> ToSet(found[n].supported_stds),
           tuner |-> IF found[n].tuner = NoTuner THEN NoTuner
                     ELSE <<create_tuner_object(found[n].tuner[1])>>]
    BY <2>1, <2>2, Zenon DEF create_inputs_object
  <2> QED BY <1>3, <2>1, <2>3
<1> QED BY <1>3, <1>2, <1>4, <1>5 DEF N

(* The tuner found for an input is the one the camera has for it, as it    *)
(* described it: it is the first of its index in the list, whichever input *)
(* that one was listed for.                                                *)
LEMMA TunerOfInput ==
  ASSUME cam \in Cameras, TunersAnswer(cam), NEW i \in DOMAIN cam.inputs
  PROVE  findTuner(InputsFound, i) =
            IF HasTuner(cam, i)
            THEN <<create_tuner_object(query_tuner(cam, cam.tunerOf[i])[1])>> ELSE NoTuner
<1> DEFINE N == Cardinality(DOMAIN cam.inputs)
           F == InputsFound
           T(j) == create_tuner_object(query_tuner(cam, cam.tunerOf[j])[1])
           of == {n \in WithTuner(F) : F[n].index = i}
<1>1. N \in Nat /\ DOMAIN cam.inputs = 0 .. N - 1
  BY CamerasAssumption, FS_CardinalityType
<1>2. /\ DOMAIN F = 1 .. N
      /\ \A n \in DOMAIN F : /\ F[n].index = n - 1
                             /\ F[n].tuner = IF HasTuner(cam, n - 1) THEN <<T(n - 1)>> ELSE NoTuner
  BY InputsDescribed
<1>3. \A j : T(j).index = cam.tunerOf[j]
  BY DEF create_tuner_object, query_tuner
<1>4. \A j : <<T(j)>> # NoTuner /\ <<T(j)>>[1] = T(j)
  BY DEF NoTuner
<1>5. \A j, k : cam.tunerOf[j] = cam.tunerOf[k] => T(j) = T(k)
  BY Zenon
<1> HIDE DEF N, F, T
<1>6. WithTuner(F) = {n \in 1 .. N : HasTuner(cam, n - 1)}
  BY <1>2, <1>4 DEF WithTuner
<1>7. of = IF HasTuner(cam, i) THEN {i + 1} ELSE {}
  <2>1. i \in 0 .. N - 1 /\ \A n \in WithTuner(F) : F[n].index = n - 1
    BY <1>1, <1>2, <1>6
  <2>2. of = {n \in 1 .. N : HasTuner(cam, n - 1) /\ n - 1 = i}
    BY <1>6, <2>1 DEF of
  <2>3. \A n \in 1 .. N : n - 1 = i => n = i + 1
    BY <2>1
  <2>4. i + 1 \in 1 .. N /\ (i + 1) - 1 = i
    BY <1>1, <2>1
  <2> QED BY <2>2, <2>3, <2>4, Zenon
<1>8. i + 1 \in 1 .. N /\ (i + 1) - 1 = i /\ (HasTuner(cam, i) => F[i + 1].tuner[1] = T(i))
  <2>1. i + 1 \in 1 .. N /\ (i + 1) - 1 = i
    BY <1>1
  <2> QED BY <1>2, <1>4, <2>1
<1>9. ASSUME HasTuner(cam, i) PROVE getTuner(F, cam.tunerOf[i]) = T(i)
  <2> DEFINE S == {n \in WithTuner(F) : F[n].tuner[1].index = cam.tunerOf[i]}
  <2>1. i + 1 \in S
    BY <1>3, <1>6, <1>8, <1>9
  <2>2. S \in SUBSET Nat
    BY <1>1, <1>6
  <2>3. Min(S) \in S
    BY <2>1, <2>2, MinIsOne
  <2> DEFINE m == Min(S)
  <2> HIDE DEF m
  <2>4. m \in WithTuner(F) /\ F[m].tuner[1].index = cam.tunerOf[i]
    BY <2>3 DEF m
  <2>5. F[m].tuner[1] = T(m - 1)
    BY <1>2, <1>4, <1>6, <2>4
  <2>6. T(m - 1) = T(i)
    BY <1>3, <1>5, <2>4, <2>5
  <2> QED BY <2>5, <2>6 DEF getTuner, m
<1>10. CASE HasTuner(cam, i)
  <2>1. of = {i + 1} /\ i + 1 \in Nat
    BY <1>1, <1>7, <1>10
  <2>2. Min(of) = i + 1
    BY <2>1, MinIsOne
  <2>3. F[i + 1].tuner[1].index = cam.tunerOf[i]
    BY <1>3, <1>8, <1>10
  <2> QED BY <1>9, <1>10, <2>1, <2>2, <2>3 DEF findTuner, F, T
<1>11. CASE ~HasTuner(cam, i)
  BY <1>7, <1>11 DEF findTuner, F, T
<1> QED BY <1>10, <1>11

(* The second invariant: the driver is at an input of the camera, and what *)
(* a grabber was created from are its inputs.                              *)
InputsKnown ==
  /\ cam \in Cameras
  /\ driver.input \in DOMAIN cam.inputs
  /\ \/ lists = NoLists /\ stage = "closed"
     \/ TunersAnswer(cam) /\ inputs = InputsFound

LEMMA InputsKnownInit == Init => InputsKnown
<1> SUFFICES ASSUME Init PROVE InputsKnown
  OBVIOUS
<1>1. PICK f, intv, std, i, freq :
        i \in DOMAIN cam.inputs
        /\ driver = [fmt |-> f, intv |-> intv, std |-> std, input |-> i, buffers |-> FALSE,
                     freq |-> freq]
  BY Zenon DEF Init
<1>2. driver.input \in DOMAIN cam.inputs
  BY <1>1
<1> QED BY <1>2 DEF Init, InputsKnown

LEMMA InputsStayKnown ==
  ASSUME RInv, InputsKnown, Next
  PROVE  InputsKnown'
<1>1. ASSUME UNCHANGED <<cam, inputs, lists>>, stage # "closed",
             driver'.input \in DOMAIN cam.inputs
      PROVE  InputsKnown'
  BY <1>1 DEF InputsKnown, InputsFound
<1>2. CASE GetDeviceInfo
  <2>1. cam' = cam /\ driver' = driver
    BY <1>2 DEF GetDeviceInfo
  <2>2. UNCHANGED <<inputs, lists, stage>> \/ (TunersAnswer(cam) /\ inputs' = InputsFound)
    <3>1. check_inputs_v4l2(cam).ok => TunersAnswer(cam)
      BY DEF check_inputs_v4l2
    <3> QED BY <1>2, <3>1, Zenon DEF GetDeviceInfo, query_device_v4l2, InputsFound
  <2> QED BY <2>1, <2>2 DEF InputsKnown, InputsFound
<1>3. ASSUME NEW t, NEW f, SetTunerFrequency(t, f) PROVE InputsKnown'
  <2>1. driver'.input = driver.input
    <3>1. \A x : [driver EXCEPT !.freq = x].input = driver.input
      BY DriverSet DEF RInv, Structs, Alike, Kept
    <3> QED BY <1>3, <3>1, Zenon DEF SetTunerFrequency
  <2>2. UNCHANGED <<cam, inputs, lists, stage>>
    BY <1>3 DEF SetTunerFrequency
  <2> QED BY <2>1, <2>2 DEF InputsKnown, InputsFound
<1>4. ASSUME NEW out \in DOMAIN lists, NEW imf \in lists[out], NEW size, NEW ch, NEW std,
             GetFrameGrabber(out, imf, size, ch, std)
      PROVE  InputsKnown'
  <2>1. lists # NoLists
    BY <1>4 DEF NoLists
  <2> QED BY <1>4, <2>1 DEF GetFrameGrabber, InputsKnown, InputsFound
<1>5. CASE SetCapParam
  <2> DEFINE s == set_std(capture, driver)
             i == set_input(s.c, s.d)
             f == set_image_format(s.c, i.d, SrcFormat, DestFormat)
  <2>1. /\ stage = "created" /\ UNCHANGED <<cam, inputs, lists>>
        /\ driver' = s.d \/ driver' = i.d \/ driver' = f.d
    BY <1>5 DEF SetCapParam, Fail, Close
  <2>2. IsCapture(s.c) /\ Alike(s.d, driver)
    BY StdNegotiated DEF RInv, Structs
  <2>3. IsDriver(i.d) /\ i.d.input \in DOMAIN cam.inputs \cup {s.d.input}
    BY <2>2, InputSwitched DEF Alike, Kept
  <2>4. Kept(f.d, i.d)
    BY <2>2, <2>3, FormatNegotiated
  <2> HIDE DEF s, i, f
  <2>5. driver'.input \in DOMAIN cam.inputs
    BY <2>1, <2>2, <2>3, <2>4 DEF Alike, Kept, InputsKnown
  <2> QED BY <1>1, <2>1, <2>5
<1>6. CASE InitCapture \/ InitCaptureFails \/ InitFormatConverter \/ ReleaseFrameGrabber
  <2>1. \A x : [driver EXCEPT !.buffers = x].input = driver.input
    BY DriverSet DEF RInv, Structs
  <2>2. /\ stage # "closed" /\ UNCHANGED <<cam, inputs, lists>>
        /\ driver' = driver \/ \E x : driver' = [driver EXCEPT !.buffers = x]
    BY <1>6, Zenon DEF InitCapture, InitCaptureFails, InitFormatConverter, ReleaseFrameGrabber,
         Fail, Close
  <2> QED BY <1>1, <2>1, <2>2 DEF InputsKnown
<1>7. CASE StartCapture \/ DeliverFrame \/ StopCapture
  BY <1>1, <1>7 DEF StartCapture, DeliverFrame, StopCapture, InputsKnown
<1>8. ASSUME NEW ch, NEW std, SetVideoInputNStandard(ch, std) PROVE InputsKnown'
  <2> DEFINE d == SetInput(driver, ch)
  <2>1. IsDriver(d) /\ d.input = ch
    BY InputSet DEF RInv, Structs
  <2>2. Alike(try_std(d, std), d)
    BY <2>1, StdSet
  <2>3. /\ driver' = driver \/ (driver' = try_std(d, std) /\ ch \in DOMAIN cam.inputs)
        /\ stage # "closed" /\ UNCHANGED <<cam, inputs, lists>>
    BY <1>8, Zenon DEF SetVideoInputNStandard
  <2> QED BY <1>1, <2>1, <2>2, <2>3 DEF Alike, Kept, InputsKnown
<1>9. ASSUME NEW n, SetFrameInterval(n) PROVE InputsKnown'
  <2>1. Alike(set_frame_intv(driver, n).d, driver)
    BY DriverSet DEF set_frame_intv, RInv, Structs, Alike, Kept
  <2>2. /\ driver'.input = driver.input
        /\ stage # "closed" /\ UNCHANGED <<cam, inputs, lists>>
    BY <1>9, <2>1 DEF SetFrameInterval, Alike, Kept
  <2> QED BY <1>1, <2>2 DEF InputsKnown
<1> QED BY <1>2, <1>3, <1>4, <1>5, <1>6, <1>7, <1>8, <1>9 DEF Next

-----------------------------------------------------------------------------
(* The four formats libv4lconvert makes.                                   *)
FourFormats == {"RGB24", "BGR24", "YUV420", "YVU420"}

LEMMA DstFormats == \A f : v4lconvert_supported_dst_format(f) <=> f \in FourFormats
BY DEF v4lconvert_supported_dst_format, supported_dst_pixfmts, Contains, FourFormats

(* The table of the formats: its rows,                                     *)
TableNames ==
  FourFormats \cup
  {"RGB565", "YUYV", "YVYU", "UYVY", "SPCA501", "SPCA505", "SPCA508", "CIT_YYVYUY", "KONICA420",
   "SN9C20X_I420", "M420", "HM12", "CPIA1", "MJPEG", "JPEG", "PJPG", "JPGL", "OV511", "OV518",
   "SBGGR8", "SGBRG8", "SGRBG8", "SRGGB8", "STV0680", "SPCA561", "SN9C10X", "SN9C2028", "PAC207",
   "MR97310A", "JL2005BCD", "SQ905C", "SE401", "GREY", "Y10BPACK"}

TableRow == [fmt : TableNames, bpp : Nat, rgb_rank : Nat \ {0}, yuv_rank : Nat \ {0},
             needs_conversion : BOOLEAN]

LEMMA RowIsSeq ==
  ASSUME NEW fmts \in Seq(TableNames), NEW bpp \in Nat,
         NEW rgb \in Nat \ {0}, NEW yuv \in Nat \ {0},
         NEW nc \in BOOLEAN
  PROVE  Row(fmts, bpp, rgb, yuv, nc) \in Seq(TableRow)
<1> DEFINE s == Row(fmts, bpp, rgb, yuv, nc)
<1>1. Len(fmts) \in Nat /\ \A i \in 1 .. Len(fmts) : fmts[i] \in TableNames
  OBVIOUS
<1>2. s = [i \in 1 .. Len(fmts) |->
             [fmt |-> fmts[i], bpp |-> bpp, rgb_rank |-> rgb, yuv_rank |-> yuv,
              needs_conversion |-> nc]]
  BY DEF Row
<1>3. \A i \in 1 .. Len(fmts) : s[i] \in TableRow
  BY <1>1, <1>2 DEF TableRow
<1>4. s \in [1 .. Len(fmts) -> TableRow]
  BY <1>2, <1>3
<1> QED BY <1>1, <1>4

(* the first four of which are the formats libv4lconvert makes.            *)
StartsTable(s) ==
  /\ s \in Seq(TableRow) /\ Len(s) >= 4
  /\ \A i \in 1 .. 4 : s[i] = SUPPORTED_DST_PIXFMTS[i]

LEMMA TableGrows ==
  ASSUME NEW s, StartsTable(s), NEW t \in Seq(TableRow)
  PROVE  StartsTable(s \o t)
BY DEF StartsTable

LEMMA DstTable ==
  LET s == SUPPORTED_DST_PIXFMTS
  IN  /\ StartsTable(s)
      /\ s[1].fmt = "RGB24" /\ s[2].fmt = "BGR24" /\ s[3].fmt = "YUV420" /\ s[4].fmt = "YVU420"
      /\ s[1].bpp = 24 /\ s[2].bpp = 24 /\ s[3].bpp = 12 /\ s[4].bpp = 12
<1> DEFINE a == Row(<<"RGB24", "BGR24">>, 24, 1, 5, FALSE)
           b == Row(<<"YUV420", "YVU420">>, 12, 6, 1, FALSE)
<1>1. /\ <<"RGB24", "BGR24">> \in Seq(TableNames) /\ <<"YUV420", "YVU420">> \in Seq(TableNames)
  BY DEF TableNames, FourFormats
<1>2. a \in Seq(TableRow) /\ b \in Seq(TableRow)
  <2>1. /\ 24 \in Nat /\ 12 \in Nat /\ 1 \in Nat \ {0} /\ 5 \in Nat \ {0} /\ 6 \in Nat \ {0}
        /\ FALSE \in BOOLEAN
    OBVIOUS
  <2> QED BY <1>1, <2>1, RowIsSeq, Zenon
<1>3. Len(a) = 2 /\ a[1].fmt = "RGB24" /\ a[2].fmt = "BGR24" /\ a[1].bpp = 24 /\ a[2].bpp = 24
  BY DEF Row
<1>4. Len(b) = 2 /\ b[1].fmt = "YUV420" /\ b[2].fmt = "YVU420" /\ b[1].bpp = 12 /\ b[2].bpp = 12
  BY DEF Row
<1> HIDE DEF a, b
<1>5. SUPPORTED_DST_PIXFMTS = a \o b
  BY DEF SUPPORTED_DST_PIXFMTS, a, b
<1> HIDE DEF SUPPORTED_DST_PIXFMTS
<1>6. /\ a \o b \in Seq(TableRow) /\ Len(a \o b) = 4
      /\ (a \o b)[1] = a[1] /\ (a \o b)[2] = a[2] /\ (a \o b)[3] = b[1] /\ (a \o b)[4] = b[2]
  <2>1. /\ a \o b \in Seq(TableRow) /\ Len(a \o b) = Len(a) + Len(b)
        /\ \A i \in 1 .. Len(a) + Len(b) :
              (a \o b)[i] = IF i <= Len(a) THEN a[i] ELSE b[i - Len(a)]
    BY <1>2, ConcatProperties
  <2> HIDE DEF SUPPORTED_DST_PIXFMTS
  <2>2. 1 \in 1 .. 4 /\ 2 \in 1 .. 4 /\ 3 \in 1 .. 4 /\ 4 \in 1 .. 4 /\ 3 - 2 = 1 /\ 4 - 2 = 2
    OBVIOUS
  <2> QED BY <1>3, <1>4, <2>1, <2>2
<1> QED BY <1>3, <1>4, <1>5, <1>6 DEF StartsTable

LEMMA SrcTable == StartsTable(supported_src_pixfmts)
<1> DEFINE a1 == Row(<<"RGB565">>, 16, 4, 6, FALSE)
           a2 == Row(<<"YUYV", "YVYU", "UYVY">>, 16, 5, 4, FALSE)
           a3 == Row(<<"SPCA501", "SPCA505", "SPCA508", "CIT_YYVYUY", "KONICA420",
                       "SN9C20X_I420", "M420", "HM12">>, 12, 6, 3, TRUE)
           a4 == Row(<<"CPIA1">>, 0, 6, 3, TRUE)
           a5 == Row(<<"MJPEG", "JPEG">>, 0, 7, 7, FALSE)
           a6 == Row(<<"PJPG", "JPGL", "OV511", "OV518">>, 0, 7, 7, TRUE)
           a7 == Row(<<"SBGGR8", "SGBRG8", "SGRBG8", "SRGGB8", "STV0680">>, 8, 8, 8, TRUE)
           a8 == Row(<<"SPCA561", "SN9C10X", "SN9C2028", "PAC207", "MR97310A",
                       "JL2005BCD", "SQ905C">>, 0, 9, 9, TRUE)
           a9 == Row(<<"SE401">>, 0, 8, 9, TRUE)
           a10 == Row(<<"GREY">>, 8, 20, 20, FALSE)
           a11 == Row(<<"Y10BPACK">>, 10, 20, 20, FALSE)
           s == SUPPORTED_DST_PIXFMTS
<1>0. /\ 0 \in Nat /\ 8 \in Nat /\ 10 \in Nat /\ 12 \in Nat /\ 16 \in Nat
      /\ 3 \in Nat \ {0} /\ 4 \in Nat \ {0} /\ 5 \in Nat \ {0} /\ 6 \in Nat \ {0}
      /\ 7 \in Nat \ {0} /\ 8 \in Nat \ {0} /\ 9 \in Nat \ {0} /\ 20 \in Nat \ {0}
      /\ TRUE \in BOOLEAN /\ FALSE \in BOOLEAN
  OBVIOUS
<1>1. /\ <<"RGB565">> \in Seq(TableNames)
      /\ <<"YUYV", "YVYU", "UYVY">> \in Seq(TableNames)
      /\ <<"CPIA1">> \in Seq(TableNames)
      /\ <<"MJPEG", "JPEG">> \in Seq(TableNames)
      /\ <<"PJPG", "JPGL", "OV511", "OV518">> \in Seq(TableNames)
  BY DEF TableNames
<1>2. <<"SPCA501", "SPCA505", "SPCA508", "CIT_YYVYUY", "KONICA420",
        "SN9C20X_I420", "M420", "HM12">> \in Seq(TableNames)
  BY DEF TableNames
<1>3. /\ <<"SBGGR8", "SGBRG8", "SGRBG8", "SRGGB8", "STV0680">> \in Seq(TableNames)
      /\ <<"SPCA561", "SN9C10X", "SN9C2028", "PAC207", "MR97310A",
           "JL2005BCD", "SQ905C">> \in Seq(TableNames)
      /\ <<"SE401">> \in Seq(TableNames)
      /\ <<"GREY">> \in Seq(TableNames)
      /\ <<"Y10BPACK">> \in Seq(TableNames)
  BY DEF TableNames
<1>4. /\ a1 \in Seq(TableRow) /\ a2 \in Seq(TableRow) /\ a3 \in Seq(TableRow)
      /\ a4 \in Seq(TableRow) /\ a5 \in Seq(TableRow) /\ a6 \in Seq(TableRow)
  BY <1>0, <1>1, <1>2, RowIsSeq, Zenon
<1>5. /\ a7 \in Seq(TableRow) /\ a8 \in Seq(TableRow) /\ a9 \in Seq(TableRow)
      /\ a10 \in Seq(TableRow) /\ a11 \in Seq(TableRow)
  BY <1>0, <1>3, RowIsSeq, Zenon
<1>6. supported_src_pixfmts =
        s \o a1 \o a2 \o a3 \o a4 \o a5 \o a6 \o a7 \o a8 \o a9 \o a10 \o a11
  BY DEF supported_src_pixfmts
<1> HIDE DEF a1, a2, a3, a4, a5, a6, a7, a8, a9, a10, a11
<1>7. StartsTable(s \o a1 \o a2 \o a3 \o a4)
  BY <1>4, DstTable, TableGrows, Zenon
<1>8. StartsTable(s \o a1 \o a2 \o a3 \o a4 \o a5 \o a6 \o a7 \o a8)
  BY <1>4, <1>5, <1>7, TableGrows, Zenon
<1> QED BY <1>5, <1>6, <1>8, TableGrows, Zenon

LEMMA FourAreSources == FourFormats \subseteq SrcFormats
<1> DEFINE s == SUPPORTED_DST_PIXFMTS
           t == supported_src_pixfmts
<1>1. /\ 1 \in DOMAIN t /\ 2 \in DOMAIN t /\ 3 \in DOMAIN t /\ 4 \in DOMAIN t
      /\ t[1] = s[1] /\ t[2] = s[2] /\ t[3] = s[3] /\ t[4] = s[4]
  BY SrcTable DEF StartsTable
<1> QED BY <1>1, DstTable, Zenon DEF SrcFormats, FourFormats

(* A source format has a row,                                              *)
LEMMA SrcRows ==
  ASSUME NEW f \in SrcFormats
  PROVE  SrcRow(f) \in TableRow /\ SrcRow(f).fmt = f
<1> DEFINE t == supported_src_pixfmts
           I == {i \in 1 .. Len(t) : t[i].fmt = f}
<1>1. /\ t \in Seq(TableRow) /\ Len(t) \in Nat /\ DOMAIN t = 1 .. Len(t)
      /\ \A i \in 1 .. Len(t) : t[i] \in TableRow
  BY SrcTable DEF StartsTable
<1>2. PICK k \in DOMAIN t : t[k].fmt = f
  BY DEF SrcFormats
<1>3. I \in SUBSET Nat /\ I # {}
  BY <1>1, <1>2
<1>4. Min(I) \in I
  BY <1>3, MinIsOne
<1>5. SrcRow(f) = t[Min(I)]
  BY <1>3 DEF SrcRow, SelectInSeq
<1> QED BY <1>1, <1>4, <1>5

(* the row of one of the four is theirs.                                   *)
LEMMA FourRows ==
  /\ SrcRow("RGB24").bpp = 24  /\ SrcRow("BGR24").bpp = 24
  /\ SrcRow("YUV420").bpp = 12 /\ SrcRow("YVU420").bpp = 12
<1> DEFINE s == SUPPORTED_DST_PIXFMTS
           t == supported_src_pixfmts
           I(f) == {i \in 1 .. Len(t) : t[i].fmt = f}
<1>1. /\ Len(t) \in Nat /\ Len(t) >= 4
      /\ t[1] = s[1] /\ t[2] = s[2] /\ t[3] = s[3] /\ t[4] = s[4]
  BY SrcTable DEF StartsTable
<1>2. ASSUME NEW f, NEW n \in 1 .. 4, s[n].fmt = f, \A i \in 1 .. 4 : i < n => s[i].fmt # f
      PROVE  SrcRow(f) = s[n]
  <2>1. \A i \in 1 .. 4 : t[i] = s[i]
    BY SrcTable DEF StartsTable
  <2>2. n \in I(f) /\ \A i \in I(f) : n <= i
    BY <1>1, <1>2, <2>1
  <2>3. I(f) \in SUBSET Nat /\ I(f) # {}
    BY <2>2
  <2>4. Min(I(f)) \in I(f) /\ Min(I(f)) <= n
    BY <2>2, <2>3, MinIsOne
  <2>5. Min(I(f)) = n
    BY <2>2, <2>3, <2>4
  <2>6. SrcRow(f) = t[Min(I(f))]
    BY <2>3 DEF SrcRow, SelectInSeq
  <2> QED BY <2>1, <2>5, <2>6
<1>3. SrcRow("RGB24") = s[1]
  BY <1>2, DstTable
<1>4. SrcRow("BGR24") = s[2]
  BY <1>2, DstTable
<1>5. SrcRow("YUV420") = s[3]
  <2>1. \A i \in 1 .. 4 : i < 3 => i = 1 \/ i = 2
    OBVIOUS
  <2> QED BY <1>2, <2>1, DstTable
<1>6. SrcRow("YVU420") = s[4]
  <2>1. \A i \in 1 .. 4 : i < 4 => i = 1 \/ i = 2 \/ i = 3
    OBVIOUS
  <2> QED BY <1>2, <2>1, DstTable
<1> QED BY <1>3, <1>4, <1>5, <1>6, DstTable

-----------------------------------------------------------------------------
(* The index that costs least is one of them,                              *)
LEMMA BestIsOne ==
  ASSUME NEW D \in SUBSET Nat, D # {}, NEW cost \in [D -> Nat \X Nat]
  PROVE  Best(cost) \in D
<1> DEFINE A == {cost[i][1] : i \in D}
           a == Min(A)
           B == {cost[i][2] : i \in {j \in D : cost[j][1] = a}}
           b == Min(B)
           I == {i \in D : cost[i][1] = a /\ cost[i][2] = b}
           m == Min(I)
<1>1. \A i \in D : cost[i][1] \in Nat /\ cost[i][2] \in Nat /\ cost[i] = <<cost[i][1], cost[i][2]>>
  OBVIOUS
<1>2. a \in A /\ \A x \in A : a <= x
  <2>1. PICK i \in D : TRUE
    OBVIOUS
  <2>2. cost[i][1] \in A
    BY <2>1
  <2>3. \A x \in A : x \in Nat
    BY <1>1
  <2> HIDE DEF A
  <2> QED BY <2>2, <2>3, MinIsOne
<1> HIDE DEF a
<1>3. b \in B /\ \A x \in B : b <= x
  <2>1. B \in SUBSET Nat /\ B # {}
    BY <1>1, <1>2
  <2> QED BY <2>1, MinIsOne
<1> HIDE DEF b
<1>4. m \in I /\ \A i \in I : m <= i
  <2>1. I \in SUBSET Nat /\ I # {}
    BY <1>3
  <2> QED BY <2>1, MinIsOne
<1> HIDE DEF m
<1>5. \A j \in D \ {m} : Cheaper(cost[m], cost[j]) \/ (cost[m] = cost[j] /\ m < j)
  <2> TAKE j \in D \ {m}
  <2>1. /\ cost[m][1] = a /\ cost[m][2] = b /\ m \in D
        /\ m \in Nat /\ j \in Nat /\ a \in Nat /\ b \in Nat
        /\ cost[j][1] \in Nat /\ cost[j][2] \in Nat
    BY <1>1, <1>4
  <2>2. a <= cost[j][1]
    BY <1>2
  <2>3. cost[j][1] = a => b <= cost[j][2]
    BY <1>3
  <2>4. cost[j][1] = a /\ cost[j][2] = b => m < j /\ cost[m] = cost[j]
    <3>1. cost[j][1] = a /\ cost[j][2] = b => m <= j /\ m # j
      BY <1>4
    <3> QED BY <1>1, <2>1, <3>1
  <2> QED BY <2>1, <2>2, <2>3, <2>4 DEF Cheaper
<1>6. DOMAIN cost = D
  OBVIOUS
<1> QED BY <1>4, <1>5, <1>6, Zenon DEF Best

LEMMA SizeDiffIsNat ==
  ASSUME NEW s \in Int \X Int, NEW t \in Int \X Int
  PROVE  SizeDiff(s, t) \in Nat
<1>1. \A x \in Int : Square(x) \in Nat
  BY DEF Square
<1>2. Square(s[1] - t[1]) \in Nat /\ Square(s[2] - t[2]) \in Nat
  BY <1>1
<1> QED BY <1>2 DEF SizeDiff

(* the closest size is one of the driver's.                                *)
LEMMA ClosestIsOne ==
  ASSUME NEW sizes, NEW size \in Int \X Int, Range(sizes) # {}, Range(sizes) \subseteq Nat \X Nat
  PROVE  Closest(sizes, size) \in Range(sizes)
<1> DEFINE R == Range(sizes)
           A == {SizeDiff(s, size) : s \in R}
           a == Min(A)
<1>1. \A s \in R : SizeDiff(s, size) \in Nat
  BY SizeDiffIsNat
<1>2. A \in SUBSET Nat /\ A # {}
  BY <1>1
<1>3. a \in A /\ \A x \in A : a <= x
  BY <1>2, MinIsOne
<1> HIDE DEF a
<1>4. PICK s \in R : SizeDiff(s, size) = a
  BY <1>3
<1>5. \A t \in R : SizeDiff(s, size) <= SizeDiff(t, size)
  BY <1>3, <1>4
<1> QED BY <1>5, Zenon DEF Closest

(* a size the driver has is the closest to itself.                         *)
LEMMA ClosestFixed ==
  ASSUME NEW sizes, Range(sizes) \subseteq Nat \X Nat, NEW size \in Range(sizes)
  PROVE  Closest(sizes, size) = size
<1> DEFINE s == Closest(sizes, size)
<1>1. \A x \in Int : Square(x) \in Nat /\ (Square(x) = 0 => x = 0)
  BY DEF Square
<1>2. SizeDiff(size, size) = 0
  BY DEF SizeDiff, Square
<1>3. \A t \in Range(sizes) : SizeDiff(t, size) \in Nat
  BY SizeDiffIsNat
<1>4. s \in Range(sizes) /\ SizeDiff(s, size) <= 0
  <2>1. \A t \in Range(sizes) : SizeDiff(size, size) <= SizeDiff(t, size)
    BY <1>2, <1>3
  <2>2. /\ s \in Range(sizes)
        /\ \A t \in Range(sizes) : SizeDiff(s, size) <= SizeDiff(t, size)
    BY <2>1, Zenon DEF Closest
  <2> HIDE DEF s
  <2> QED BY <1>2, <2>2
<1> HIDE DEF s
<1>5. Square(s[1] - size[1]) = 0 /\ Square(s[2] - size[2]) = 0
  <2>1. s[1] - size[1] \in Int /\ s[2] - size[2] \in Int
    BY <1>4
  <2>2. Square(s[1] - size[1]) \in Nat /\ Square(s[2] - size[2]) \in Nat
    BY <1>1, <2>1
  <2> QED BY <1>4, <2>2 DEF SizeDiff
<1>6. s[1] = size[1] /\ s[2] = size[2]
  <2>1. s[1] \in Int /\ size[1] \in Int /\ s[2] \in Int /\ size[2] \in Int
    BY <1>4
  <2>2. s[1] - size[1] = 0 /\ s[2] - size[2] = 0
    BY <1>1, <1>5, <2>1
  <2> QED BY <2>1, <2>2
<1> QED BY <1>4, <1>6 DEF s

(* FlattenSeq puts one sequence after the other: f[i] is the first i of    *)
(* them in a row.                                                          *)
LEMMA FlattenGrows ==
  ASSUME NEW S, NEW seqs \in Seq(Seq(S)), seqs # <<>>
  PROVE  \E f : /\ FlattenSeq(seqs) = f[Len(seqs)]
               /\ \A i \in 1 .. Len(seqs) :
                     f[i] = IF i = 1 THEN seqs[i] ELSE f[i - 1] \o seqs[i]
<1> DEFINE Next1(f, i) == IF i = 1 THEN seqs[i] ELSE f[i - 1] \o seqs[i]
           Flat(n, f) == /\ f = [i \in 1 .. n |-> Next1(f, i)]
                         /\ \A i \in 1 .. n : f[i] \in Seq(S)
           N == Len(seqs)
           Bad == {n \in Nat \ {0} : n <= N /\ ~\E f : Flat(n, f)}
<1>1. N \in Nat /\ \A i \in 1 .. N : seqs[i] \in Seq(S)
  OBVIOUS
<1>2. Bad = {}
  <2> SUFFICES ASSUME Bad # {} PROVE FALSE
    OBVIOUS
  <2> DEFINE n == Min(Bad)
  <2>1. n \in Bad /\ \A m \in Bad : n <= m
    <3>1. Bad \in SUBSET Nat
      OBVIOUS
    <3> QED BY <3>1, MinIsOne
  <2> HIDE DEF n
  <2>2. CASE n = 1
    <3> DEFINE f == [i \in 1 .. 1 |-> seqs[1]]
    <3>1. f = [i \in 1 .. 1 |-> Next1(f, i)]
      OBVIOUS
    <3>2. \A i \in 1 .. 1 : f[i] \in Seq(S)
      BY <1>1, <2>1, <2>2
    <3> QED BY <2>1, <2>2, <3>1, <3>2
  <2>3. CASE n # 1
    <3>1. n - 1 \in Nat \ {0} /\ n - 1 <= N /\ n - 1 \notin Bad /\ n \in Nat /\ n <= N
      <4>1. n \in Nat \ {0} /\ n <= N
        BY <2>1
      <4>2. n - 1 \in Nat \ {0} /\ n - 1 <= N /\ ~(n <= n - 1)
        BY <1>1, <2>3, <4>1
      <4> HIDE DEF Bad
      <4> QED BY <2>1, <4>1, <4>2
    <3>2. PICK f : Flat(n - 1, f)
      <4>1. \E f : Flat(n - 1, f)
        BY <3>1, Zenon
      <4> QED BY <4>1, Zenon
    <3> DEFINE g == [i \in 1 .. n |-> IF i = n THEN f[n - 1] \o seqs[n] ELSE f[i]]
    <3>3. \A i \in 1 .. n - 1 : g[i] = f[i] /\ f[i] = Next1(f, i) /\ f[i] \in Seq(S)
      <4> TAKE i \in 1 .. n - 1
      <4>1. i \in 1 .. n /\ i # n
        BY <3>1
      <4>2. g[i] = f[i]
        BY <4>1
      <4>3. f[i] = Next1(f, i)
        BY <3>2, Zenon
      <4> QED BY <3>2, <4>2, <4>3, Zenon
    <3>4. \A i \in 1 .. n : g[i] = Next1(g, i) /\ g[i] \in Seq(S)
      <4> TAKE i \in 1 .. n
      <4>1. CASE i = n
        <5>1. /\ g[i] = f[n - 1] \o seqs[n] /\ g[n - 1] = f[n - 1] /\ f[n - 1] \in Seq(S)
              /\ seqs[n] \in Seq(S)
          <6>1. n - 1 \in 1 .. n - 1 /\ n \in 1 .. n /\ n \in 1 .. N
            BY <1>1, <3>1
          <6>2. g[n] = f[n - 1] \o seqs[n]
            BY <6>1
          <6> HIDE DEF g, Next1
          <6> QED BY <1>1, <3>3, <4>1, <6>1, <6>2
        <5>2. f[n - 1] \o seqs[n] \in Seq(S)
          BY <5>1
        <5> HIDE DEF g
        <5> QED BY <2>3, <4>1, <5>1, <5>2
      <4>2. CASE i # n
        <5>1. i \in 1 .. n - 1 /\ (i # 1 => i - 1 \in 1 .. n - 1)
          BY <3>1, <4>2
        <5>2. g[i] = f[i] /\ f[i] = Next1(f, i) /\ f[i] \in Seq(S) /\ (i # 1 => g[i - 1] = f[i - 1])
          BY <3>3, <5>1
        <5> HIDE DEF g
        <5> QED BY <5>2
      <4> QED BY <4>1, <4>2
    <3>5. g = [i \in 1 .. n |-> g[i]]
      OBVIOUS
    <3> HIDE DEF g
    <3>6. g = [i \in 1 .. n |-> Next1(g, i)]
      BY <3>4, <3>5
    <3> QED BY <2>1, <3>4, <3>6
  <2> QED BY <2>2, <2>3
<1>3. N # 0 /\ N \in Nat \ {0} /\ N <= N
  BY <1>1
<1> DEFINE flatten == CHOOSE f : f = [i \in 1 .. N |-> Next1(f, i)]
<1>4. N \notin Bad
  <2> HIDE DEF Bad
  <2> QED BY <1>2
<1>5. PICK f : Flat(N, f)
  <2>1. \E f : Flat(N, f)
    BY <1>3, <1>4, Zenon
  <2> QED BY <2>1, Zenon
<1>6. flatten = [i \in 1 .. N |-> Next1(flatten, i)]
  BY <1>5, Zenon
<1>7. FlattenSeq(seqs) = flatten[N]
  BY <1>3 DEF FlattenSeq
<1> HIDE DEF flatten
<1>8. \A i \in 1 .. N : flatten[i] = Next1(flatten, i)
  BY <1>6
<1> QED BY <1>7, <1>8

(* The sizes of all formats in a row are a sequence of sizes, and there    *)
(* are some if a format has any.                                           *)
LEMMA FlattenIsSeq ==
  ASSUME NEW S, NEW seqs \in Seq(Seq(S))
  PROVE  /\ FlattenSeq(seqs) \in Seq(S)
         /\ (\E i \in DOMAIN seqs : seqs[i] # <<>>) => FlattenSeq(seqs) # <<>>
<1> DEFINE N == Len(seqs)
<1>1. N \in Nat /\ DOMAIN seqs = 1 .. N /\ \A i \in 1 .. N : seqs[i] \in Seq(S)
  OBVIOUS
<1>2. CASE seqs = <<>>
  <2>1. FlattenSeq(seqs) = seqs
    BY <1>2 DEF FlattenSeq
  <2>2. seqs \in Seq(S) /\ DOMAIN seqs = {}
    BY <1>2
  <2> QED BY <2>1, <2>2
<1>3. CASE seqs # <<>>
  <2>1. PICK f : /\ FlattenSeq(seqs) = f[N]
                 /\ \A i \in 1 .. N : f[i] = IF i = 1 THEN seqs[i] ELSE f[i - 1] \o seqs[i]
    BY <1>3, FlattenGrows
  <2>2. N \in 1 .. N
    BY <1>1, <1>3
  <2> HIDE DEF N
  <2> DEFINE Full(n) == \E i \in 1 .. n : seqs[i] # <<>>
             Right(n) == f[n] \in Seq(S) /\ (Full(n) => f[n] # <<>>)
             Odd == {n \in 1 .. N : ~Right(n)}
             m == Min(Odd)
  <2>3. Odd = {}
    <3> SUFFICES ASSUME Odd # {} PROVE FALSE
      OBVIOUS
    <3>1. m \in Odd /\ \A n \in Odd : m <= n
      <4>1. Odd \in SUBSET Nat
        BY <1>1
      <4> QED BY <4>1, MinIsOne
    <3> HIDE DEF m
    <3>2. /\ f[m] = IF m = 1 THEN seqs[m] ELSE f[m - 1] \o seqs[m]
          /\ seqs[m] \in Seq(S) /\ m \in 1 .. N /\ ~Right(m)
      BY <1>1, <2>1, <3>1
    <3>3. CASE m = 1
      <4>1. Full(1) => seqs[1] # <<>>
        OBVIOUS
      <4> QED BY <3>2, <3>3, <4>1
    <3>4. CASE m # 1
      <4>1. m - 1 \in 1 .. N /\ ~(m <= m - 1)
        BY <1>1, <3>2, <3>4
      <4>2. Right(m - 1)
        <5> HIDE DEF Right
        <5> QED BY <3>1, <4>1
      <4>3. Full(m) => Full(m - 1) \/ seqs[m] # <<>>
        <5>1. \A i \in 1 .. m : i \in 1 .. m - 1 \/ i = m
          BY <3>2
        <5> QED BY <5>1
      <4>4. f[m - 1] \in Seq(S) /\ (Full(m - 1) => f[m - 1] # <<>>)
        BY <4>2
      <4> HIDE DEF Full
      <4>5. /\ f[m - 1] \o seqs[m] \in Seq(S)
            /\ f[m - 1] # <<>> \/ seqs[m] # <<>> => f[m - 1] \o seqs[m] # <<>>
        BY <3>2, <4>4
      <4>6. Right(m)
        BY <3>2, <3>4, <4>3, <4>4, <4>5
      <4> QED BY <3>2, <4>6
    <3> QED BY <3>3, <3>4
  <2>4. Right(N)
    <3> HIDE DEF Right
    <3> QED BY <2>2, <2>3
  <2> QED BY <1>1, <2>1, <2>4
<1> QED BY <1>2, <1>3

-----------------------------------------------------------------------------
(* The fields of formats, images and conversions: no step adds or removes  *)
(* any.                                                                    *)
FormatFields     == {"fmt", "w", "h", "image"}
ImageFields      == {"fmt", "w", "h", "processed", "rotated", "hflip", "vflip"}
ConversionFields == {"buf", "fmt", "do_process", "ok"}

IsFormat(f)     == f = [x \in FormatFields |-> f[x]]
IsImage(i)      == i = [x \in ImageFields |-> i[x]]
IsConversion(p) == p = [x \in ConversionFields |-> p[x]] /\ p.buf = [b \in Buffers |-> p.buf[b]]

(* A row of the table of one of the formats, with a bit in a mask.         *)
RowWithBit(c, fmts, i) ==
  /\ i \in DOMAIN supported_src_pixfmts /\ supported_src_pixfmts[i].fmt \in fmts
  /\ Bits(c, i) # {}

(* A row with a bit is in the mask of its format; nothing is in the mask   *)
(* of formats without one.                                                 *)
LEMMA MaskRows ==
  ASSUME NEW c, NEW fmts
  PROVE  LET rows == RowsOf(c, Mask(c, fmts))
         IN  /\ rows \subseteq DOMAIN supported_src_pixfmts
             /\ \A i : RowWithBit(c, fmts, i) => i \in rows
             /\ rows # {} => \E i : RowWithBit(c, fmts, i)
<1>1. \A i : RowWithBit(c, fmts, i) => Bits(c, i) \subseteq Mask(c, fmts)
  BY DEF Mask, RowWithBit
<1>2. Mask(c, fmts) # {} => \E i : RowWithBit(c, fmts, i)
  BY DEF Mask, RowWithBit
<1> QED BY <1>1, <1>2 DEF RowsOf, RowWithBit

LEMMA MasksGrow ==
  ASSUME NEW c, NEW fmts, NEW more, fmts \subseteq more
  PROVE  RowsOf(c, Mask(c, fmts)) \subseteq RowsOf(c, Mask(c, more))
<1>1. Mask(c, fmts) \subseteq Mask(c, more)
  BY DEF Mask
<1> QED BY <1>1 DEF RowsOf

(* The formats libv4lconvert knows of those a camera has; those of them it *)
(* is known to have.                                                       *)
Known(c) == ToSet(c.formats) \cap SrcFormats
Own(c)   == ToSet(c.formats) \cap SupportedSrc(c)

(* The formats of a camera, and their sizes.                               *)
LEMMA CameraFormats ==
  ASSUME NEW c \in Cameras
  PROVE  /\ DOMAIN c.formats = 1 .. Len(c.formats) /\ Len(c.formats) \in Nat
         /\ c.formats[1] \in ToSet(c.formats)
         /\ \A f : Contains(c.formats, f) <=> f \in ToSet(c.formats)
         /\ "none" \notin ToSet(c.formats)
         /\ SupportedSrc(c) \subseteq SrcFormats
         /\ \A f \in Own(c) : \E i : RowWithBit(c, {f}, i)
         /\ SupportedSrc(c) # {} => Own(c) # {}
         /\ \A f \in ToSet(c.formats) : /\ c.sizes[f] \in Seq(Nat \X Nat)
                                        /\ Range(c.sizes[f]) # {} /\ Range(c.sizes[f]) \subseteq Nat \X Nat
<1>1. /\ c.formats \in Seq(STRING) /\ c.formats # <<>> /\ ~Contains(c.formats, "none")
      /\ DOMAIN c.sizes = ToSet(c.formats)
      /\ \A f \in DOMAIN c.sizes : c.sizes[f] \in Seq(Nat \X Nat) /\ c.sizes[f] # <<>>
  BY FormatsAssumption
<1>2. /\ DOMAIN c.formats = 1 .. Len(c.formats) /\ Len(c.formats) \in Nat /\ Len(c.formats) # 0
  BY <1>1
<1>3. /\ c.formats[1] \in ToSet(c.formats)
      /\ \A f : Contains(c.formats, f) <=> f \in ToSet(c.formats)
  BY <1>2 DEF Contains, ToSet
<1>4. SupportedSrc(c) \subseteq SrcFormats
  BY MaskRows DEF SupportedSrc, SupportedRows, supported_src_formats, SrcFormats
<1>6. \A f \in Own(c) : \E i : RowWithBit(c, {f}, i)
  BY DEF Own, SupportedSrc, SupportedRows, RowsOf, RowWithBit
<1>7. SupportedSrc(c) # {} => Own(c) # {}
  <2> HAVE SupportedSrc(c) # {}
  <2>1. PICK i : RowWithBit(c, ToSet(c.formats), i)
    BY MaskRows DEF SupportedSrc, SupportedRows, supported_src_formats
  <2>2. i \in SupportedRows(c)
    BY <2>1, MaskRows DEF SupportedRows, supported_src_formats
  <2> QED BY <2>1, <2>2 DEF RowWithBit, SupportedSrc, Own
<1>5. ASSUME NEW s \in Seq(Nat \X Nat), s # <<>>
      PROVE  Range(s) # {} /\ Range(s) \subseteq Nat \X Nat
  <2>1. /\ Len(s) \in Nat /\ Len(s) # 0 /\ DOMAIN s = 1 .. Len(s)
        /\ \A i \in 1 .. Len(s) : s[i] \in Nat \X Nat
    BY <1>5
  <2>2. s[1] \in Range(s)
    BY <2>1 DEF Range
  <2> QED BY <2>1, <2>2 DEF Range
<1> QED BY <1>1, <1>2, <1>3, <1>4, <1>5, <1>6, <1>7

(* What the driver answers to TRY_FMT.                                     *)
LEMMA DriverAnswers ==
  ASSUME NEW c \in Cameras, NEW fmt, NEW w \in Int, NEW h \in Int
  PROVE  LET d == DriverTryFmt(c, fmt, w, h)
         IN  /\ IsFormat(d) /\ d.fmt \in ToSet(c.formats)
             /\ fmt \in ToSet(c.formats) => d.fmt = fmt
             /\ d.w \in Nat /\ d.h \in Nat /\ d.image = DriverImage(d.fmt, d.w, d.h)
<1> DEFINE f == IF Contains(c.formats, fmt) THEN fmt ELSE c.formats[1]
           s == Closest(c.sizes[f], <<w, h>>)
           d == DriverTryFmt(c, fmt, w, h)
<1>1. f \in ToSet(c.formats) /\ (fmt \in ToSet(c.formats) => f = fmt)
  BY CameraFormats
<1> HIDE DEF f
<1>2. s \in Nat \X Nat
  <2>1. <<w, h>> \in Int \X Int
    OBVIOUS
  <2> QED BY <1>1, <2>1, CameraFormats, ClosestIsOne
<1> HIDE DEF s
<1>3. d = Format(f, s[1], s[2], DriverImage(f, s[1], s[2]))
  BY Zenon DEF DriverTryFmt, f, s
<1>4. \A i : LET e == Format(f, s[1], s[2], i)
             IN  IsFormat(e) /\ e.fmt = f /\ e.w = s[1] /\ e.h = s[2] /\ e.image = i
  BY DEF Format, IsFormat, FormatFields
<1> QED BY <1>1, <1>2, <1>3, <1>4

(* What the driver has answered, it gives when it is asked for.            *)
LEMMA DriverKeepsIts ==
  ASSUME NEW c \in Cameras, NEW fmt, NEW w \in Int, NEW h \in Int
  PROVE  LET d == DriverTryFmt(c, fmt, w, h)
         IN  DriverTryFmt(c, d.fmt, d.w, d.h) = d
<1> DEFINE f == IF Contains(c.formats, fmt) THEN fmt ELSE c.formats[1]
           s == Closest(c.sizes[f], <<w, h>>)
           d == DriverTryFmt(c, fmt, w, h)
<1>1. f \in ToSet(c.formats) /\ Contains(c.formats, f)
  BY CameraFormats
<1> HIDE DEF f
<1>2. s \in Range(c.sizes[f]) /\ s \in Nat \X Nat /\ Closest(c.sizes[f], s) = s
  <2>1. <<w, h>> \in Int \X Int
    OBVIOUS
  <2>2. s \in Range(c.sizes[f]) /\ Range(c.sizes[f]) \subseteq Nat \X Nat
    BY <1>1, <2>1, CameraFormats, ClosestIsOne
  <2> HIDE DEF s
  <2> QED BY <2>2, ClosestFixed
<1> HIDE DEF s
<1>3. d = Format(f, s[1], s[2], DriverImage(f, s[1], s[2]))
  BY Zenon DEF DriverTryFmt, f, s
<1> HIDE DEF d
<1>4. d.fmt = f /\ d.w = s[1] /\ d.h = s[2] /\ <<s[1], s[2]>> = s
  BY <1>2, <1>3 DEF Format
<1>5. DriverTryFmt(c, f, s[1], s[2]) = d
  BY <1>1, <1>2, <1>3, <1>4, Zenon DEF DriverTryFmt
<1> QED BY <1>4, <1>5 DEF d

(* In the four formats an image of the driver has the length needed.       *)
LEMMA FourImages ==
  ASSUME NEW f \in FourFormats, NEW w \in Nat, NEW h \in Nat
  PROVE  DriverImage(f, w, h) = Needed(f, w, h) /\ Needed(f, w, h) \in Int
<1> DEFINE a == w * h
<1>1. a \in Nat
  OBVIOUS
<1>2. f \in SrcFormats
  BY FourAreSources
<1>3. CASE f \in {"RGB24", "BGR24"}
  <2>1. SrcRow(f).bpp = 24
    BY <1>3, FourRows
  <2>2. DriverImage(f, w, h) = (a * 24) \div 8 /\ Needed(f, w, h) = a * 3
    BY <1>2, <1>3, <2>1 DEF DriverImage, Needed
  <2> HIDE DEF a
  <2>3. (a * 24) \div 8 = a * 3
    BY <1>1
  <2> QED BY <1>1, <2>2, <2>3
<1>4. CASE f \in {"YUV420", "YVU420"}
  <2>1. SrcRow(f).bpp = 12
    BY <1>4, FourRows
  <2>2. DriverImage(f, w, h) = (a * 12) \div 8 /\ Needed(f, w, h) = (a * 3) \div 2
    BY <1>2, <1>4, <2>1 DEF DriverImage, Needed
  <2> HIDE DEF a
  <2>3. (a * 12) \div 8 = (a * 3) \div 2
    BY <1>1
  <2> QED BY <1>1, <2>2, <2>3
<1> QED BY <1>3, <1>4 DEF FourFormats

(* A rank is no less than 0.                                               *)
LEMMA RankIsNat ==
  ASSUME NEW c \in Cameras, NEW f \in SrcFormats, NEW w \in Nat, NEW h \in Nat, NEW dest
  PROVE  v4lconvert_get_rank(c, f, w, h, dest) \in Nat
<1> DEFINE row == SrcRow(f)
           needed == (w * h * FPS * row.bpp) \div 8
           rank == IF dest \in {"RGB24", "BGR24"} THEN row.rgb_rank ELSE row.yuv_rank
           x == IF f = dest THEN 1 ELSE 0
           y == IF c.bandwidth # 0 /\ needed > c.bandwidth THEN 10 ELSE 0
<1>1. rank \in Nat \ {0} /\ x \in {0, 1} /\ y \in {0, 10}
  BY SrcRows DEF TableRow
<1>2. v4lconvert_get_rank(c, f, w, h, dest) = rank - x + y
  BY DEF v4lconvert_get_rank
<1> HIDE DEF rank, x, y
<1> QED BY <1>1, <1>2

(* The sizes offered are sizes; each is one of a format libv4lconvert      *)
(* knows, and there are some if there is such a format.                    *)
KnownSizes(c) == {s \in Nat \X Nat : \E f \in Known(c) : Contains(c.sizes[f], s)}

LEMMA FramesizesAreSizes ==
  ASSUME NEW c \in Cameras
  PROVE  /\ framesizes(c) \in Seq(Nat \X Nat)
         /\ framesizes(c) \in Seq(KnownSizes(c))
         /\ SupportedSrc(c) # {} => framesizes(c) # <<>>
<1> DEFINE s == [i \in DOMAIN c.formats |->
                    IF c.formats[i] \in SrcFormats THEN c.sizes[c.formats[i]] ELSE <<>>]
<1>1. /\ Len(c.formats) \in Nat /\ DOMAIN c.formats = 1 .. Len(c.formats)
      /\ \A i \in DOMAIN c.formats : /\ c.formats[i] \in ToSet(c.formats)
                                     /\ c.sizes[c.formats[i]] \in Seq(Nat \X Nat)
  BY CameraFormats DEF ToSet
<1>2. \A S : <<>> \in Seq(S)
  OBVIOUS
<1>3. ASSUME NEW f \in Known(c)
      PROVE  c.sizes[f] \in Seq(KnownSizes(c)) /\ c.sizes[f] # <<>>
  <2> DEFINE t == c.sizes[f]
  <2>1. f \in ToSet(c.formats) /\ t \in Seq(Nat \X Nat) /\ Range(t) # {}
    BY CameraFormats DEF Known
  <2> HIDE DEF t
  <2>2. t # <<>>
    BY <2>1 DEF Range
  <2>3. \A i \in 1 .. Len(t) : t[i] \in Nat \X Nat /\ Contains(t, t[i])
    BY <2>1 DEF Contains
  <2>4. \A i \in 1 .. Len(t) : t[i] \in KnownSizes(c)
    BY <2>3 DEF KnownSizes, t
  <2>5. t \in Seq(KnownSizes(c))
    BY <2>1, <2>4
  <2> QED BY <2>2, <2>5 DEF t
<1>4. \A i \in DOMAIN c.formats : c.formats[i] \in SrcFormats => c.formats[i] \in Known(c)
  BY <1>1 DEF Known
<1>5. /\ s \in [1 .. Len(c.formats) -> Seq(Nat \X Nat)]
      /\ s \in [1 .. Len(c.formats) -> Seq(KnownSizes(c))]
  BY <1>1, <1>2, <1>3, <1>4
<1>6. s \in Seq(Seq(Nat \X Nat)) /\ s \in Seq(Seq(KnownSizes(c)))
  BY <1>1, <1>5
<1>7. SupportedSrc(c) # {} => \E i \in DOMAIN s : s[i] # <<>>
  <2> HAVE SupportedSrc(c) # {}
  <2>1. PICK i \in DOMAIN c.formats : c.formats[i] \in Known(c)
    <3>1. PICK f \in Own(c) : f \in Known(c)
      BY CameraFormats DEF Own, Known
    <3> QED BY <3>1 DEF Known, ToSet
  <2>2. c.formats[i] \in SrcFormats
    BY <2>1 DEF Known
  <2>3. s[i] = c.sizes[c.formats[i]]
    BY <2>1, <2>2
  <2>4. i \in DOMAIN s /\ s[i] # <<>>
    <3>1. c.sizes[c.formats[i]] # <<>>
      BY <1>3, <2>1
    <3>2. DOMAIN s = DOMAIN c.formats
      OBVIOUS
    <3> HIDE DEF s
    <3> QED BY <2>1, <2>3, <3>1, <3>2
  <2> HIDE DEF s
  <2> QED BY <2>4
<1>8. framesizes(c) = FlattenSeq(s)
  BY Zenon DEF framesizes
<1> HIDE DEF s
<1> QED BY <1>6, <1>7, <1>8, FlattenIsSeq

LEMMA EnumeratedAreSizes ==
  ASSUME NEW c \in Cameras, NEW fmt
  PROVE  ToSet(v4lconvert_enum_framesizes(c, fmt)) \subseteq Nat \X Nat
<1>1. \A s \in Nat \X Nat : Rounded(s) \in Nat \X Nat
  BY DEF Rounded
<1>2. \A s \in Seq(Nat \X Nat) : \A i \in DOMAIN s : s[i] \in Nat \X Nat
  OBVIOUS
<1>3. <<>> \in Seq(Nat \X Nat)
  OBVIOUS
<1>4. CASE v4lconvert_supported_dst_format(fmt)
  <2> DEFINE s == framesizes(c)
  <2>1. v4lconvert_enum_framesizes(c, fmt) = [i \in DOMAIN s |-> Rounded(s[i])]
    BY <1>4 DEF v4lconvert_enum_framesizes
  <2>2. \A i \in DOMAIN s : Rounded(s[i]) \in Nat \X Nat
    BY <1>1, <1>2, FramesizesAreSizes
  <2> HIDE DEF s
  <2> QED BY <2>1, <2>2 DEF ToSet
<1>5. CASE ~v4lconvert_supported_dst_format(fmt)
  <2>1. DOMAIN c.sizes = ToSet(c.formats)
    BY FormatsAssumption
  <2>2. v4lconvert_enum_framesizes(c, fmt) \in Seq(Nat \X Nat)
    BY <1>3, <1>5, <2>1, CameraFormats DEF v4lconvert_enum_framesizes
  <2> HIDE DEF v4lconvert_enum_framesizes
  <2> QED BY <1>2, <1>3, <2>2 DEF ToSet
<1> QED BY <1>4, <1>5

-----------------------------------------------------------------------------
(* The cameras PipelineDelivers is true of.  A sensor mounted sideways is  *)
(* known to libv4lcontrol for cameras that deliver JPEG only; the other    *)
(* decoders leave width and height as they are.  A UVC camera must not     *)
(* itself deliver a format libv4lconvert makes, nor one that it takes for  *)
(* one of those (none of uvcvideo's): do_try_format_uvc leaves its image   *)
(* size 0, and the pipeline finds the buffer too small.                    *)
Deliverable(c) ==
  /\ c.rotated => ToSet(c.formats) \subseteq Jpegs
  /\ c.uvc => SupportedSrc(c) \cap FourFormats = {}

TryFields == {"ok", "dest", "src"}
IsTry(t)  == t = [x \in TryFields |-> t[x]] /\ IsFormat(t.dest) /\ IsFormat(t.src)

HasSize(f) == f.w \in Nat /\ f.h \in Nat

(* A try for the format g has found a source format, one of the camera's   *)
(* if its mask has them right; no conversion keeps the length the driver   *)
(* gave.                                                                   *)
SourcesOf(c) == IF SupportedSrc(c) # {} /\ Unmistaken(c) THEN Own(c)
                ELSE SupportedSrc(c) \cup {"none"}

Tried(c, t, g) ==
  /\ IsTry(t) /\ t.dest.fmt = g /\ HasSize(t.dest) /\ HasSize(t.src)
  /\ IF t.ok THEN /\ t.src.fmt \in SourcesOf(c)
                  /\ t.src.fmt = g => /\ t.src.w \in Nat /\ t.src.h \in Nat
                                      /\ t.dest.image = DriverImage(g, t.src.w, t.src.h)
     ELSE SupportedSrc(c) = {}

LEMMA SourcesKnown ==
  ASSUME NEW c \in Cameras PROVE SourcesOf(c) \subseteq SrcFormats \cup {"none"}
BY CameraFormats DEF SourcesOf, Own

LEMMA ClosestFitIsSize ==
  ASSUME NEW sizes \in Seq(Nat \X Nat), NEW dest, HasSize(dest)
  PROVE  /\ ClosestFit(sizes, dest) \in Nat \X Nat
         /\ sizes # <<>> => \E i \in DOMAIN sizes : ClosestFit(sizes, dest) = sizes[i]
<1> DEFINE fits == {i \in DOMAIN sizes : sizes[i][1] <= dest.w /\ sizes[i][2] <= dest.h}
           cost == [i \in fits |-> <<SizeDiff(sizes[i], <<dest.w, dest.h>>), 0>>]
<1>1. /\ Len(sizes) \in Nat /\ DOMAIN sizes = 1 .. Len(sizes)
      /\ \A i \in DOMAIN sizes : sizes[i] \in Nat \X Nat
  OBVIOUS
<1>2. CASE sizes = <<>>
  <2>1. ClosestFit(sizes, dest) = <<0, 0>>
    BY <1>2 DEF ClosestFit
  <2> QED BY <1>2, <2>1
<1>3. CASE sizes # <<>> /\ fits = {}
  <2>1. ClosestFit(sizes, dest) = sizes[1]
    BY <1>3 DEF ClosestFit
  <2>2. 1 \in DOMAIN sizes
    BY <1>1, <1>3
  <2> QED BY <1>1, <2>1, <2>2
<1>4. CASE sizes # <<>> /\ fits # {}
  <2>1. ClosestFit(sizes, dest) = sizes[Best(cost)]
    BY <1>4 DEF ClosestFit
  <2>2. \A i \in fits : SizeDiff(sizes[i], <<dest.w, dest.h>>) \in Nat
    <3>1. <<dest.w, dest.h>> \in Int \X Int /\ Nat \X Nat \subseteq Int \X Int
      BY DEF HasSize
    <3> QED BY <1>1, <3>1, SizeDiffIsNat
  <2>3. cost \in [fits -> Nat \X Nat] /\ fits \in SUBSET Nat
    <3>1. fits \in SUBSET Nat
      BY <1>1
    <3> HIDE DEF fits
    <3> QED BY <2>2, <3>1
  <2>4. Best(cost) \in fits
    <3> HIDE DEF fits, cost
    <3> QED BY <1>4, <2>3, BestIsOne
  <2> HIDE DEF cost
  <2> QED BY <1>1, <2>1, <2>4
<1> QED BY <1>2, <1>3, <1>4

LEMMA UvcTries ==
  ASSUME NEW c \in Cameras, c.uvc, Deliverable(c), NEW dest, HasSize(dest), dest.fmt \in FourFormats
  PROVE  Tried(c, v4lconvert_do_try_format_uvc(c, dest), dest.fmt)
<1> DEFINE size == ClosestFit(framesizes(c), dest)
           t == supported_src_pixfmts
           having == {f \in ToSet(c.formats) : Contains(c.sizes[f], size)}
           cands == RowsOf(c, Mask(c, having))
           rank == [i \in cands |->
                      <<v4lconvert_get_rank(c, t[i].fmt, size[1], size[2], dest.fmt), 0>>]
           f == IF cands = {} THEN "none" ELSE t[Best(rank)].fmt
           src == Format(f, size[1], size[2], 0)
           r == [ok |-> TRUE, dest |-> Format(dest.fmt, size[1], size[2], 0), src |-> src]
<1>1. /\ size \in Nat \X Nat
      /\ SupportedSrc(c) # {} => \E k \in Known(c) : k \in having
  <2>1. size \in Nat \X Nat
    BY FramesizesAreSizes, ClosestFitIsSize
  <2>2. ASSUME SupportedSrc(c) # {} PROVE \E k \in Known(c) : k \in having
    <3> DEFINE s == framesizes(c)
    <3>1. s \in Seq(Nat \X Nat) /\ s \in Seq(KnownSizes(c)) /\ s # <<>>
      BY <2>2, FramesizesAreSizes
    <3>2. PICK i \in DOMAIN s : size = s[i]
      BY <3>1, ClosestFitIsSize
    <3> HIDE DEF s, size
    <3>3. size \in KnownSizes(c)
      BY <3>1, <3>2
    <3> QED BY <3>3 DEF KnownSizes, Known
  <2> QED BY <2>1, <2>2
<1> HIDE DEF size
<1>2. v4lconvert_do_try_format_uvc(c, dest) = r
  BY Zenon DEF v4lconvert_do_try_format_uvc, CheapestFormat, size, r, src, f, rank, cands, having, t
<1>3. cands \in SUBSET Nat /\ \A i \in cands : t[i].fmt \in SrcFormats /\ t[i].fmt \in SupportedSrc(c)
  <2>1. cands \subseteq SupportedRows(c)
    BY MasksGrow DEF SupportedRows, supported_src_formats
  <2>2. SupportedRows(c) \subseteq DOMAIN t
    BY DEF SupportedRows, RowsOf
  <2> HIDE DEF cands
  <2>3. cands \in SUBSET Nat
    BY <2>1, <2>2, SrcTable DEF StartsTable
  <2> QED BY <2>1, <2>2, <2>3 DEF SupportedSrc, SrcFormats
<1>9. SupportedSrc(c) # {} /\ Unmistaken(c) => cands # {}
  <2> HAVE SupportedSrc(c) # {} /\ Unmistaken(c)
  <2>1. PICK k \in Known(c) : k \in having
    BY <1>1
  <2>2. k \in Own(c)
    BY DEF Unmistaken, Own, Known
  <2>3. PICK i : RowWithBit(c, {k}, i)
    BY <2>2, CameraFormats
  <2>4. RowWithBit(c, having, i)
    BY <2>1, <2>3 DEF RowWithBit
  <2> QED BY <2>4, MaskRows
<1>4. cands # {} => Best(rank) \in cands
  <2>1. \A i \in cands : v4lconvert_get_rank(c, t[i].fmt, size[1], size[2], dest.fmt) \in Nat
    BY <1>1, <1>3, RankIsNat
  <2> HIDE DEF cands
  <2>2. rank \in [cands -> Nat \X Nat]
    BY <2>1
  <2> HIDE DEF rank
  <2> QED BY <1>3, <2>2, BestIsOne
<1> HIDE DEF cands, rank
<1>5. \A g, w, h, i : LET e == Format(g, w, h, i)
                     IN  IsFormat(e) /\ e.fmt = g /\ e.w = w /\ e.h = h /\ e.image = i
  BY DEF Format, IsFormat, FormatFields
<1>6. f \in SupportedSrc(c) \cup {"none"} /\ f \in SourcesOf(c)
  <2>1. CASE cands = {}
    BY <1>9, <2>1 DEF SourcesOf
  <2>2. CASE cands # {}
    <3>1. f \in SupportedSrc(c)
      BY <1>3, <1>4, <2>2
    <3> HIDE DEF f
    <3>2. Unmistaken(c) => f \in Own(c)
      BY <3>1 DEF Unmistaken, Own
    <3> QED BY <3>1, <3>2 DEF SourcesOf
  <2> QED BY <2>1, <2>2
<1> HIDE DEF f
<1>10. /\ IsFormat(src) /\ HasSize(src) /\ src.fmt = f
  BY <1>1, <1>5 DEF HasSize
<1>7. src.fmt # dest.fmt
  BY <1>6, <1>10 DEF Deliverable, FourFormats
<1> HIDE DEF src
<1>8. IsTry(r) /\ r.dest.fmt = dest.fmt /\ HasSize(r.dest) /\ r.ok = TRUE /\ r.src = src
  BY <1>1, <1>5, <1>10 DEF IsTry, TryFields, HasSize
<1> HIDE DEF r
<1> QED BY <1>2, <1>6, <1>7, <1>8, <1>10 DEF Tried

LEMMA Tries ==
  ASSUME NEW c \in Cameras, Deliverable(c),
         NEW dest, IsFormat(dest), HasSize(dest), dest.fmt \in FourFormats
  PROVE  Tried(c, v4lconvert_do_try_format(c, dest), dest.fmt)
<1> DEFINE t == supported_src_pixfmts
           try(i) == DriverTryFmt(c, t[i].fmt, dest.w, dest.h)
           cands == {i \in SupportedRows(c) : try(i).fmt = t[i].fmt}
           cost == [i \in cands |-> Cost(c, try(i), dest)]
           r == v4lconvert_do_try_format(c, dest)
<1>1. CASE c.uvc
  BY <1>1, UvcTries, Zenon DEF v4lconvert_do_try_format
<1>2. cands \in SUBSET Nat /\ \A i \in cands : /\ t[i].fmt \in SrcFormats
                                             /\ t[i].fmt \in ToSet(c.formats)
                                             /\ t[i].fmt \in SourcesOf(c)
  <2>1. SupportedRows(c) \subseteq DOMAIN t
    BY DEF SupportedRows, RowsOf
  <2>2. cands \in SUBSET Nat
    BY <2>1, SrcTable DEF StartsTable
  <2>3. \A i \in cands : t[i].fmt \in ToSet(c.formats)
    BY DriverAnswers DEF HasSize
  <2>4. \A i \in cands : t[i].fmt \in SupportedSrc(c)
    BY DEF SupportedSrc
  <2> QED BY <2>2, <2>3, <2>4, CameraFormats DEF SourcesOf, Own
<1>3. CASE ~c.uvc /\ cands = {}
  <2>1. r = [ok |-> FALSE, dest |-> dest, src |-> NoFormat]
    BY <1>3, Zenon DEF v4lconvert_do_try_format
  <2>2. SupportedSrc(c) = {}
    <3> SUFFICES ASSUME SupportedSrc(c) # {} PROVE FALSE
      OBVIOUS
    <3>1. PICK f \in Own(c) : TRUE
      BY CameraFormats
    <3>2. PICK i \in SupportedRows(c) : t[i].fmt = f
      BY DEF Own, SupportedSrc
    <3>3. try(i).fmt = t[i].fmt
      BY <3>2, DriverAnswers DEF Own, HasSize
    <3> QED BY <1>3, <3>3
  <2>3. IsFormat(NoFormat) /\ HasSize(NoFormat)
    BY DEF NoFormat, Format, IsFormat, FormatFields, HasSize
  <2> HIDE DEF r
  <2>4. IsTry(r) /\ r.dest = dest /\ r.src = NoFormat /\ r.ok = FALSE
    BY <2>1, <2>3 DEF IsTry, TryFields
  <2> QED BY <2>2, <2>3, <2>4 DEF Tried, r
<1>4. CASE ~c.uvc /\ cands # {}
  <2>1. \A i \in cands : LET d == try(i)
                         IN  /\ IsFormat(d) /\ d.fmt = t[i].fmt /\ d.w \in Nat /\ d.h \in Nat
                             /\ d.image = DriverImage(d.fmt, d.w, d.h)
    BY <1>2, DriverAnswers DEF HasSize
  <2>2. \A i \in cands : Cost(c, try(i), dest) \in Nat \X Nat
    <3> TAKE i \in cands
    <3> DEFINE d == try(i)
    <3>1. d.fmt \in SrcFormats /\ d.w \in Nat /\ d.h \in Nat
      BY <1>2, <2>1
    <3> HIDE DEF d
    <3>2. v4lconvert_get_rank(c, d.fmt, d.w, d.h, dest.fmt) \in Nat
      BY <3>1, RankIsNat
    <3>3. SizeDiff(<<d.w, d.h>>, <<dest.w, dest.h>>) \in Nat
      BY <3>1, SizeDiffIsNat DEF HasSize
    <3>4. Cost(c, d, dest) \in Nat \X Nat
      BY <3>2, <3>3 DEF Cost
    <3> QED BY <3>4 DEF d
  <2> DEFINE b == Best(cost)
             d == try(b)
             e == [d EXCEPT !.fmt = dest.fmt]
  <2>3. b \in cands
    <3> HIDE DEF cands, try
    <3>1. cost \in [cands -> Nat \X Nat]
      BY <2>2
    <3> HIDE DEF cost
    <3> QED BY <1>2, <1>4, <3>1, BestIsOne
  <2>4. r = [ok |-> TRUE, dest |-> e, src |-> d]
    BY <1>4, Zenon DEF v4lconvert_do_try_format, ConvertedFrom
  <2> HIDE DEF b
  <2>5. /\ IsFormat(d) /\ d.fmt \in SourcesOf(c) /\ d.w \in Nat /\ d.h \in Nat
        /\ d.image = DriverImage(d.fmt, d.w, d.h)
    BY <1>2, <2>1, <2>3
  <2> HIDE DEF d
  <2>6. IsFormat(e) /\ e.fmt = dest.fmt /\ e.w = d.w /\ e.h = d.h /\ e.image = d.image
    BY <2>5 DEF IsFormat, FormatFields
  <2> HIDE DEF e, r
  <2>7. IsTry(r) /\ r.ok = TRUE /\ r.dest = e /\ r.src = d
    BY <2>4, <2>5, <2>6 DEF IsTry, TryFields
  <2>8. HasSize(e) /\ HasSize(d)
    BY <2>5, <2>6 DEF HasSize
  <2>9. d.fmt = dest.fmt => e.image = DriverImage(dest.fmt, d.w, d.h)
    BY <2>5, <2>6
  <2> QED BY <2>5, <2>6, <2>7, <2>8, <2>9 DEF Tried, r
<1> QED BY <1>1, <1>3, <1>4

(* A retry at another size changes nothing of that.                        *)
LEMMA RetryTries ==
  ASSUME NEW c \in Cameras, Deliverable(c),
         NEW dest, IsFormat(dest), HasSize(dest), dest.fmt \in FourFormats,
         NEW w \in Nat, NEW h \in Nat, NEW first, Tried(c, first, dest.fmt), NEW boxes
  PROVE  Tried(c, Retry(c, dest, w, h, first, boxes), dest.fmt)
<1> DEFINE d == [dest EXCEPT !.w = w, !.h = h]
           second == v4lconvert_do_try_format(c, d)
           t == [second EXCEPT !.dest.w = dest.w, !.dest.h = dest.h]
<1>1. IsFormat(d) /\ HasSize(d) /\ d.fmt = dest.fmt
  BY DEF IsFormat, FormatFields, HasSize
<1> HIDE DEF d
<1>2. Tried(c, second, dest.fmt)
  BY <1>1, Tries
<1>3. Retry(c, dest, w, h, first, boxes) \in {first, t}
  BY DEF Retry, Accepted, d
<1> HIDE DEF second
<1>4. Tried(c, t, dest.fmt)
  <2> DEFINE e == [second.dest EXCEPT !.w = dest.w, !.h = dest.h]
  <2>1. /\ IsFormat(e) /\ HasSize(e) /\ e.fmt = second.dest.fmt /\ e.image = second.dest.image
    BY <1>2 DEF Tried, IsTry, IsFormat, FormatFields, HasSize
  <2>2. t = [second EXCEPT !.dest = e]
    BY <1>2 DEF Tried, IsTry, TryFields, IsFormat, FormatFields
  <2> HIDE DEF e, t
  <2>3. /\ t = [x \in TryFields |-> t[x]] /\ t.dest = e /\ t.src = second.src /\ t.ok = second.ok
    BY <1>2, <2>2 DEF Tried, IsTry, TryFields
  <2> QED BY <1>2, <2>1, <2>3 DEF Tried, IsTry
<1> HIDE DEF t
<1> QED BY <1>3, <1>4

(* What v4lconvert_try_format answers for the image g: either what the     *)
(* driver says, of a format libv4lconvert does not make, or an image long  *)
(* enough and the format it is made of.                                    *)
Answered(r) ==
  /\ IsFormat(r.src) /\ HasSize(r.src) /\ HasSize(r.dest)
  /\ \/ r.src = r.dest /\ r.dest.fmt \notin FourFormats
     \/ /\ r.src.fmt \in SrcFormats \cup {"none"}
        /\ r.dest.fmt \in FourFormats
        /\ r.dest.image >= Needed(r.dest.fmt, r.dest.w, r.dest.h)

(* The arithmetic of sizes.                                                *)
LEMMA NeededIsInt ==
  ASSUME NEW f, NEW w \in Int, NEW h \in Int
  PROVE  Needed(f, w, h) \in Int
<1>1. w * h * 3 \in Int /\ (w * h * 3) \div 2 \in Int
  OBVIOUS
<1> QED BY <1>1 DEF Needed

LEMMA RoundedIsSize ==
  ASSUME NEW w \in Nat, NEW h \in Nat
  PROVE  Rounded(<<w, h>>)[1] \in Nat /\ Rounded(<<w, h>>)[2] \in Nat
BY DEF Rounded

LEMMA SettledAnswers ==
  ASSUME NEW c \in Cameras, NEW dest, HasSize(dest), NEW t,
         dest.fmt \in FourFormats => Tried(c, t, dest.fmt)
  PROVE  Answered(Settled(c, dest, t))
<1> DEFINE size == Rounded(<<t.dest.w, t.dest.h>>)
           final == [t.dest EXCEPT !.w = size[1], !.h = size[2]]
           native == DriverTryFmt(c, dest.fmt, dest.w, dest.h)
           left == dest.fmt \notin FourFormats \/ ~t.ok
           same == final.w = t.src.w /\ final.h = t.src.h /\ final.fmt = t.src.fmt
           d == IF same THEN final ELSE v4lconvert_fixup_fmt(final)
<1>1. Settled(c, dest, t) = IF left THEN [dest |-> native, src |-> native]
                            ELSE [dest |-> d, src |-> t.src]
  BY DstFormats, Zenon DEF Settled
<1>2. CASE left
  <2>1. /\ IsFormat(native) /\ native.w \in Nat /\ native.h \in Nat
        /\ native.fmt \in ToSet(c.formats)
        /\ native.image = DriverImage(native.fmt, native.w, native.h)
    BY DriverAnswers DEF HasSize
  <2> DEFINE r == Settled(c, dest, t)
  <2>2. r.dest = native /\ r.src = native
    BY <1>1, <1>2
  <2> HIDE DEF native, r
  <2>3. IsFormat(native) /\ HasSize(native)
    BY <2>1 DEF HasSize
  <2>4. native.fmt \in FourFormats => /\ native.fmt \in SrcFormats
                                      /\ native.image >= Needed(native.fmt, native.w, native.h)
    BY <2>1, FourAreSources, FourImages
  <2>5. Answered(r)
    BY <2>2, <2>3, <2>4 DEF Answered
  <2> QED BY <2>5 DEF r
<1>3. CASE ~left
  <2>1. Tried(c, t, dest.fmt) /\ t.ok /\ dest.fmt \in FourFormats
    BY <1>3
  <2>2. size[1] \in Nat /\ size[2] \in Nat
    BY <2>1, RoundedIsSize DEF Tried, HasSize
  <2> HIDE DEF size
  <2>3. /\ IsFormat(final) /\ final.fmt = dest.fmt /\ HasSize(final)
        /\ final.w = size[1] /\ final.h = size[2] /\ final.image = t.dest.image
    BY <2>1, <2>2 DEF Tried, IsTry, IsFormat, FormatFields, HasSize
  <2> HIDE DEF final
  <2>4. CASE same
    <3>1. d = final
      BY <2>4
    <3>2. /\ t.src.w \in Nat /\ t.src.h \in Nat
          /\ final.image = DriverImage(final.fmt, final.w, final.h)
          /\ final.w \in Nat /\ final.h \in Nat /\ final.fmt \in FourFormats
      BY <2>1, <2>3, <2>4 DEF Tried
    <3>3. final.image >= Needed(final.fmt, final.w, final.h)
      BY <3>2, FourImages
    <3> QED BY <1>1, <1>3, <2>1, <2>3, <3>1, <3>3, SourcesKnown DEF Tried, IsTry, Answered
  <2>5. CASE ~same
    <3> DEFINE image == Needed(final.fmt, final.w, final.h)
    <3>1. d = [final EXCEPT !.image = image]
      BY <2>1, <2>3, <2>5 DEF v4lconvert_fixup_fmt, Needed, FourFormats
    <3>2. image \in Int
      BY <2>3, NeededIsInt DEF HasSize
    <3>3. /\ d.fmt = dest.fmt /\ d.w = final.w /\ d.h = final.h /\ d.image = image
      BY <2>3, <3>1 DEF IsFormat, FormatFields
    <3> HIDE DEF d
    <3>4. d.image >= Needed(d.fmt, d.w, d.h)
      BY <2>3, <3>2, <3>3
    <3> QED BY <1>1, <1>3, <2>1, <2>3, <3>3, <3>4, SourcesKnown
          DEF Tried, IsTry, Answered, HasSize
  <2> QED BY <2>4, <2>5
<1> QED BY <1>2, <1>3

(* What is tried is the format asked for, unless the camera is offered in  *)
(* the four formats only.                                                  *)
AskedFor(c, g, w, h) ==
  IF v4lconvert_supported_dst_fmt_only(c) /\ g \notin FourFormats
  THEN Format("RGB24", w, h, 0) ELSE Format(g, w, h, 0)

LEMMA TrySettles ==
  ASSUME NEW c \in Cameras, Deliverable(c), NEW g, NEW w \in Nat, NEW h \in Nat
  PROVE  \E t : LET dest == AskedFor(c, g, w, h)
               IN  /\ v4lconvert_try_format(c, Format(g, w, h, 0)) = Settled(c, dest, t)
                   /\ HasSize(dest)
                   /\ dest.fmt \in FourFormats => Tried(c, t, dest.fmt)
<1> DEFINE asked == Format(g, w, h, 0)
           dest == AskedFor(c, g, w, h)
           t0 == v4lconvert_do_try_format(c, dest)
           t1 == SlightlyLarger(c, dest, t0)
           t2 == WellKnown(c, dest, t1)
<1>1. IsFormat(dest) /\ HasSize(dest)
  BY DEF AskedFor, Format, IsFormat, FormatFields, HasSize
<1>2. v4lconvert_try_format(c, asked) = Settled(c, dest, t2)
  <2>1. asked.fmt = g /\ [asked EXCEPT !.fmt = "RGB24"] = Format("RGB24", w, h, 0)
    BY DEF Format
  <2> HIDE DEF asked
  <2> QED BY <2>1, DstFormats, Zenon DEF v4lconvert_try_format, AskedFor, asked
<1> HIDE DEF asked, dest
<1>3. ASSUME dest.fmt \in FourFormats
      PROVE  Tried(c, t2, dest.fmt)
  <2>1. Tried(c, t0, dest.fmt)
    BY <1>1, <1>3, Tries
  <2> HIDE DEF t0
  <2>2. dest.w \in Nat /\ dest.h \in Nat
    BY <1>1 DEF HasSize
  <2>3. Tried(c, t1, dest.fmt)
    <3>1. dest.w + 7 \in Nat /\ dest.h + 1 \in Nat
      BY <2>2
    <3> QED BY <1>1, <1>3, <2>1, <3>1, RetryTries, Zenon DEF SlightlyLarger
  <2> HIDE DEF t1
  <2>4. (dest.w * 113) \div 100 \in Nat /\ (dest.h * 124) \div 100 \in Nat
    BY <2>2
  <2> QED BY <1>1, <1>3, <2>3, <2>4, RetryTries, Zenon DEF WellKnown
<1> HIDE DEF t2
<1> QED BY <1>1, <1>2, <1>3 DEF asked, dest

LEMMA TryAnswers ==
  ASSUME NEW c \in Cameras, Deliverable(c), NEW g, NEW w \in Nat, NEW h \in Nat
  PROVE  Answered(v4lconvert_try_format(c, Format(g, w, h, 0)))
<1> DEFINE dest == AskedFor(c, g, w, h)
<1>1. PICK t : /\ v4lconvert_try_format(c, Format(g, w, h, 0)) = Settled(c, dest, t)
               /\ HasSize(dest)
               /\ dest.fmt \in FourFormats => Tried(c, t, dest.fmt)
  BY TrySettles
<1> HIDE DEF dest
<1> QED BY <1>1, SettledAnswers

(* Where libv4lconvert knows one of the camera's formats, it makes each of *)
(* the four it is asked for, from one of those if its mask has them right, *)
(* and leaves the others to the driver.                                    *)
LEMMA TryChooses ==
  ASSUME NEW c \in Cameras, Deliverable(c), SupportedSrc(c) # {},
         NEW g, NEW w \in Nat, NEW h \in Nat
  PROVE  LET r == v4lconvert_try_format(c, Format(g, w, h, 0))
             d == DriverTryFmt(c, g, w, h)
         IN  /\ g \in FourFormats => /\ r.dest.fmt = g
                                     /\ Unmistaken(c) => r.src.fmt \in Own(c)
             /\ g \notin FourFormats /\ ~v4lcontrol_needs_conversion(c) => r.src = d /\ r.dest = d
<1> DEFINE dest == AskedFor(c, g, w, h)
           r == v4lconvert_try_format(c, Format(g, w, h, 0))
           d == DriverTryFmt(c, g, w, h)
<1>1. PICK t : /\ r = Settled(c, dest, t)
               /\ dest.fmt \in FourFormats => Tried(c, t, dest.fmt)
  BY TrySettles
<1> HIDE DEF r
<1>2. ASSUME g \in FourFormats 
      PROVE  r.dest.fmt = g /\ (Unmistaken(c) => r.src.fmt \in Own(c))
  <2>1. dest.fmt = g
    BY <1>2 DEF AskedFor, Format
  <2> HIDE DEF dest
  <2>2. Tried(c, t, g) /\ t.ok /\ (Unmistaken(c) => t.src.fmt \in Own(c))
    BY <1>1, <1>2, <2>1 DEF Tried, SourcesOf
  <2> DEFINE size == Rounded(<<t.dest.w, t.dest.h>>)
             final == [t.dest EXCEPT !.w = size[1], !.h = size[2]]
  <2>3. r.dest \in {final, v4lconvert_fixup_fmt(final)} /\ r.src = t.src
    BY <1>1, <1>2, <2>1, <2>2, DstFormats DEF Settled
  <2>4. IsFormat(final) /\ final.fmt = g
    BY <2>2 DEF Tried, IsTry, IsFormat, FormatFields
  <2> HIDE DEF final
  <2>5. v4lconvert_fixup_fmt(final).fmt = g
    BY <2>4 DEF v4lconvert_fixup_fmt, IsFormat, FormatFields
  <2> QED BY <2>2, <2>3, <2>4, <2>5
<1>3. ASSUME g \notin FourFormats, ~v4lcontrol_needs_conversion(c)
      PROVE  r.src = d /\ r.dest = d
  <2>1. dest.fmt = g /\ dest.w = w /\ dest.h = h
    BY <1>3 DEF AskedFor, Format, v4lconvert_supported_dst_fmt_only
  <2> HIDE DEF dest
  <2>2. r = [dest |-> d, src |-> d]
    BY <1>1, <1>3, <2>1, DstFormats, Zenon DEF Settled
  <2> HIDE DEF d
  <2> QED BY <2>2
<1> QED BY <1>2, <1>3 DEF r, d

-----------------------------------------------------------------------------
(* i is an image of this format and size, processed n times, and what else *)
(* of it nothing was done to yet.                                          *)
Shows(i, fmt, w, h, n) ==
  IsImage(i) /\ i.fmt = fmt /\ i.w = w /\ i.h = h /\ i.processed = n

Turned(i, rotated, hflip, vflip) ==
  i.rotated = rotated /\ i.hflip = hflip /\ i.vflip = vflip
Straight(i) == Turned(i, FALSE, FALSE, FALSE)

(* No step has failed, and my_src_fmt says f, w and h; the filters have    *)
(* yet to run if todo.                                                     *)
Says(p, f, w, h, todo) ==
  /\ IsConversion(p) /\ IsFormat(p.fmt)
  /\ p.ok = TRUE /\ p.do_process = todo
  /\ p.fmt.fmt = f /\ p.fmt.w = w /\ p.fmt.h = h

(* What writing an image to a buffer leaves alone.                         *)
LEMMA Written ==
  ASSUME NEW p, NEW b \in Buffers, NEW i, IsConversion(p)
  PROVE  LET q == Write(p, b, i)
         IN  /\ IsConversion(q) /\ q.buf[b] = i
             /\ q.fmt = p.fmt /\ q.do_process = p.do_process /\ q.ok = p.ok
<1>1. Write(p, b, i) = [x \in ConversionFields |->
         IF x = "buf" THEN [y \in Buffers |-> IF y = b THEN i ELSE p.buf[y]] ELSE p[x]]
  BY DEF Write, IsConversion, ConversionFields
<1> QED BY <1>1 DEF IsConversion, ConversionFields

(* The filters run on a format they know, unless they already have.        *)
Filtered == {"RGB24", "BGR24"} \cup RawBayer

LEMMA NotProcessed ==
  ASSUME NEW p, NEW b, NEW f, NEW w, NEW h, NEW todo, Says(p, f, w, h, todo),
         ~todo \/ f \notin Filtered
  PROVE  v4lprocessing_processing(p, b) = p
BY DEF v4lprocessing_processing, Says, Filtered

(* When they run, the image has been processed once more, and they are     *)
(* done with this frame.                                                   *)
LEMMA Processed ==
  ASSUME NEW p, NEW b \in Buffers, NEW f \in Filtered, NEW w, NEW h, NEW n \in Int,
         Says(p, f, w, h, TRUE), Shows(p.buf[b], f, w, h, n), Straight(p.buf[b])
  PROVE  LET q == v4lprocessing_processing(p, b)
         IN  /\ Says(q, f, w, h, FALSE)
             /\ Shows(q.buf[b], f, w, h, n + 1) /\ Straight(q.buf[b])
<1> DEFINE i == p.buf[b]
           j == [i EXCEPT !.processed = i.processed + 1]
           q == Write(p, b, j)
           r == [q EXCEPT !.do_process = FALSE]
<1>1. i.processed = n
  BY DEF Shows
<1>2. /\ IsImage(j) /\ j.fmt = f /\ j.w = w /\ j.h = h /\ Straight(j) /\ j.processed = n + 1
  BY <1>1 DEF Shows, IsImage, ImageFields, Straight, Turned
<1>3. Believed(p, b)
  BY DEF Says, Shows, Believed
<1>4. /\ IsConversion(q) /\ q.buf[b] = j
      /\ q.fmt = p.fmt /\ q.do_process = p.do_process /\ q.ok = p.ok
  BY Written DEF Says
<1>5. v4lprocessing_processing(p, b) = r
  BY <1>3, Zenon DEF v4lprocessing_processing, Says, Filtered, i, j, q, r
<1> HIDE DEF j, q
<1>6. /\ IsConversion(r) /\ r.buf = q.buf /\ r.fmt = q.fmt /\ r.ok = q.ok
      /\ r.do_process = FALSE
  BY <1>4 DEF IsConversion, ConversionFields
<1>7. Says(r, f, w, h, FALSE) /\ Shows(r.buf[b], f, w, h, n + 1) /\ Straight(r.buf[b])
  BY <1>2, <1>4, <1>6 DEF Says, Shows
<1> QED BY <1>5, <1>7

LEMMA ProcessedOnce ==
  ASSUME NEW p, NEW b \in Buffers, NEW f \in Filtered, NEW w, NEW h,
         Says(p, f, w, h, TRUE), Shows(p.buf[b], f, w, h, 0), Straight(p.buf[b])
  PROVE  LET q == v4lprocessing_processing(p, b)
         IN  /\ Says(q, f, w, h, FALSE)
             /\ Shows(q.buf[b], f, w, h, 1) /\ Straight(q.buf[b])
<1> DEFINE q == v4lprocessing_processing(p, b)
<1>1. 0 \in Int /\ 0 + 1 = 1
  OBVIOUS
<1>2. /\ Says(q, f, w, h, FALSE)
      /\ Shows(q.buf[b], f, w, h, 0 + 1) /\ Straight(q.buf[b])
  BY <1>1, Processed, Zenon
<1> QED BY <1>1, <1>2, Zenon

(* A conversion finds an image of the size it says, with the sides         *)
(* exchanged if it is a JPEG image of a camera mounted sideways, and says  *)
(* so; it unpacks compressed Bayer and runs the filters on it.             *)
LEMMA Converted ==
  ASSUME NEW p, NEW c, NEW b \in Buffers, NEW b2 \in Buffers, NEW f \in SrcFormats, NEW g,
         NEW w, NEW h, NEW n \in Int, NEW todo \in BOOLEAN,
         NEW x, NEW y,
         IF c.rotated /\ f \in Jpegs THEN x = h /\ y = w ELSE x = w /\ y = h,
         Says(p, f, w, h, todo), Shows(p.buf[b], f, x, y, n), Straight(p.buf[b])
  PROVE  LET q == v4lconvert_convert_pixfmt(p, c, b, b2, g)
             now == f \in CompressedBayer /\ todo
         IN  /\ Says(q, g, x, y, todo /\ ~now)
             /\ Shows(q.buf[b2], g, x, y, IF now THEN n + 1 ELSE n) /\ Straight(q.buf[b2])
<1> DEFINE i == p.buf[b]
           once == f \in CompressedBayer /\ todo
           k == IF once THEN 1 ELSE 0
           out == [i EXCEPT !.fmt = g, !.processed = i.processed + k]
           F == v4lconvert_fixup_fmt(Format(g, x, y, 0))
           q == Write(p, b2, out)
           r == [q EXCEPT !.fmt = F, !.do_process = (q.do_process /\ ~once)]
<1>1. IsImage(out) /\ out.fmt = g /\ out.w = x /\ out.h = y /\ Straight(out)
      /\ out.processed = i.processed + k
  BY DEF Shows, IsImage, ImageFields, Straight, Turned
<1>2. i.processed + k = IF once THEN n + 1 ELSE n
  BY DEF Shows
<1>3. IsFormat(F) /\ F.fmt = g /\ F.w = x /\ F.h = y
  BY DEF v4lconvert_fixup_fmt, Format, IsFormat, FormatFields
<1>4. /\ IsConversion(q) /\ q.buf[b2] = out
      /\ q.fmt = p.fmt /\ q.do_process = todo /\ q.ok = TRUE
  BY Written DEF Says
<1>5. v4lconvert_convert_pixfmt(p, c, b, b2, g) = r
  <2> DEFINE side == c.rotated /\ f \in Jpegs
             size == IF side THEN <<h, w>> ELSE <<w, h>>
  <2>1. size = <<x, y>> /\ size[1] = x /\ size[2] = y
    OBVIOUS
  <2>2. /\ p.fmt.fmt = f /\ p.fmt.w = w /\ p.fmt.h = h /\ p.do_process = todo
    BY DEF Says
  <2>3. i.fmt = f /\ <<i.w, i.h>> = size
    BY <2>1 DEF Shows
  <2> HIDE DEF i, size
  <2>4. v4lconvert_convert_pixfmt(p, c, b, b2, g) =
          [Write(p, b2, [i EXCEPT !.fmt = g, !.processed = @ + IF once THEN 1 ELSE 0]) EXCEPT
             !.fmt = v4lconvert_fixup_fmt(Format(g, size[1], size[2], 0)),
             !.do_process = @ /\ ~once]
    BY <2>2, <2>3, Zenon DEF v4lconvert_convert_pixfmt, size, once, side, i
  <2> QED BY <2>1, <2>4 DEF r, q, F, out, k
<1> HIDE DEF out, F, q
<1>6. /\ IsConversion(r) /\ r.buf = q.buf /\ r.fmt = F /\ r.ok = q.ok
      /\ r.do_process = (todo /\ ~once)
  BY <1>4 DEF IsConversion, ConversionFields
<1>7. /\ Says(r, g, x, y, todo /\ ~once)
      /\ Shows(r.buf[b2], g, x, y, IF once THEN n + 1 ELSE n) /\ Straight(r.buf[b2])
  BY <1>1, <1>2, <1>3, <1>4, <1>6 DEF Says, Shows
<1> QED BY <1>5, <1>7

(* A rotation exchanges the sides, and says so.                            *)
LEMMA Rotated ==
  ASSUME NEW p, NEW b \in Buffers, NEW b2 \in Buffers, NEW f, NEW w, NEW h, NEW n, NEW todo,
         Says(p, f, w, h, todo), Shows(p.buf[b], f, w, h, n), Straight(p.buf[b])
  PROVE  LET q == v4lconvert_rotate90(p, b, b2)
         IN  /\ Says(q, f, h, w, todo)
             /\ Shows(q.buf[b2], f, h, w, n) /\ Turned(q.buf[b2], TRUE, FALSE, FALSE)
<1> DEFINE i == [p.buf[b] EXCEPT !.w = p.fmt.h, !.h = p.fmt.w, !.rotated = TRUE]
           F == [p.fmt EXCEPT !.w = p.fmt.h, !.h = p.fmt.w]
           q == Write(p, b2, i)
           r == [q EXCEPT !.fmt.w = p.fmt.h, !.fmt.h = p.fmt.w]
<1>1. /\ IsImage(i) /\ i.fmt = f /\ i.w = h /\ i.h = w /\ i.processed = n
      /\ Turned(i, TRUE, FALSE, FALSE)
  BY DEF Shows, Says, IsImage, ImageFields, Straight, Turned
<1>2. IsFormat(F) /\ F.fmt = f /\ F.w = h /\ F.h = w
  BY DEF Says, IsFormat, FormatFields
<1>3. Believed(p, b)
  BY DEF Says, Shows, Believed
<1>4. /\ IsConversion(q) /\ q.buf[b2] = i
      /\ q.fmt = p.fmt /\ q.do_process = p.do_process /\ q.ok = p.ok
  BY Written DEF Says
<1>5. v4lconvert_rotate90(p, b, b2) = r
  BY <1>3, Zenon DEF v4lconvert_rotate90, i, q, r
<1> HIDE DEF i, q
<1>6. r = [q EXCEPT !.fmt = F]
  BY <1>4 DEF IsConversion, ConversionFields, Says, IsFormat, FormatFields
<1>7. /\ IsConversion(r) /\ r.buf = q.buf /\ r.fmt = F /\ r.ok = q.ok
      /\ r.do_process = q.do_process
  BY <1>4, <1>6 DEF IsConversion, ConversionFields
<1>8. /\ Says(r, f, h, w, todo)
      /\ Shows(r.buf[b2], f, h, w, n) /\ Turned(r.buf[b2], TRUE, FALSE, FALSE)
  BY <1>1, <1>2, <1>4, <1>7 DEF Says, Shows
<1> QED BY <1>5, <1>8

(* A flip leaves format and size alone,                                    *)
LEMMA Flipped ==
  ASSUME NEW p, NEW b \in Buffers, NEW b2 \in Buffers, NEW f, NEW w, NEW h, NEW n, NEW todo,
         NEW rotated, NEW hflip, NEW vflip,
         Says(p, f, w, h, todo), Shows(p.buf[b], f, w, h, n),
         Turned(p.buf[b], rotated, FALSE, FALSE)
  PROVE  LET q == v4lconvert_flip(p, b, b2, hflip, vflip)
         IN  /\ Says(q, f, w, h, todo)
             /\ Shows(q.buf[b2], f, w, h, n) /\ Turned(q.buf[b2], rotated, hflip, vflip)
<1> DEFINE i == [p.buf[b] EXCEPT !.hflip = hflip, !.vflip = vflip]
           q == Write(p, b2, i)
<1>1. /\ IsImage(i) /\ i.fmt = f /\ i.w = w /\ i.h = h /\ i.processed = n
      /\ Turned(i, rotated, hflip, vflip)
  BY DEF Shows, IsImage, ImageFields, Turned
<1>2. Believed(p, b)
  BY DEF Says, Shows, Believed
<1>3. /\ IsConversion(q) /\ q.buf[b2] = i
      /\ q.fmt = p.fmt /\ q.do_process = p.do_process /\ q.ok = p.ok
  BY Written DEF Says
<1>4. v4lconvert_flip(p, b, b2, hflip, vflip) = q
  BY <1>2, Zenon DEF v4lconvert_flip, i, q
<1> HIDE DEF i, q
<1> QED BY <1>1, <1>3, <1>4 DEF Says, Shows

(* and cropping is the last step.                                          *)
LEMMA Cropped ==
  ASSUME NEW p, NEW b \in Buffers, NEW b2 \in Buffers, NEW f, NEW w, NEW h, NEW n, NEW todo,
         NEW rotated, NEW hflip, NEW vflip, NEW dest, dest.fmt = f,
         Says(p, f, w, h, todo), Shows(p.buf[b], f, w, h, n),
         Turned(p.buf[b], rotated, hflip, vflip)
  PROVE  LET q == v4lconvert_crop(p, b, b2, dest)
         IN  /\ q.ok = TRUE
             /\ Shows(q.buf[b2], f, dest.w, dest.h, n)
             /\ Turned(q.buf[b2], rotated, hflip, vflip)
<1> DEFINE i == [p.buf[b] EXCEPT !.w = dest.w, !.h = dest.h]
           q == Write(p, b2, i)
<1>1. /\ IsImage(i) /\ i.fmt = f /\ i.w = dest.w /\ i.h = dest.h /\ i.processed = n
      /\ Turned(i, rotated, hflip, vflip)
  BY DEF Shows, IsImage, ImageFields, Turned
<1>2. Believed(p, b) /\ p.fmt.fmt = dest.fmt
  BY DEF Says, Shows, Believed
<1>3. /\ q.buf[b2] = i /\ q.ok = p.ok
  BY Written DEF Says
<1>4. v4lconvert_crop(p, b, b2, dest) = q
  BY <1>2, Zenon DEF v4lconvert_crop, i, q
<1> HIDE DEF i, q
<1> QED BY <1>1, <1>3, <1>4 DEF Says, Shows

(* The way through the buffers: what each step writes is what the next one *)
(* reads.                                                                  *)
OfWholeFrame(c, src, dest, set) == v4lconvert_convert(c, src, dest, set)

LEMMA Delivered ==
  ASSUME NEW c, c.rotated \in BOOLEAN,
         NEW src, IsFormat(src), src.fmt \in SrcFormats, c.rotated => src.fmt \in Jpegs,
         NEW dest, dest.fmt \in FourFormats,
         dest.image >= Needed(dest.fmt, dest.w, dest.h),
         NEW set, set.processing \in BOOLEAN, set.hflip \in BOOLEAN, set.vflip \in BOOLEAN
  PROVE  LET r == OfWholeFrame(c, src, dest, set)
         IN  /\ r.ok
             /\ Shows(r.image, dest.fmt, dest.w, dest.h, IF set.processing THEN 1 ELSE 0)
             /\ Turned(r.image, c.rotated, set.hflip, set.vflip)
<1> DEFINE f == src.fmt  g == dest.fmt  w == src.w  h == src.h
           x == IF c.rotated THEN h ELSE w
           y == IF c.rotated THEN w ELSE h
           flip  == set.hflip \/ set.vflip
           crop  == dest.w # src.w \/ dest.h # src.h
           moved == c.rotated \/ flip \/ crop
           convert == IF set.processing
                         /\ v4lconvert_processing_needs_double_conversion(src.fmt, dest.fmt) THEN 2
                      ELSE IF dest.fmt # src.fmt \/ ~moved THEN 1 ELSE 0
           rotate90_src  == IF convert # 0 /\ moved THEN "convert2_buf" ELSE "src"
           rotate90_dest == IF flip \/ crop THEN "rotate90_buf" ELSE "dest"
           flip_src  == IF c.rotated /\ (flip \/ crop) THEN "rotate90_buf" ELSE rotate90_src
           flip_dest == IF crop THEN "flip_buf" ELSE "dest"
           way == Way(c, src, dest, set)
           p0 == Arrived(c, src, dest, set)
           p1 == Convert1(p0, c, way)
           p2 == Process(p1, set, way.convert2_src)
           p3 == Convert2(p2, c, way, g)
           p4 == ProcessAgain(p3, set, way)
           p5 == Rotate(p4, c, way)
           p6 == Turn(p5, set, way)
           p7 == Cut(p6, way, dest)
           trivial == f = g /\ ~set.processing /\ ~moved
(* the way *)
<1>1. way = [flip |-> flip, crop |-> crop, moved |-> moved, convert |-> convert,
             convert2_src  |-> IF convert = 2 THEN "convert1_buf" ELSE "src",
             convert2_dest |-> IF moved THEN "convert2_buf" ELSE "dest",
             rotate90_src  |-> rotate90_src, rotate90_dest |-> rotate90_dest,
             flip_src      |-> flip_src,     flip_dest     |-> flip_dest,
             crop_src      |-> IF flip /\ crop THEN "flip_buf" ELSE flip_src]
  BY DEF Way
<1>2. v4lconvert_convert(c, src, dest, set) =
        IF trivial THEN [ok |-> TRUE, image |-> Captured(c, src)]
        ELSE [ok |-> p7.ok, image |-> p7.buf["dest"]]
  <2>1. way.moved = moved
    BY <1>1
  <2>2. Steps(p0, c, set, way, dest) = p7
    BY DEF Steps
  <2> QED BY <2>1, <2>2, DstFormats, Zenon DEF v4lconvert_convert
<1>3. /\ way.flip = flip /\ way.crop = crop /\ way.convert = convert
  BY <1>1
<1>4. /\ way.convert2_src = (IF convert = 2 THEN "convert1_buf" ELSE "src")
      /\ way.convert2_dest = (IF moved THEN "convert2_buf" ELSE "dest")
      /\ way.rotate90_src = rotate90_src /\ way.rotate90_dest = rotate90_dest
      /\ way.flip_src = flip_src /\ way.flip_dest = flip_dest
      /\ way.crop_src = (IF flip /\ crop THEN "flip_buf" ELSE flip_src)
  BY <1>1
<1>5. /\ flip \in BOOLEAN /\ crop \in BOOLEAN /\ moved \in BOOLEAN /\ convert \in {0, 1, 2}
      /\ f \in SrcFormats /\ g \in SrcFormats /\ "RGB24" \in SrcFormats
  BY FourAreSources DEF FourFormats
(* when a frame is converted twice, and when not at all *)
<1>6. /\ convert = 2 => /\ set.processing /\ f \notin CompressedBayer \cup Filtered
      /\ convert = 0 => /\ f = g /\ ~c.rotated /\ moved
                        /\ set.processing => f \in Filtered
      /\ convert = 1 /\ set.processing => f \in CompressedBayer \cup Filtered \/ g \in Filtered
  BY DEF v4lconvert_processing_needs_double_conversion, Filtered, FourFormats, Jpegs,
       CompressedBayer, RawBayer
(* what was captured *)
<1>7. LET i == Captured(c, src)
      IN  Shows(i, f, x, y, 0) /\ Straight(i)
  BY DEF Captured, Garbage, Shows, IsImage, ImageFields, Straight, Turned
<1>8. Says(p0, f, w, h, set.processing) /\ p0.buf["src"] = Captured(c, src)
  BY DEF Arrived, Says, IsConversion, ConversionFields, Buffers
<1> HIDE DEF f, g, w, h, x, y, flip, crop, moved, convert, rotate90_src, rotate90_dest,
       flip_src, flip_dest, way, p0, p1, p2, p3, p4, p5, p6, p7
(* the first conversion, and the filters after it *)
<1> DEFINE todo == set.processing
           f1 == IF convert = 2 THEN "RGB24" ELSE f
           w1 == IF convert = 2 THEN x ELSE w
           h1 == IF convert = 2 THEN y ELSE h
           b1 == IF convert = 2 THEN "convert1_buf" ELSE "src"
           n1 == IF todo /\ f1 \in Filtered THEN 1 ELSE 0
           todo1 == todo /\ f1 \notin Filtered
<1>9. /\ ~c.rotated => x = w /\ y = h
      /\ c.rotated => x = h /\ y = w /\ f \in Jpegs /\ moved /\ convert # 0
  BY <1>6 DEF x, y, f, moved
<1>10. Says(p1, f1, w1, h1, todo) /\ Shows(p1.buf[b1], f1, x, y, 0) /\ Straight(p1.buf[b1])
  <2>1. CASE convert = 2
    <3> DEFINE q == v4lconvert_convert_pixfmt(p0, c, "src", "convert1_buf", "RGB24")
    <3>1. IF c.rotated /\ f \in Jpegs THEN x = h /\ y = w ELSE x = w /\ y = h
      BY <1>9
    <3>2. todo = TRUE /\ f \notin CompressedBayer
      BY <1>6, <2>1
    <3>3. /\ Says(p0, f, w, h, TRUE) /\ Shows(p0.buf["src"], f, x, y, 0) /\ Straight(p0.buf["src"])
      BY <1>7, <1>8, <3>2
    <3>4. "src" \in Buffers /\ "convert1_buf" \in Buffers /\ 0 \in Int /\ TRUE \in BOOLEAN
      BY DEF Buffers
    <3>5. /\ Says(q, "RGB24", x, y, TRUE)
          /\ Shows(q.buf["convert1_buf"], "RGB24", x, y, 0) /\ Straight(q.buf["convert1_buf"])
      <4>1. LET once == f \in CompressedBayer /\ TRUE
            IN  /\ Says(q, "RGB24", x, y, TRUE /\ ~once)
                /\ Shows(q.buf["convert1_buf"], "RGB24", x, y, IF once THEN 0 + 1 ELSE 0)
                /\ Straight(q.buf["convert1_buf"])
        BY <1>5, <3>1, <3>3, <3>4, Converted, Zenon
      <4> HIDE DEF q
      <4> QED BY <3>2, <4>1
    <3>6. p1 = q
      BY <1>3, <1>8, <2>1 DEF p1, Convert1, When, Says
    <3> QED BY <2>1, <3>2, <3>5, <3>6
  <2>2. CASE convert # 2
    <3>1. p1 = p0
      BY <1>3, <2>2 DEF p1, Convert1, When
    <3> QED BY <1>7, <1>8, <2>2, <3>1
  <2> QED BY <2>1, <2>2
<1>11. /\ Says(p2, f1, w1, h1, todo1)
       /\ Shows(p2.buf[b1], f1, x, y, n1) /\ Straight(p2.buf[b1])
  <2> DEFINE q == v4lprocessing_processing(p1, b1)
  <2>1. p2 = IF todo THEN q ELSE p1
    BY <1>4, <1>10 DEF p2, Process, When, Says
  <2>2. CASE todo /\ f1 \in Filtered
    <3>1. x = w1 /\ y = h1
      BY <1>9, <2>2 DEF Jpegs, Filtered, RawBayer
    <3>2. b1 \in Buffers /\ todo = TRUE
      BY <2>2 DEF Buffers
    <3>3. Says(q, f1, w1, h1, FALSE) /\ Shows(q.buf[b1], f1, w1, h1, 1) /\ Straight(q.buf[b1])
      <4> HIDE DEF f1, w1, h1, b1, todo
      <4> QED BY <1>10, <2>2, <3>1, <3>2, ProcessedOnce
    <3> QED BY <2>1, <2>2, <3>1, <3>3
  <2>3. CASE ~(todo /\ f1 \in Filtered)
    <3>1. p2 = p1
      BY <1>10, <2>1, <2>3, NotProcessed
    <3>2. todo1 = todo /\ n1 = 0
      BY <2>3
    <3> QED BY <1>10, <3>1, <3>2
  <2> QED BY <2>2, <2>3
(* the second conversion, and the filters after it *)
<1> DEFINE now == f1 \in CompressedBayer /\ todo1
           todo3 == todo1 /\ f1 \notin CompressedBayer
           n3 == IF now THEN n1 + 1 ELSE n1
           b3 == IF convert = 0 THEN "src" ELSE way.convert2_dest
<1>12. /\ Says(p3, g, x, y, IF convert = 0 THEN todo1 ELSE todo3)
       /\ Shows(p3.buf[b3], g, x, y, IF convert = 0 THEN n1 ELSE n3) /\ Straight(p3.buf[b3])
  <2>1. CASE convert = 0
    <3>1. p3 = p2
      BY <1>3, <2>1 DEF p3, Convert2, When
    <3> QED BY <1>6, <1>9, <1>11, <2>1, <3>1
  <2>2. CASE convert # 0
    <3> DEFINE q == v4lconvert_convert_pixfmt(p2, c, b1, b3, g)
    <3>1. IF c.rotated /\ f1 \in Jpegs THEN x = h1 /\ y = w1 ELSE x = w1 /\ y = h1
      BY <1>9 DEF Jpegs
    <3>2. /\ f1 \in SrcFormats /\ b1 \in Buffers /\ b3 \in Buffers /\ n1 \in Int
          /\ todo1 \in BOOLEAN
      BY <1>4, <1>5, <2>2 DEF Buffers
    <3>3. /\ Says(q, g, x, y, todo1 /\ ~now)
          /\ Shows(q.buf[b3], g, x, y, n3) /\ Straight(q.buf[b3])
      <4> HIDE DEF f1, w1, h1, b1, n1, todo1, b3
      <4> QED BY <1>11, <3>1, <3>2, Converted, Zenon
    <3>4. p3 = q
      BY <1>3, <1>4, <1>11, <2>2 DEF p3, Convert2, When, Says
    <3>5. todo3 = (todo1 /\ ~now)
      OBVIOUS
    <3> QED BY <2>2, <3>3, <3>4, <3>5
  <2> QED BY <2>1, <2>2
<1> DEFINE n == IF todo THEN 1 ELSE 0
<1>13. Says(p4, g, x, y, FALSE) /\ Shows(p4.buf[b3], g, x, y, n) /\ Straight(p4.buf[b3])
  <2>1. CASE convert = 0
    <3>1. p4 = p3
      BY <1>3, <2>1 DEF p4, ProcessAgain
    <3>2. todo1 = FALSE /\ n1 = n
      BY <1>6, <2>1
    <3> QED BY <1>12, <2>1, <3>1, <3>2
  <2>2. CASE convert # 0
    <3> DEFINE q == v4lprocessing_processing(p3, b3)
    <3>1. p4 = IF todo THEN q ELSE p3
      BY <1>3, <1>12, <2>2 DEF p4, ProcessAgain, Process, When, Says
    <3>2. Says(p3, g, x, y, todo3) /\ Shows(p3.buf[b3], g, x, y, n3) /\ Straight(p3.buf[b3])
      BY <1>12, <2>2
    <3>3. CASE todo3
      <4>1. g \in Filtered /\ todo3 = TRUE /\ todo = TRUE /\ n3 = 0
        BY <1>5, <1>6, <2>2, <3>3 DEF Filtered
      <4>2. b3 \in Buffers
        BY <1>4, <2>2 DEF Buffers
      <4>3. /\ Says(q, g, x, y, FALSE) /\ Shows(q.buf[b3], g, x, y, 1) /\ Straight(q.buf[b3])
        <5> HIDE DEF b3, todo3, n3
        <5> QED BY <3>2, <4>1, <4>2, ProcessedOnce
      <4> QED BY <3>1, <4>1, <4>3
    <3>4. CASE ~todo3
      <4>1. p4 = p3
        BY <3>1, <3>2, <3>4, NotProcessed
      <4>2. todo3 = FALSE /\ n3 = n
        BY <3>4
      <4> QED BY <3>2, <4>1, <4>2
    <3> QED BY <3>3, <3>4
  <2> QED BY <2>1, <2>2
<1> HIDE DEF todo, f1, w1, h1, b1, n1, todo1, now, todo3, n3
(* the frame is turned, *)
<1> DEFINE b5 == IF c.rotated THEN way.rotate90_dest ELSE b3
<1>14. /\ c.rotated => way.rotate90_src = b3
       /\ flip => way.flip_src = b5
       /\ crop /\ ~flip => way.crop_src = b5
       /\ b3 \in Buffers /\ b5 \in Buffers /\ way.flip_dest \in Buffers
       /\ ~flip /\ ~crop => b5 = "dest"
       /\ flip /\ ~crop => way.flip_dest = "dest"
       /\ flip /\ crop => way.crop_src = way.flip_dest
  BY <1>4, <1>5, <1>6, <1>9 DEF Buffers, rotate90_src, rotate90_dest, flip_src, flip_dest, moved
<1> HIDE DEF b3
<1>15. /\ Says(p5, g, w, h, FALSE)
       /\ Shows(p5.buf[b5], g, w, h, n) /\ Turned(p5.buf[b5], c.rotated, FALSE, FALSE)
  <2>1. CASE c.rotated
    <3> DEFINE q == v4lconvert_rotate90(p4, b3, b5)
    <3>1. /\ Says(q, g, y, x, FALSE)
          /\ Shows(q.buf[b5], g, y, x, n) /\ Turned(q.buf[b5], TRUE, FALSE, FALSE)
      <4> HIDE DEF b5, n
      <4> QED BY <1>13, <1>14, Rotated
    <3>2. p5 = q
      BY <1>13, <1>14, <2>1 DEF p5, Rotate, When, Says
    <3>3. y = w /\ x = h /\ c.rotated = TRUE
      BY <1>9, <2>1
    <3> QED BY <3>1, <3>2, <3>3
  <2>2. CASE ~c.rotated
    <3>1. p5 = p4
      BY <2>2 DEF p5, Rotate, When
    <3>2. x = w /\ y = h /\ c.rotated = FALSE
      BY <1>9, <2>2
    <3> QED BY <1>13, <2>2, <3>1, <3>2 DEF Straight
  <2> QED BY <2>1, <2>2
<1> HIDE DEF b5
(* mirrored *)
<1> DEFINE b6 == IF flip THEN way.flip_dest ELSE b5
<1>16. /\ Says(p6, g, w, h, FALSE)
       /\ Shows(p6.buf[b6], g, w, h, n)
       /\ Turned(p6.buf[b6], c.rotated, set.hflip, set.vflip)
  <2>1. CASE flip
    <3> DEFINE q == v4lconvert_flip(p5, b5, b6, set.hflip, set.vflip)
    <3>1. /\ Says(q, g, w, h, FALSE)
          /\ Shows(q.buf[b6], g, w, h, n) /\ Turned(q.buf[b6], c.rotated, set.hflip, set.vflip)
      <4>1. b6 \in Buffers
        BY <1>14, <2>1
      <4> HIDE DEF b6, n
      <4> QED BY <1>14, <1>15, <4>1, Flipped
    <3>2. p6 = q
      BY <1>3, <1>14, <1>15, <2>1 DEF p6, Turn, When, Says
    <3> QED BY <3>1, <3>2
  <2>2. CASE ~flip
    <3>1. p6 = p5
      BY <1>3, <2>2 DEF p6, Turn, When
    <3>2. set.hflip = FALSE /\ set.vflip = FALSE
      BY <2>2 DEF flip
    <3> QED BY <1>15, <2>2, <3>1, <3>2
  <2> QED BY <2>1, <2>2
(* and cut. *)
<1>17. /\ p7.ok = TRUE /\ Shows(p7.buf["dest"], g, dest.w, dest.h, n)
       /\ Turned(p7.buf["dest"], c.rotated, set.hflip, set.vflip)
  <2>1. CASE crop
    <3> DEFINE q == v4lconvert_crop(p6, b6, "dest", dest)
    <3>1. /\ q.ok = TRUE /\ Shows(q.buf["dest"], g, dest.w, dest.h, n)
          /\ Turned(q.buf["dest"], c.rotated, set.hflip, set.vflip)
      <4>1. b6 \in Buffers /\ "dest" \in Buffers /\ dest.fmt = g
        BY <1>14 DEF Buffers, g
      <4> HIDE DEF b6, n
      <4> QED BY <1>16, <4>1, Cropped
    <3>2. way.crop_src = b6
      BY <1>14, <2>1
    <3>3. p7 = q
      BY <1>3, <1>16, <2>1, <3>2 DEF p7, Cut, When, Says
    <3> QED BY <3>1, <3>3
  <2>2. CASE ~crop
    <3>1. p7 = p6
      BY <1>3, <2>2 DEF p7, Cut, When
    <3>2. dest.w = w /\ dest.h = h
      BY <2>2 DEF crop, w, h
    <3>3. b6 = "dest"
      BY <1>14, <2>2
    <3> QED BY <1>16, <3>1, <3>2, <3>3 DEF Says
  <2> QED BY <2>1, <2>2
<1> DEFINE r == OfWholeFrame(c, src, dest, set)
<1>18. CASE trivial
  <2>1. /\ ~c.rotated /\ ~flip /\ ~crop /\ ~todo /\ f = g
    BY <1>18 DEF moved, todo
  <2>2. n = 0 /\ x = w /\ y = h /\ dest.w = w /\ dest.h = h
    BY <1>9, <2>1 DEF crop, w, h
  <2>3. Shows(Captured(c, src), g, dest.w, dest.h, n)
    BY <1>7, <2>1, <2>2
  <2>4. Turned(Captured(c, src), c.rotated, set.hflip, set.vflip)
    BY <1>7, <2>1 DEF flip, Straight
  <2>5. r = [ok |-> TRUE, image |-> Captured(c, src)]
    BY <1>2, <1>18, Zenon DEF OfWholeFrame
  <2>6. /\ Shows(Captured(c, src), dest.fmt, dest.w, dest.h, IF set.processing THEN 1 ELSE 0)
        /\ Turned(Captured(c, src), c.rotated, set.hflip, set.vflip)
    BY <2>3, <2>4, Zenon DEF g, n, todo
  <2>7. /\ r.ok = TRUE
        /\ r.image = Captured(c, src)
    <3> HIDE DEF r
    <3> QED BY <2>5
  <2> QED BY <2>6, <2>7, Zenon
<1>19. CASE ~trivial
  <2>1. r = [ok |-> p7.ok, image |-> p7.buf["dest"]]
    BY <1>2, <1>19, Zenon DEF OfWholeFrame
  <2>2. /\ Shows(p7.buf["dest"], dest.fmt, dest.w, dest.h, IF set.processing THEN 1 ELSE 0)
        /\ Turned(p7.buf["dest"], c.rotated, set.hflip, set.vflip) /\ p7.ok = TRUE
    BY <1>17, Zenon DEF g, n, todo
  <2>3. /\ r.ok = TRUE
        /\ r.image = p7.buf["dest"]
    <3> HIDE DEF r
    <3> QED BY <2>1, <2>2
  <2> QED BY <2>2, <2>3, Zenon
<1> QED BY <1>18, <1>19

-----------------------------------------------------------------------------
(* What set_image_format has chosen: a source libv4lconvert can make the   *)
(* image of, if it is to, and an image long enough.                        *)
Chosen(c) ==
  /\ IsFormat(c.src_fmt) /\ (cam.rotated => c.src_fmt.fmt \in Jpegs)
  /\ c.width = c.dst_fmt.w /\ c.height = c.dst_fmt.h
  /\ c.dst_fmt.fmt \in FourFormats =>
        /\ c.src_fmt.fmt \in SrcFormats
        /\ c.dst_fmt.image >= Needed(c.dst_fmt.fmt, c.dst_fmt.w, c.dst_fmt.h)

(* It is the driver's own, and the conversion and the size of the images   *)
(* are those the two formats ask for.                                      *)
Consistent(c) ==
  LET src == c.src_fmt
      dst == c.dst_fmt
  IN  /\ HasSize(src) /\ src.image = DriverImage(src.fmt, src.w, src.h) /\ HasSize(dst)
      /\ c.needs_conversion <=> v4lconvert_needs_conversion(cam, src, dst)
      /\ c.is_native \/ c.needs_conversion
      /\ c.imagesize = IF c.needs_conversion THEN dst.image ELSE src.image

(* The image is in the format it was to be in, output: one of the four, or *)
(* one of the driver's as it comes.                                        *)
Agreed(c, output) ==
  Convertible => /\ c.dst_fmt.fmt = output
                 /\ output \notin FourFormats => ~c.needs_conversion

(* Such an image is asked for by itself.                                   *)
Askable(native, output) ==
  Convertible /\ output \notin FourFormats =>
     native = "none" /\ output \in ToSet(cam.formats) /\ ~v4lcontrol_needs_conversion(cam)

(* The size asked for, with a size for the greatest one.                   *)
LEMMA SizedCapture ==
  ASSUME NEW c, IsCapture(c), c.width \in Nat, c.height \in Nat
  PROVE  IsCapture(Sized(c)) /\ Sized(c).width \in Nat /\ Sized(c).height \in Nat
<1> DEFINE z == Sized(c)
<1>1. \A x, y : /\ IsCapture([c EXCEPT !.width = x, !.height = y])
               /\ [c EXCEPT !.width = x, !.height = y].width = x
               /\ [c EXCEPT !.width = x, !.height = y].height = y
  BY DEF IsCapture, CaptureFields
<1>2. PICK x \in Nat, y \in Nat : z = [c EXCEPT !.width = x, !.height = y]
  <2> DEFINE u == IF c.width = MAX_WIDTH THEN V4L2_MAX_WIDTH ELSE c.width
             v == IF c.height = MAX_WIDTH THEN V4L2_MAX_WIDTH ELSE c.height
  <2>1. u \in Nat /\ v \in Nat
    BY DEF V4L2_MAX_WIDTH
  <2>2. z = [c EXCEPT !.width = u, !.height = v]
    BY Zenon DEF Sized
  <2> HIDE DEF u, v, z
  <2> QED BY <2>1, <2>2
<1> HIDE DEF z
<1>3. IsCapture(z)
  BY <1>1, <1>2, Zenon
<1>4. z.width = x /\ z.height = y
  BY <1>1, <1>2, Zenon
<1> QED BY <1>3, <1>4 DEF z

(* set_image_format, whatever was asked for, chooses so or fails.          *)
LEMMA FormatChosen ==
  ASSUME cam \in Cameras, Deliverable(cam),
         NEW d, IsDriver(d), HasSize(d.fmt),
         NEW c, IsCapture(c), c.width \in Nat, c.height \in Nat,
         NEW native \in SrcFormats \cup {"none"}, NEW output, Askable(native, output)
  PROVE  LET f == set_image_format(c, d, native, output)
         IN  HasSize(f.d.fmt) /\ (f.ok => Chosen(f.c) /\ Consistent(f.c) /\ Agreed(f.c, output))
<1> DEFINE z == Sized(c)
           try == try_image_format(z, output)
           want == Source(try, native, output)
           src == apply_image_format(want)
           palette == IF native # "none" THEN native ELSE TriedPalette(try, output)
           e == [d EXCEPT !.fmt = src,
                          !.intv = DefaultInterval(cam, src.fmt, <<src.w, src.h>>)]
           b == WithFormat(z, try, src, palette, output, force_native_fmt(want))
           f == set_image_format(c, d, native, output)
<1>1. IsCapture(z) /\ z.width \in Nat /\ z.height \in Nat
  BY SizedCapture
<1>2. f = IF d.buffers THEN [ok |-> FALSE, c |-> z, d |-> d]
          ELSE [ok |-> src.fmt = want.fmt, d |-> e, c |-> b]
  BY Zenon DEF set_image_format, SetFormat
<1> HIDE DEF z
<1>3. Answered(try)
  BY <1>1, TryAnswers DEF try_image_format
<1> DEFINE own == DriverTryFmt(cam, output, z.width, z.height)
<1>11. Convertible => /\ output \in FourFormats => try.dest.fmt = output
                      /\ output \notin FourFormats => try.src = own /\ try.dest = own
  <2> HIDE DEF own
  <2> QED BY <1>1, TryChooses DEF try_image_format, Convertible, Askable, own
<1> HIDE DEF try
<1>12. Convertible /\ output \notin FourFormats => src = own /\ try.dest = own
  <2> HAVE Convertible /\ output \notin FourFormats
  <2>1. want = own
    <3> HIDE DEF own
    <3> QED BY <1>11 DEF Source, Askable
  <2> HIDE DEF want
  <2>2. src = own
    BY <1>1, <2>1, DriverKeepsIts DEF apply_image_format
  <2> QED BY <1>11, <2>2
<1> HIDE DEF own
<1>4. /\ want.w \in Nat /\ want.h \in Nat
      /\ want.fmt \in (SrcFormats \cap {native}) \cup {try.src.fmt}
  BY <1>3 DEF Source, Answered, IsFormat, FormatFields, HasSize
<1> HIDE DEF want
<1>5. /\ IsFormat(src) /\ src.fmt \in ToSet(cam.formats) /\ src.w \in Nat /\ src.h \in Nat
      /\ src.image = DriverImage(src.fmt, src.w, src.h)
  BY <1>4, DriverAnswers DEF apply_image_format
<1> HIDE DEF src
<1>6. e.fmt = src /\ HasSize(src)
  <2>1. e.fmt = src
    BY FormatSet, Zenon
  <2>2. HasSize(src)
    BY <1>5 DEF HasSize
  <2> QED BY <2>1, <2>2
<1> DEFINE needs == v4lconvert_needs_conversion(cam, src, try.dest)
<1>7. /\ b.src_fmt = src /\ b.dst_fmt = try.dest /\ b.width = try.dest.w /\ b.height = try.dest.h
      /\ b.needs_conversion = needs /\ b.is_native = (force_native_fmt(want) \/ ~needs)
      /\ b.imagesize = IF needs THEN try.dest.image ELSE src.image
  BY <1>1 DEF WithFormat, IsCapture, CaptureFields
<1> HIDE DEF e, b
<1>13. Consistent(b)
  <2> HIDE DEF needs
  <2>1. HasSize(try.dest) /\ HasSize(src)
    BY <1>3, <1>5 DEF Answered, HasSize
  <2>2. b.is_native \/ b.needs_conversion
    BY <1>7, Zenon
  <2> QED BY <1>5, <1>7, <2>1, <2>2 DEF Consistent, needs
<1>14. Agreed(b, output)
  <2>1. ASSUME Convertible, output \notin FourFormats
        PROVE  try.dest.fmt = output /\ ~needs
    <3>1. src = try.dest /\ try.dest = own
      BY <1>12, <2>1
    <3>2. own.fmt = output
      BY <1>1, <2>1, DriverAnswers DEF own, Askable
    <3>3. ~v4lcontrol_needs_conversion(cam)
      BY <2>1 DEF Askable
    <3> QED BY <2>1, <3>1, <3>2, <3>3, DstFormats DEF v4lconvert_needs_conversion
  <2>2. ASSUME Convertible, output \in FourFormats
        PROVE  try.dest.fmt = output
    BY <1>11, <2>2
  <2> HIDE DEF needs
  <2> QED BY <1>7, <2>1, <2>2 DEF Agreed
<1>8. ASSUME src.fmt = want.fmt PROVE Chosen(b)
  <2>1. src.fmt # "none" /\ (cam.rotated => src.fmt \in Jpegs)
    BY <1>5, CameraFormats DEF Deliverable
  <2>2. ASSUME try.dest.fmt \in FourFormats
        PROVE  /\ src.fmt \in SrcFormats
               /\ try.dest.image >= Needed(try.dest.fmt, try.dest.w, try.dest.h)
    BY <1>3, <1>4, <1>8, <2>1, <2>2 DEF Answered
  <2> QED BY <1>5, <1>7, <2>1, <2>2 DEF Chosen
<1>9. CASE d.buffers
  <2>1. f.ok = FALSE /\ f.d = d
    BY <1>2, <1>9
  <2> HIDE DEF f
  <2>2. HasSize(f.d.fmt) /\ (f.ok => Chosen(f.c) /\ Consistent(f.c) /\ Agreed(f.c, output))
    BY <2>1
  <2> QED BY <2>2 DEF f
<1>10. CASE ~d.buffers
  <2>1. f.ok = (src.fmt = want.fmt) /\ f.d = e /\ f.c = b
    BY <1>2, <1>10
  <2> HIDE DEF f
  <2>2. HasSize(f.d.fmt) /\ (f.ok => Chosen(f.c) /\ Consistent(f.c) /\ Agreed(f.c, output))
    BY <1>6, <1>8, <1>13, <1>14, <2>1
  <2> QED BY <2>2 DEF f
<1> QED BY <1>9, <1>10

(* It does not fail for a format of the camera.                            *)
LEMMA FormatAccepted ==
  ASSUME cam \in Cameras, Deliverable(cam), Convertible, Unmistaken(cam),
         ~v4lcontrol_needs_conversion(cam),
         NEW d, d.buffers = FALSE,
         NEW c, IsCapture(c), c.width \in Nat, c.height \in Nat,
         NEW native \in Own(cam) \cup {"none"}, NEW output, Askable(native, output)
  PROVE  set_image_format(c, d, native, output).ok
<1> DEFINE z == Sized(c)
           try == try_image_format(z, output)
           want == Source(try, native, output)
           src == apply_image_format(want)
           f == set_image_format(c, d, native, output)
<1>1. z.width \in Nat /\ z.height \in Nat
  BY SizedCapture
<1>2. f.ok = (src.fmt = want.fmt)
  <2>1. \E x, y : f = [ok |-> src.fmt = want.fmt, d |-> x, c |-> y]
    BY Zenon DEF set_image_format, SetFormat
  <2> HIDE DEF f, src, want
  <2> QED BY <2>1
<1> HIDE DEF f, z
<1>3. Answered(try)
  BY <1>1, TryAnswers DEF try_image_format
<1>4. try.src.fmt \in ToSet(cam.formats)
  <2>1. CASE output \in FourFormats
    <3>1. try.src.fmt \in Own(cam)
      BY <1>1, <2>1, TryChooses DEF try_image_format, Convertible
    <3> QED BY <3>1 DEF Own
  <2>2. CASE output \notin FourFormats
    <3>1. try.src = DriverTryFmt(cam, output, z.width, z.height)
      BY <1>1, <2>2, TryChooses DEF try_image_format, Convertible
    <3> HIDE DEF try
    <3> QED BY <1>1, <3>1, DriverAnswers
  <2> QED BY <2>1, <2>2
<1> HIDE DEF try
<1>5. want.w \in Nat /\ want.h \in Nat /\ want.fmt \in ToSet(cam.formats)
  <2>1. native # "none" => native \in ToSet(cam.formats)
    BY DEF Own
  <2> QED BY <1>3, <1>4, <2>1 DEF Source, Answered, IsFormat, FormatFields, HasSize
<1> HIDE DEF want
<1>6. src.fmt = want.fmt
  BY <1>5, DriverAnswers DEF apply_image_format
<1> QED BY <1>2, <1>6 DEF f

(* What the lists are made of.                                             *)
LEMMA SourceOfConverted ==
  ASSUME NEW c, NEW r, Answered(r), v4lconvert_needs_conversion(c, r.src, r.dest)
  PROVE  r.src.fmt \in SrcFormats \cup {"none"}
BY DstFormats DEF Answered, v4lconvert_needs_conversion

(* A palette has the index it was looked for under; what it is converted   *)
(* from are sources libv4lconvert knows.                                   *)
LEMMA PaletteFound ==
  ASSUME NEW c \in Cameras, Deliverable(c), NEW k, NEW w \in Nat, NEW h \in Nat
  PROVE  LET p == add_supported_palette(c, k, <<w, h>>)
         IN  /\ p.index = k /\ p.raw \subseteq SrcFormats \cup {"none"}
             /\ \A r \in p.discrete : r.size \in Nat \X Nat
<1> DEFINE size == <<w, h>>
           try(s) == try_format(c, k, s)
           p == add_supported_palette(c, k, size)
           raw == RawPalettes(c, k, try(size).src.fmt)
           ok == \A f \in {try(s).src.fmt : s \in ToSet(v4lconvert_enum_framesizes(c, k))} :
                    find_v4l2_palette(f)
           needs(s) == v4lconvert_needs_conversion(c, try(s).src, try(s).dest)
<1>1. \A s \in Nat \X Nat : Answered(try(s))
  <2> TAKE s \in Nat \X Nat
  <2>1. s[1] \in Nat /\ s[2] \in Nat
    OBVIOUS
  <2> QED BY <2>1, TryAnswers DEF try_format
<1>2. size \in Nat \X Nat /\ size[1] = w /\ size[2] = h
  OBVIOUS
<1>3. \A s \in Nat \X Nat : needs(s) => try(s).src.fmt \in SrcFormats \cup {"none"}
  BY <1>1, SourceOfConverted
<1> HIDE DEF try
<1>4. needs(size) => raw \subseteq SrcFormats \cup {"none"}
  <2>1. raw \subseteq {try(size).src.fmt} \cup
                      {try(s).src.fmt :
                         s \in {x \in ToSet(v4lconvert_enum_framesizes(c, k)) : needs(x)}}
    BY DEF RawPalettes, try
  <2> HIDE DEF needs, raw
  <2> QED BY <1>2, <1>3, <2>1, EnumeratedAreSizes
<1> HIDE DEF raw
<1>5. \A f : \A r \in lookup_frame_sizes(c, f) : r.size \in Nat \X Nat
  BY EnumeratedAreSizes DEF lookup_frame_sizes
<1>6. \/ \E f, b : p = Found(b, k, {}, lookup_frame_sizes(c, f))
      \/ p = Found(FALSE, k, {}, {})
      \/ needs(size) /\ p = Found(ok, k, raw, {})
  BY Zenon DEF add_supported_palette, Palette, raw, needs, try
<1>7. \A b, r, x : /\ Found(b, k, r, x).index = k /\ Found(b, k, r, x).raw = r
                  /\ Found(b, k, r, x).discrete = x
  BY DEF Found
<1> HIDE DEF p, ok, needs
<1>8. /\ p.index = k /\ p.raw \subseteq SrcFormats \cup {"none"}
      /\ \A r \in p.discrete : r.size \in Nat \X Nat
  <2>1. ASSUME NEW f, NEW b, p = Found(b, k, {}, lookup_frame_sizes(c, f))
        PROVE  p.index = k /\ p.raw = {} /\ p.discrete = lookup_frame_sizes(c, f)
    BY <1>7, <2>1
  <2>2. ASSUME p = Found(FALSE, k, {}, {})
        PROVE  p.index = k /\ p.raw = {} /\ p.discrete = {}
    BY <2>2 DEF Found
  <2>3. ASSUME p = Found(ok, k, raw, {})
        PROVE  p.index = k /\ p.raw = raw /\ p.discrete = {}
    BY <1>7, <2>3
  <2> QED BY <1>4, <1>5, <1>6, <2>1, <2>2, <2>3
<1> QED BY <1>8 DEF p

(* Where libv4lconvert does not have to convert, the sources it found can  *)
(* be had from the driver.                                                 *)
LEMMA PaletteSources ==
  ASSUME NEW c \in Cameras, Deliverable(c), SupportedSrc(c) # {}, Unmistaken(c),
         ~v4lcontrol_needs_conversion(c),
         NEW k \in FourFormats, NEW w \in Nat, NEW h \in Nat
  PROVE  LET p == add_supported_palette(c, k, <<w, h>>)
         IN  p.raw \subseteq Own(c) /\ (p.ok /\ p.raw = {} => k \in Own(c))
<1> DEFINE size == <<w, h>>
           src(s) == try_format(c, k, s).src.fmt
           first == src(size)
           needs == v4lconvert_needs_conversion(c, try_format(c, k, size).src, try_format(c, k, size).dest)
           raw == RawPalettes(c, k, first)
           p == add_supported_palette(c, k, size)
<1>1. \A s \in Nat \X Nat : src(s) \in Own(c)
  <2> TAKE s \in Nat \X Nat
  <2>1. s[1] \in Nat /\ s[2] \in Nat
    OBVIOUS
  <2> QED BY <2>1, TryChooses DEF try_format
<1>2. size \in Nat \X Nat /\ size[1] = w /\ size[2] = h
  OBVIOUS
<1>3. ~needs => k \in Own(c)
  <2>1. try_format(c, k, size).dest.fmt = k
    BY <1>2, TryChooses DEF try_format
  <2>2. ~needs => first = try_format(c, k, size).dest.fmt
    BY DEF v4lconvert_needs_conversion
  <2> QED BY <1>1, <1>2, <2>1, <2>2
<1>4. \A f \in Own(c) : add_raw_format(c, f, size)
  <2> TAKE f \in Own(c)
  <2> DEFINE r == v4lconvert_try_format(c, Format(f, w, h, 0))
  <2>1. f \in ToSet(c.formats)
    BY DEF Own
  <2>2. f \in FourFormats => r.dest.fmt = f
    BY TryChooses
  <2>3. f \notin FourFormats => r.dest.fmt = f
    BY <2>1, TryChooses, DriverAnswers
  <2>4. add_raw_format(c, f, size) <=> r.dest.fmt = f
    BY <1>2, Zenon DEF add_raw_format, try_format
  <2> QED BY <2>2, <2>3, <2>4
<1>5. raw \subseteq Own(c) /\ raw # {}
  <2>1. /\ first \in raw
        /\ \A f \in raw : f = first \/ \E s \in ToSet(v4lconvert_enum_framesizes(c, k)) : f = src(s)
    BY DEF RawPalettes
  <2> HIDE DEF src, raw
  <2> QED BY <1>1, <1>2, <2>1, EnumeratedAreSizes
<1>6. \/ \E x : ~needs /\ p = Found(TRUE, k, {}, x)
      \/ p = Found(FALSE, k, {}, {})
      \/ \E x : ~add_raw_format(c, first, size) /\ p = Found(TRUE, k, {}, x)
      \/ \E b : p = Found(b, k, raw, {})
  BY Zenon DEF add_supported_palette, Palette
<1> HIDE DEF p, raw, needs
<1>7. p.raw \subseteq Own(c) /\ (p.ok /\ p.raw = {} => k \in Own(c))
  <2>1. CASE \E x : ~needs /\ p = Found(TRUE, k, {}, x)
    BY <1>3, <2>1 DEF Found
  <2>2. CASE p = Found(FALSE, k, {}, {})
    BY <2>2 DEF Found
  <2>3. CASE \E x : ~add_raw_format(c, first, size) /\ p = Found(TRUE, k, {}, x)
    BY <1>1, <1>2, <1>4, <2>3
  <2>4. CASE \E b : p = Found(b, k, raw, {})
    BY <1>5, <2>4 DEF Found
  <2> QED BY <1>6, <2>1, <2>2, <2>3, <2>4
<1> QED BY <1>7 DEF p

(* So can all that is listed for a grabber of one of the four formats.     *)
LEMMA SourcesListed ==
  ASSUME NEW c \in Cameras, Deliverable(c), SupportedSrc(c) # {}, Unmistaken(c),
         ~v4lcontrol_needs_conversion(c),
         NEW w \in Nat, NEW h \in Nat,
         \A p \in check_palettes_v4l2(c, <<w, h>>) : p.ok,
         NEW out \in FourFormats
  PROVE  listFormats(check_palettes_v4l2(c, <<w, h>>))[out] \subseteq Own(c)
<1> DEFINE palettes == check_palettes_v4l2(c, <<w, h>>)
<1>1. \A p \in palettes : \E k : p = add_supported_palette(c, k, <<w, h>>)
  BY DEF check_palettes_v4l2
<1>2. \A p \in palettes : p.ok
  OBVIOUS
<1> HIDE DEF palettes
<1>3. ASSUME NEW p \in palettes, p.index = out
      PROVE  p.raw \subseteq Own(c) /\ (p.raw = {} => out \in Own(c))
  <2>1. PICK k : p = add_supported_palette(c, k, <<w, h>>)
    BY <1>1
  <2>2. k = out
    BY <1>3, <2>1, PaletteFound
  <2> QED BY <1>2, <2>1, <2>2, PaletteSources
<1>4. listFormats(palettes)[out] = EncodableFormats(palettes, out)
  BY DEF listFormats, FourFormats
<1>5. \A f \in EncodableFormats(palettes, out) :
         \E p \in palettes : p.index = out /\ (f \in p.raw \/ (p.raw = {} /\ f = out))
  BY DEF EncodableFormats
<1> QED BY <1>3, <1>4, <1>5 DEF palettes

Kinds == {"RAW", "JPG"} \cup FourFormats

LEMMA FormatsListed ==
  ASSUME NEW c \in Cameras, Deliverable(c), NEW w \in Nat, NEW h \in Nat
  PROVE  LET palettes == check_palettes_v4l2(c, <<w, h>>)
         IN  /\ DOMAIN listFormats(palettes) = Kinds
             /\ \A out \in FourFormats : listFormats(palettes)[out] \subseteq SrcFormats \cup {"none"}
             /\ \A fmt : \A r \in ResolutionInfo(palettes, fmt) : r.size \in Nat \X Nat
             /\ listFormats(palettes)["RAW"] \cup listFormats(palettes)["JPG"]
                   \subseteq v4lconvert_enum_fmt(c)
<1> DEFINE palettes == check_palettes_v4l2(c, <<w, h>>)
<1>1. \A p \in palettes : \E k \in v4lconvert_enum_fmt(c) : p = add_supported_palette(c, k, <<w, h>>)
  BY DEF check_palettes_v4l2
<1> HIDE DEF palettes
<1>2. \A p \in palettes : /\ p.index \in v4lconvert_enum_fmt(c)
                          /\ p.raw \subseteq SrcFormats \cup {"none"}
                          /\ \A r \in p.discrete : r.size \in Nat \X Nat
  <2> TAKE p \in palettes
  <2>1. PICK k \in v4lconvert_enum_fmt(c) : p = add_supported_palette(c, k, <<w, h>>)
    BY <1>1
  <2> QED BY <2>1, PaletteFound
<1>3. DOMAIN listFormats(palettes) = Kinds
  BY DEF listFormats, Kinds, FourFormats
<1>4. \A out \in FourFormats : listFormats(palettes)[out] \subseteq SrcFormats \cup {"none"}
  <2> TAKE out \in FourFormats
  <2>1. listFormats(palettes)[out] = EncodableFormats(palettes, out)
    BY DEF listFormats, FourFormats
  <2>2. \A f \in EncodableFormats(palettes, out) : f = out \/ \E p \in palettes : f \in p.raw
    BY DEF EncodableFormats
  <2> QED BY <1>2, <2>1, <2>2, FourAreSources
<1>5. \A fmt : \A r \in ResolutionInfo(palettes, fmt) : r.size \in Nat \X Nat
  <2>1. \A fmt : \A r \in ResolutionInfo(palettes, fmt) : \E p \in palettes : r \in p.discrete
    BY DEF ResolutionInfo, find_palette_info
  <2> QED BY <1>2, <2>1
<1>6. listFormats(palettes)["RAW"] \cup listFormats(palettes)["JPG"] \subseteq v4lconvert_enum_fmt(c)
  BY <1>2 DEF listFormats
<1> QED BY <1>3, <1>4, <1>5, <1>6 DEF palettes

(* The third invariant: what is listed and what is chosen.                 *)
FormatsKnown ==
  /\ HasSize(driver.fmt)
  /\ DOMAIN lists = Kinds
  /\ \A out \in FourFormats : lists[out] \subseteq SrcFormats \cup {"none"}
  /\ \A out \in Kinds : lists[out] \subseteq DOMAIN info
  /\ \A fmt \in DOMAIN info : \A r \in info[fmt] : r.size \in Nat \X Nat
  /\ lists["RAW"] \cup lists["JPG"] \subseteq v4lconvert_enum_fmt(cam)
  /\ stage = "created" => /\ dev.output_fmt \in Kinds /\ dev.in_fmt \in lists[dev.output_fmt]
                          /\ capture.width \in Nat /\ capture.height \in Nat
  /\ stage \in {"set", "mapped", "ready", "streaming"} => Chosen(capture)

LEMMA FormatsKnownInit == Init => FormatsKnown
<1> SUFFICES ASSUME Init PROVE FormatsKnown
  OBVIOUS
<1>1. PICK f \in ToSet(cam.formats) : \E s \in ToSet(cam.sizes[f]) : \E i, std :
         driver = [fmt |-> Format(f, s[1], s[2], DriverImage(f, s[1], s[2])),
                   intv |-> DefaultInterval(cam, f, s), std |-> std, input |-> i, buffers |-> FALSE,
                   freq |-> [t \in DOMAIN cam.tuners |-> 0]]
  BY Zenon DEF Init
<1>2. PICK s \in ToSet(cam.sizes[f]) :
         driver.fmt = Format(f, s[1], s[2], DriverImage(f, s[1], s[2]))
  BY <1>1
<1>3. s \in Nat \X Nat
  <2>1. cam \in Cameras /\ cam.sizes[f] \in Seq(Nat \X Nat)
    BY CameraFormats DEF Init
  <2> QED BY <2>1 DEF ToSet
<1>4. HasSize(driver.fmt)
  BY <1>2, <1>3 DEF Format, HasSize
<1>5. /\ DOMAIN lists = Kinds /\ \A out \in Kinds : lists[out] = {}
      /\ lists["RAW"] = {} /\ lists["JPG"] = {}
  BY DEF Init, NoLists, Kinds, FourFormats
<1>6. DOMAIN info = {} /\ stage = "closed"
  BY DEF Init, NoInfo
<1> QED BY <1>4, <1>5, <1>6 DEF FormatsKnown, Kinds

(* A call that leaves the lists and the choice alone.                      *)
LEMMA FormatsStay ==
  ASSUME FormatsKnown, UNCHANGED <<cam, lists, info>>, driver'.fmt = driver.fmt,
         \/ stage' = "closed"
         \/ UNCHANGED <<stage, dev, capture>>
         \/ /\ stage \in {"set", "mapped", "ready", "streaming"}
            /\ stage' \in {"set", "mapped", "ready", "streaming"}
            /\ capture' = capture
  PROVE  FormatsKnown'
<1>1. Chosen(capture) /\ capture' = capture => Chosen(capture)'
  BY DEF Chosen
<1>2. /\ HasSize(driver.fmt)' /\ DOMAIN lists' = Kinds
      /\ \A out \in FourFormats : lists'[out] \subseteq SrcFormats \cup {"none"}
      /\ \A out \in Kinds : lists'[out] \subseteq DOMAIN info'
      /\ \A fmt \in DOMAIN info' : \A r \in info'[fmt] : r.size \in Nat \X Nat
      /\ lists'["RAW"] \cup lists'["JPG"] \subseteq v4lconvert_enum_fmt(cam')
  BY DEF FormatsKnown, HasSize
<1>3. stage' = "created" =>
         /\ dev'.output_fmt \in Kinds /\ dev'.in_fmt \in lists'[dev'.output_fmt]
         /\ capture'.width \in Nat /\ capture'.height \in Nat
  BY DEF FormatsKnown
<1>4. stage' \in {"set", "mapped", "ready", "streaming"} => Chosen(capture)'
  BY <1>1 DEF FormatsKnown
<1> QED BY <1>2, <1>3, <1>4 DEF FormatsKnown

(* What a grabber asks for: one of the four formats, or one of the         *)
(* driver's, from any source.                                              *)
LEMMA AskedForListed ==
  ASSUME FormatsKnown, stage = "created"
  PROVE  Askable(SrcFormat, DestFormat)
<1>1. CASE dev.output_fmt \in FourFormats
  BY <1>1 DEF Askable, DestFormat, FourFormats
<1>2. CASE dev.output_fmt \notin FourFormats
  <2>1. /\ SrcFormat = "none" /\ DestFormat = dev.in_fmt
        /\ DestFormat \in v4lconvert_enum_fmt(cam)
    BY <1>2 DEF FormatsKnown, Kinds, SrcFormat, DestFormat
  <2>2. ToSet(supported_dst_pixfmts) = FourFormats
    BY DEF ToSet, supported_dst_pixfmts, FourFormats
  <2>3. ASSUME Convertible, DestFormat \notin FourFormats
        PROVE  DestFormat \in ToSet(cam.formats) /\ ~v4lcontrol_needs_conversion(cam)
    BY <2>1, <2>2, <2>3 DEF v4lconvert_enum_fmt, v4lconvert_supported_dst_fmt_only, Convertible
  <2> QED BY <2>1, <2>3 DEF Askable
<1> QED BY <1>1, <1>2

(* Every call of a grabber keeps what is known of the formats.             *)
LEMMA FormatsStayKnown ==
  ASSUME RInv, InputsKnown, FormatsKnown, \A c \in Cameras : Deliverable(c), Next
  PROVE  FormatsKnown'
<1>0. cam \in Cameras /\ Deliverable(cam)
  BY DEF InputsKnown
<1>1. CASE GetDeviceInfo
  <2> DEFINE w == driver.fmt.w  h == driver.fmt.h
             palettes == check_palettes_v4l2(cam, <<w, h>>)
  <2>1. /\ UNCHANGED <<cam, driver, stage, capture, dev>> /\ stage = "closed"
        /\ \/ UNCHANGED <<lists, info>>
           \/ /\ lists' = listFormats(palettes)
              /\ info' = [fmt \in UNION Range(listFormats(palettes)) |-> ResolutionInfo(palettes, fmt)]
    BY <1>1, Zenon DEF GetDeviceInfo, query_device_v4l2
  <2>2. w \in Nat /\ h \in Nat
    BY DEF FormatsKnown, HasSize
  <2>3. /\ DOMAIN listFormats(palettes) = Kinds
        /\ \A out \in FourFormats : listFormats(palettes)[out] \subseteq SrcFormats \cup {"none"}
        /\ \A fmt : \A r \in ResolutionInfo(palettes, fmt) : r.size \in Nat \X Nat
        /\ listFormats(palettes)["RAW"] \cup listFormats(palettes)["JPG"]
              \subseteq v4lconvert_enum_fmt(cam)
    BY <1>0, <2>2, FormatsListed
  <2>4. CASE UNCHANGED <<lists, info>>
    BY <2>1, <2>4, FormatsStay
  <2>5. CASE /\ lists' = listFormats(palettes)
             /\ info' = [fmt \in UNION Range(listFormats(palettes)) |-> ResolutionInfo(palettes, fmt)]
    <3> HIDE DEF palettes
    <3>1. \A out \in Kinds : lists'[out] \subseteq DOMAIN info'
      BY <2>3, <2>5 DEF Range
    <3>2. \A fmt \in DOMAIN info' : \A r \in info'[fmt] : r.size \in Nat \X Nat
      BY <2>3, <2>5
    <3>3. /\ DOMAIN lists' = Kinds
          /\ \A out \in FourFormats : lists'[out] \subseteq SrcFormats \cup {"none"}
          /\ lists'["RAW"] \cup lists'["JPG"] \subseteq v4lconvert_enum_fmt(cam')
      BY <2>1, <2>3, <2>5
    <3> QED BY <2>1, <3>1, <3>2, <3>3 DEF FormatsKnown, HasSize
  <2> QED BY <2>1, <2>4, <2>5
<1>2. ASSUME NEW t, NEW f, SetTunerFrequency(t, f) PROVE FormatsKnown'
  <2>1. driver'.fmt = driver.fmt
    <3>1. \A x : [driver EXCEPT !.freq = x].fmt = driver.fmt
      BY DriverSet DEF RInv, Structs, Alike
    <3> QED BY <1>2, <3>1, Zenon DEF SetTunerFrequency
  <2> QED BY <1>2, <2>1, FormatsStay DEF SetTunerFrequency
<1>3. ASSUME NEW out \in DOMAIN lists, NEW imf \in lists[out],
             NEW size \in Sizes \cup ListedSizes(imf), NEW ch, NEW std,
             GetFrameGrabber(out, imf, size, ch, std)
      PROVE  FormatsKnown'
  <2>1. /\ stage' = "created" /\ UNCHANGED <<cam, driver, lists, info>>
        /\ capture' = [NoCapture EXCEPT !.width = size[1], !.height = size[2],
                                        !.channel = ch, !.std = std]
        /\ dev' = [dev EXCEPT !.output_fmt = out, !.in_fmt = imf, !.need_conv = (out = "JPG")]
    BY <1>3 DEF GetFrameGrabber
  <2>2. size \in Nat \X Nat
    <3>1. Sizes \subseteq Nat \X Nat
      BY SizesAssumption
    <3>2. \A s \in ListedSizes(imf) : s \in Nat \X Nat
      BY DEF ListedSizes, FormatsKnown
    <3> QED BY <3>1, <3>2
  <2>3. capture'.width = size[1] /\ capture'.height = size[2]
    BY <2>1 DEF NoCapture
  <2>4. dev'.output_fmt = out /\ dev'.in_fmt = imf
    BY <2>1 DEF RInv, Structs, IsDev, DevFields
  <2> QED BY <2>1, <2>2, <2>3, <2>4 DEF FormatsKnown, HasSize
<1>4. CASE SetCapParam
  <2> DEFINE s == set_std(capture, driver)
             i == set_input(s.c, s.d)
             f == set_image_format(s.c, i.d, SrcFormat, DestFormat)
  <2>1. /\ stage = "created" /\ UNCHANGED <<cam, lists, info>>
        /\ \/ stage' = "closed" /\ driver' \in {s.d, i.d, f.d}
           \/ stage' = "set" /\ driver' = f.d /\ f.ok /\ capture' = f.c
    BY <1>4 DEF SetCapParam, Fail, Close
  <2>2. /\ IsCapture(s.c) /\ s.c.width = capture.width /\ s.c.height = capture.height
        /\ Alike(s.d, driver)
    BY StdNegotiated DEF RInv, Structs
  <2>3. IsDriver(i.d) /\ i.d.fmt = s.d.fmt
    BY <2>2, InputSwitched DEF Alike, Kept
  <2>4. SrcFormat \in SrcFormats \cup {"none"}
    BY <2>1 DEF FormatsKnown, SrcFormat, Kinds
  <2>5. HasSize(f.d.fmt) /\ (f.ok => Chosen(f.c))
    <3>1. Askable(SrcFormat, DestFormat)
      BY <2>1, AskedForListed
    <3> QED BY <1>0, <2>1, <2>2, <2>3, <2>4, <3>1, FormatChosen DEF FormatsKnown, Alike, HasSize
  <2> HIDE DEF s, i, f
  <2>6. HasSize(driver.fmt)'
    BY <2>1, <2>2, <2>3, <2>5 DEF FormatsKnown, Alike
  <2>7. stage' = "set" => Chosen(capture)'
    BY <2>1, <2>5 DEF Chosen
  <2> QED BY <2>1, <2>6, <2>7 DEF FormatsKnown
<1>5. CASE InitCapture \/ InitCaptureFails \/ InitFormatConverter \/ ReleaseFrameGrabber
  <2>1. \A x : [driver EXCEPT !.buffers = x].fmt = driver.fmt
    BY DriverSet DEF RInv, Structs
  <2>2. /\ UNCHANGED <<cam, lists, info>>
        /\ driver' = driver \/ \E x : driver' = [driver EXCEPT !.buffers = x]
        /\ \/ stage' = "closed"
           \/ /\ stage \in {"set", "mapped"} /\ stage' \in {"mapped", "ready"}
              /\ capture' = capture
    BY <1>5, Zenon DEF InitCapture, InitCaptureFails, InitFormatConverter, ReleaseFrameGrabber,
         Fail, Close
  <2> QED BY <2>1, <2>2, FormatsStay
<1>6. CASE StartCapture \/ DeliverFrame \/ StopCapture
  BY <1>6, FormatsStay DEF StartCapture, DeliverFrame, StopCapture
<1>7. ASSUME NEW ch, NEW std, SetVideoInputNStandard(ch, std) PROVE FormatsKnown'
  <2> DEFINE d == SetInput(driver, ch)
  <2>1. IsDriver(d) /\ d.fmt = driver.fmt
    BY InputSet DEF RInv, Structs
  <2>2. Alike(try_std(d, std), d)
    BY <2>1, StdSet
  <2>3. /\ driver' = driver \/ driver' = try_std(d, std)
        /\ \E x, y : capture' = [capture EXCEPT !.channel = x, !.std = y]
        /\ stage \in {"ready", "streaming"} /\ UNCHANGED <<cam, lists, info, stage>>
    BY <1>7, Zenon DEF SetVideoInputNStandard
  <2>4. driver'.fmt = driver.fmt
    BY <2>1, <2>2, <2>3 DEF Alike
  <2>5. /\ capture'.src_fmt = capture.src_fmt /\ capture'.dst_fmt = capture.dst_fmt
        /\ capture'.width = capture.width /\ capture'.height = capture.height
    BY <2>3 DEF RInv, Structs, IsCapture, CaptureFields
  <2>6. Chosen(capture)'
    BY <2>3, <2>5 DEF FormatsKnown, Chosen
  <2> QED BY <2>3, <2>4, <2>6 DEF FormatsKnown, HasSize
<1>8. ASSUME NEW n, SetFrameInterval(n) PROVE FormatsKnown'
  <2>1. Alike(set_frame_intv(driver, n).d, driver)
    BY DriverSet DEF set_frame_intv, RInv, Structs, Alike, Kept
  <2>2. driver'.fmt = driver.fmt /\ UNCHANGED <<cam, lists, info, stage, capture, dev>>
    BY <1>8, <2>1 DEF SetFrameInterval, Alike
  <2> QED BY <2>2, FormatsStay
<1> QED BY <1>1, <1>2, <1>3, <1>4, <1>5, <1>6, <1>7, <1>8 DEF Next

-----------------------------------------------------------------------------
(* The fourth invariant: once its format is set, the grabber agrees with   *)
(* libvideo on what its images are, and a frame is one of them.            *)
HasFormat == stage \in {"set", "mapped", "ready", "streaming"}

GrabberAgrees ==
  /\ stage # "closed" => dev.output_fmt \in Kinds /\ dev.need_conv = (dev.output_fmt = "JPG")
  /\ HasFormat => /\ Askable(SrcFormat, DestFormat)
                  /\ Consistent(capture) /\ Agreed(capture, DestFormat)
  /\ SetUp => /\ dev.buffer = get_buffer_length
              /\ NeedsDoubleBuffer => dev.double = capture.imagesize
  /\ stage # "streaming" => frame = NoFrame
  /\ frame # NoFrame => \E set \in Settings : frame = fillBuffer(set)

(* A call that leaves the choice of formats alone.                         *)
LEMMA ChoiceStays ==
  ASSUME cam' = cam, dev'.output_fmt = dev.output_fmt, dev'.in_fmt = dev.in_fmt,
         capture'.src_fmt = capture.src_fmt, capture'.dst_fmt = capture.dst_fmt,
         capture'.needs_conversion = capture.needs_conversion,
         capture'.is_native = capture.is_native, capture'.imagesize = capture.imagesize,
         Askable(SrcFormat, DestFormat), Consistent(capture), Agreed(capture, DestFormat)
  PROVE  Askable(SrcFormat, DestFormat)' /\ Consistent(capture)' /\ Agreed(capture, DestFormat)'
BY DEF Askable, SrcFormat, DestFormat, Consistent, Agreed, Convertible, HasSize

LEMMA GrabberAgreesInit == Init => GrabberAgrees
BY DEF Init, GrabberAgrees, HasFormat, SetUp

(* Without a grabber, or before its format is set, there is little to be   *)
(* agreed on.                                                              *)
LEMMA NothingAgreed ==
  ASSUME frame' = NoFrame, stage' = "closed" \/ stage' = "created",
         stage' = "created" => dev'.output_fmt \in Kinds /\ dev'.need_conv = (dev'.output_fmt = "JPG")
  PROVE  GrabberAgrees'
BY DEF GrabberAgrees, HasFormat, SetUp

(* A step that touches neither the grabber nor the camera.                 *)
LEMMA GrabberStays ==
  ASSUME GrabberAgrees, UNCHANGED <<cam, stage, capture, dev, frame>>
  PROVE  GrabberAgrees'
<1>1. HasFormat' = HasFormat /\ SetUp' = SetUp /\ Settings' = Settings
  BY DEF HasFormat, SetUp, Settings
<1>2. \A set : fillBuffer(set)' = fillBuffer(set)
  BY DEF fillBuffer
<1>3. get_buffer_length' = get_buffer_length /\ NeedsDoubleBuffer' = NeedsDoubleBuffer
  BY DEF get_buffer_length, NeedsDoubleBuffer
<1>4. HasFormat => Askable(SrcFormat, DestFormat)' /\ Consistent(capture)' /\ Agreed(capture, DestFormat)'
  BY ChoiceStays DEF GrabberAgrees
<1> QED BY <1>1, <1>2, <1>3, <1>4 DEF GrabberAgrees

(* Every call of a grabber keeps it in agreement.                          *)
LEMMA GrabberStaysAgreed ==
  ASSUME RInv, InputsKnown, FormatsKnown, GrabberAgrees, \A c \in Cameras : Deliverable(c), Next
  PROVE  GrabberAgrees'
<1>0. cam \in Cameras /\ Deliverable(cam)
  BY DEF InputsKnown
<1>1. CASE GetDeviceInfo \/ \E t, f : SetTunerFrequency(t, f)
  BY <1>1, GrabberStays DEF GetDeviceInfo, SetTunerFrequency
<1>2. ASSUME NEW n, SetFrameInterval(n) PROVE GrabberAgrees'
  BY <1>2, GrabberStays DEF SetFrameInterval
<1>3. ASSUME NEW out \in DOMAIN lists, NEW imf, NEW size, NEW ch, NEW std,
             GetFrameGrabber(out, imf, size, ch, std)
      PROVE  GrabberAgrees'
  <2>1. /\ stage' = "created" /\ frame' = NoFrame /\ out \in Kinds
        /\ dev' = [dev EXCEPT !.output_fmt = out, !.in_fmt = imf, !.need_conv = (out = "JPG")]
    BY <1>3 DEF GetFrameGrabber, FormatsKnown
  <2>2. dev'.output_fmt = out /\ dev'.need_conv = (out = "JPG")
    BY <2>1 DEF RInv, Structs, IsDev, DevFields
  <2> QED BY <2>1, <2>2, NothingAgreed
<1>4. ASSUME NEW jpeg, NEW double, Close(jpeg, double) PROVE GrabberAgrees'
  BY <1>4, NothingAgreed DEF Close
<1>5. CASE SetCapParam
  <2> DEFINE s == set_std(capture, driver)
             i == set_input(s.c, s.d)
             f == set_image_format(s.c, i.d, SrcFormat, DestFormat)
  <2>1. /\ stage = "created"
        /\ \/ \E jpeg, double : Close(jpeg, double)
           \/ stage' = "set" /\ f.ok /\ capture' = f.c /\ UNCHANGED <<cam, dev, frame>>
    BY <1>5 DEF SetCapParam, Fail
  <2>2. /\ IsCapture(s.c) /\ s.c.width = capture.width /\ s.c.height = capture.height
        /\ Alike(s.d, driver)
    BY StdNegotiated DEF RInv, Structs
  <2>3. IsDriver(i.d) /\ i.d.fmt = s.d.fmt
    BY <2>2, InputSwitched DEF Alike, Kept
  <2>4. SrcFormat \in SrcFormats \cup {"none"} /\ Askable(SrcFormat, DestFormat)
    BY <2>1, AskedForListed DEF FormatsKnown, SrcFormat, Kinds
  <2>5. f.ok => Consistent(f.c) /\ Agreed(f.c, DestFormat)
    BY <1>0, <2>1, <2>2, <2>3, <2>4, FormatChosen DEF FormatsKnown, Alike, HasSize
  <2> HIDE DEF s, i, f
  <2>6. CASE stage' = "set" /\ f.ok /\ capture' = f.c /\ UNCHANGED <<cam, dev, frame>>
    <3>1. Askable(SrcFormat, DestFormat)' /\ Consistent(capture)' /\ Agreed(capture, DestFormat)'
      BY <2>4, <2>5, <2>6 DEF Askable, SrcFormat, DestFormat, Consistent, Agreed, Convertible
    <3> QED BY <2>1, <2>6, <3>1 DEF GrabberAgrees, SetUp
  <2> QED BY <1>4, <2>1, <2>6
<1>6. CASE InitCapture
  <2>1. /\ stage = "set" /\ stage' = "mapped" /\ UNCHANGED <<cam, capture, dev, frame>>
    BY <1>6 DEF InitCapture
  <2>2. Askable(SrcFormat, DestFormat)' /\ Consistent(capture)' /\ Agreed(capture, DestFormat)'
    BY <2>1, ChoiceStays DEF GrabberAgrees, HasFormat
  <2> QED BY <2>1, <2>2 DEF GrabberAgrees, SetUp
<1>7. CASE InitCaptureFails \/ ReleaseFrameGrabber
  BY <1>4, <1>7 DEF InitCaptureFails, Fail, ReleaseFrameGrabber
<1>8. CASE InitFormatConverter
  <2>1. /\ stage = "mapped"
        /\ \/ \E jpeg, double : Close(jpeg, double)
           \/ /\ dev' = [dev EXCEPT !.jpeg = dev.need_conv,
                        !.double = IF NeedsDoubleBuffer THEN capture.imagesize ELSE dev.double,
                        !.buffer = get_buffer_length]
              /\ stage' = "ready" /\ UNCHANGED <<cam, capture, frame>>
    BY <1>8, Zenon DEF InitFormatConverter
  <2>2. CASE /\ dev' = [dev EXCEPT !.jpeg = dev.need_conv,
                        !.double = IF NeedsDoubleBuffer THEN capture.imagesize ELSE dev.double,
                        !.buffer = get_buffer_length]
             /\ stage' = "ready" /\ UNCHANGED <<cam, capture, frame>>
    <3>1. /\ dev'.output_fmt = dev.output_fmt /\ dev'.in_fmt = dev.in_fmt
          /\ dev'.need_conv = dev.need_conv /\ dev'.buffer = get_buffer_length
          /\ dev'.double = IF NeedsDoubleBuffer THEN capture.imagesize ELSE dev.double
      BY <2>2 DEF RInv, Structs, IsDev, DevFields
    <3>2. get_buffer_length' = get_buffer_length /\ NeedsDoubleBuffer' = NeedsDoubleBuffer
      BY <2>2, <3>1 DEF get_buffer_length, NeedsDoubleBuffer
    <3>3. Askable(SrcFormat, DestFormat)' /\ Consistent(capture)' /\ Agreed(capture, DestFormat)'
      BY <2>1, <2>2, <3>1, ChoiceStays DEF GrabberAgrees, HasFormat
    <3> QED BY <2>1, <2>2, <3>1, <3>2, <3>3 DEF GrabberAgrees
  <2> QED BY <1>4, <2>1, <2>2
<1>9. CASE StartCapture \/ DeliverFrame \/ StopCapture
  <2>1. /\ UNCHANGED <<cam, capture, dev>> /\ SetUp /\ SetUp' /\ HasFormat
        /\ \/ stage = "ready" /\ frame' = frame
           \/ stage' = "streaming" /\ \E set \in Settings : frame' = fillBuffer(set)
           \/ frame' = NoFrame
    BY <1>9 DEF StartCapture, DeliverFrame, StopCapture, SetUp, HasFormat
  <2>2. Askable(SrcFormat, DestFormat)' /\ Consistent(capture)' /\ Agreed(capture, DestFormat)'
    BY <2>1, ChoiceStays DEF GrabberAgrees
  <2>3. get_buffer_length' = get_buffer_length /\ NeedsDoubleBuffer' = NeedsDoubleBuffer
    BY <2>1 DEF get_buffer_length, NeedsDoubleBuffer
  <2>4. Settings' = Settings /\ \A set : fillBuffer(set)' = fillBuffer(set)
    BY <2>1 DEF Settings, fillBuffer
  <2>5. frame' # NoFrame => stage' = "streaming" /\ \E set \in Settings' : frame' = fillBuffer(set)'
    BY <2>1, <2>4 DEF GrabberAgrees
  <2>6. stage # "closed"
    BY <2>1 DEF SetUp
  <2> QED BY <2>1, <2>2, <2>3, <2>5, <2>6 DEF GrabberAgrees
<1>10. ASSUME NEW ch, NEW std, SetVideoInputNStandard(ch, std) PROVE GrabberAgrees'
  <2>1. /\ \E x, y : capture' = [capture EXCEPT !.channel = x, !.std = y]
        /\ stage \in {"ready", "streaming"} /\ UNCHANGED <<cam, stage, dev, frame>>
    BY <1>10, Zenon DEF SetVideoInputNStandard
  <2>2. /\ capture'.src_fmt = capture.src_fmt /\ capture'.dst_fmt = capture.dst_fmt
        /\ capture'.width = capture.width /\ capture'.height = capture.height
        /\ capture'.needs_conversion = capture.needs_conversion
        /\ capture'.is_native = capture.is_native /\ capture'.imagesize = capture.imagesize
        /\ capture'.palette = capture.palette
    BY <2>1 DEF RInv, Structs, IsCapture, CaptureFields
  <2>3. Askable(SrcFormat, DestFormat)' /\ Consistent(capture)' /\ Agreed(capture, DestFormat)'
    BY <2>1, <2>2, ChoiceStays DEF GrabberAgrees, HasFormat
  <2>4. get_buffer_length' = get_buffer_length /\ NeedsDoubleBuffer' = NeedsDoubleBuffer
    BY <2>1, <2>2 DEF get_buffer_length, NeedsDoubleBuffer
  <2>5. Settings' = Settings /\ \A set : fillBuffer(set)' = fillBuffer(set)
    BY <2>1, <2>2 DEF Settings, fillBuffer
  <2>6. frame' # NoFrame => stage' = "streaming" /\ \E set \in Settings' : frame' = fillBuffer(set)'
    BY <2>1, <2>5 DEF GrabberAgrees
  <2>7. SetUp /\ stage # "closed"
    BY <2>1 DEF SetUp
  <2> QED BY <2>1, <2>2, <2>3, <2>4, <2>6, <2>7 DEF GrabberAgrees
<1> QED BY <1>1, <1>2, <1>3, <1>4, <1>5, <1>6, <1>7, <1>8, <1>9, <1>10 DEF Next

-----------------------------------------------------------------------------
(* Whatever camera it is and whichever call fails, a grabber that is gone  *)
(* leaves the driver without buffers and no converter behind.  The one     *)
(* failure excluded is that of an mmap, whose buffers the code forgets.    *)
THEOREM DeviceStaysReusable == ASSUME "mmap" \notin Faults PROVE Spec => []DeviceReusable
<1>1. RInv => DeviceReusable
  BY DEF RInv, Allocated, Unbuffered, SetUp, DeviceReusable
<1> QED BY <1>1, RInvariance, PTL

(* The channel of a grabber whose standard is not "WEBCAM" is the input the *)
(* driver is switched to: in spite of the standards doInit tries out, and after   *)
(* any sequence of setVideoInputNStandard(), half refused ones included.   *)
(* And the tuner found for it is that input's, so that getFrequency() says *)
(* what the camera receives, even when several inputs share a tuner, as    *)
(* far as the range the driver advertises allows.                          *)
THEOREM ChannelsReported == Spec => []ChannelReported
<1>1. ASSUME RInv, InputsKnown, SetUp, capture.std # "WEBCAM"
      PROVE  /\ capture.channel = driver.input
             /\ IF driver.input \notin DOMAIN cam.tunerOf
                THEN findTuner(inputs, capture.channel) = NoTuner
                ELSE LET t    == findTuner(inputs, capture.channel)[1]
                         read == getFrequency(cam, driver.freq, t)
                         real == driver.freq[cam.tunerOf[driver.input]]
                     IN  read = Clip(t.rangeLow, t.rangeHigh, real)
  <2>1. capture.channel = driver.input
    BY <1>1 DEF RInv, ChannelIsInput, SetUp
  <2> DEFINE i == driver.input
             T == create_tuner_object(query_tuner(cam, cam.tunerOf[i])[1])
  <2>2. findTuner(inputs, i) = IF HasTuner(cam, i) THEN <<T>> ELSE NoTuner
    BY <1>1, TunerOfInput DEF InputsKnown, SetUp
  <2>3. T.index = cam.tunerOf[i]
    BY DEF create_tuner_object, query_tuner
  <2>4. /\ T.rangeLow = cam.tuners[cam.tunerOf[i]].rangelow
        /\ T.rangeHigh = cam.tuners[cam.tunerOf[i]].rangehigh
    BY DEF create_tuner_object, query_tuner
  <2> HIDE DEF T
  <2>5. getFrequency(cam, driver.freq, T)
           = Clip(T.rangeLow, T.rangeHigh, driver.freq[cam.tunerOf[i]])
    BY <2>3, <2>4, Zenon DEF getFrequency, get_tuner_freq_v4l2, fix_quirky_values, Clipped
  <2>6. <<T>>[1] = T
    OBVIOUS
  <2> QED BY <2>1, <2>2, <2>5, <2>6 DEF HasTuner
<1>2. RInv /\ InputsKnown => ChannelReported
  BY <1>1 DEF ChannelReported, Switched
<1>3. ASSUME RInv, InputsKnown, UNCHANGED vars PROVE InputsKnown'
  BY <1>3 DEF vars, InputsKnown, InputsFound
<1>4. RInv /\ InputsKnown /\ [Next]_vars => InputsKnown'
  BY <1>3, InputsStayKnown
<1> QED BY <1>2, <1>4, InputsKnownInit, RInvariance, PTL DEF Spec

(* What v4lconvert_convert makes of a frame of a grabber that is set up.   *)
LEMMA FrameConverted ==
  ASSUME InputsKnown, FormatsKnown, SetUp,
         v4lconvert_supported_dst_format(capture.dst_fmt.fmt), NEW set \in Settings
  PROVE  LET r == OfWholeFrame(cam, capture.src_fmt, capture.dst_fmt, set)
         IN  r.ok /\ r.image = [fmt |-> capture.dst_fmt.fmt, w |-> capture.width,
                                h |-> capture.height,
                                processed |-> IF set.processing THEN 1 ELSE 0,
                                rotated |-> cam.rotated,
                                hflip |-> set.hflip, vflip |-> set.vflip]
<1> DEFINE r == OfWholeFrame(cam, capture.src_fmt, capture.dst_fmt, set)
           n == IF set.processing THEN 1 ELSE 0
<1>1. set.processing \in BOOLEAN /\ set.hflip \in BOOLEAN /\ set.vflip \in BOOLEAN
  BY DEF Settings
<1>2. Chosen(capture) /\ capture.dst_fmt.fmt \in FourFormats /\ cam.rotated \in BOOLEAN
  BY DstFormats, CamerasAssumption DEF FormatsKnown, InputsKnown, SetUp
<1>3. /\ r.ok
      /\ Shows(r.image, capture.dst_fmt.fmt, capture.dst_fmt.w, capture.dst_fmt.h, n)
      /\ Turned(r.image, cam.rotated, set.hflip, set.vflip)
  <2>1. /\ IsFormat(capture.src_fmt) /\ (cam.rotated => capture.src_fmt.fmt \in Jpegs)
        /\ capture.src_fmt.fmt \in SrcFormats
        /\ capture.dst_fmt.image >=
              Needed(capture.dst_fmt.fmt, capture.dst_fmt.w, capture.dst_fmt.h)
    BY <1>2 DEF Chosen
  <2> QED BY <1>1, <1>2, <2>1, Delivered
<1> HIDE DEF r, n
<1>4. r.image = [fmt |-> capture.dst_fmt.fmt, w |-> capture.width, h |-> capture.height,
                 processed |-> n, rotated |-> cam.rotated,
                 hflip |-> set.hflip, vflip |-> set.vflip]
  BY <1>2, <1>3 DEF Chosen, Shows, Turned, IsImage, ImageFields
<1> QED BY <1>3, <1>4, Zenon DEF r, n

(* The fifth invariant: what is listed for a grabber can be had from the   *)
(* driver, and the call that created it has thrown nothing.                *)
OffersKept ==
  /\ (Convertible /\ Unmistaken(cam) /\ ~v4lcontrol_needs_conversion(cam))
        => \A out \in FourFormats : lists[out] \subseteq Own(cam)
  /\ stage = "created" => exception = "none"

LEMMA OffersKeptInit == Init => OffersKept
BY DEF Init, OffersKept, NoLists, FourFormats

(* Only GetDeviceInfo makes lists, and only of palettes it found all of.   *)
LEMMA OffersStayKept ==
  ASSUME InputsKnown, FormatsKnown, OffersKept, \A c \in Cameras : Deliverable(c), Next
  PROVE  OffersKept'
<1>1. CASE GetDeviceInfo
  <2> DEFINE w == driver.fmt.w  h == driver.fmt.h
             palettes == check_palettes_v4l2(cam, <<w, h>>)
  <2>1. /\ cam' = cam /\ stage' = "closed"
        /\ \/ lists' = lists
           \/ lists' = listFormats(palettes) /\ \A p \in palettes : p.ok
    BY <1>1, Zenon DEF GetDeviceInfo, query_device_v4l2
  <2>2. w \in Nat /\ h \in Nat /\ cam \in Cameras /\ Deliverable(cam)
    BY DEF FormatsKnown, HasSize, InputsKnown
  <2>3. CASE lists' = lists
    BY <2>1, <2>3 DEF OffersKept, Convertible
  <2>4. CASE lists' = listFormats(palettes) /\ \A p \in palettes : p.ok
    <3>1. (Convertible /\ Unmistaken(cam) /\ ~v4lcontrol_needs_conversion(cam))
             => \A out \in FourFormats : listFormats(palettes)[out] \subseteq Own(cam)
      BY <2>2, <2>4, SourcesListed, Zenon DEF Convertible
    <3> QED BY <2>1, <2>4, <3>1 DEF OffersKept, Convertible
  <2> QED BY <2>1, <2>3, <2>4
<1>2. CASE ~GetDeviceInfo
  <2>1. /\ UNCHANGED <<cam, lists>>
        /\ stage' = "created" => exception' = "none"
    BY <1>2, Zenon DEF Next, SetTunerFrequency, GetFrameGrabber, SetCapParam, InitCapture,
         InitCaptureFails, InitFormatConverter, StartCapture, DeliverFrame, StopCapture,
         SetVideoInputNStandard, SetFrameInterval, ReleaseFrameGrabber, Fail, Close
  <2> QED BY <2>1 DEF OffersKept, Convertible
<1> QED BY <1>1, <1>2

LEMMA FormatsInvariance ==
  ASSUME \A c \in Cameras : Deliverable(c)
  PROVE  Spec => [](InputsKnown /\ FormatsKnown)
<1>1. Init => InputsKnown /\ FormatsKnown
  BY InputsKnownInit, FormatsKnownInit
<1>2. RInv /\ (InputsKnown /\ FormatsKnown) /\ [Next]_vars => (InputsKnown /\ FormatsKnown)'
  <2>1. ASSUME RInv, InputsKnown, FormatsKnown, Next PROVE (InputsKnown /\ FormatsKnown)'
    BY <2>1, InputsStayKnown, FormatsStayKnown
  <2>2. ASSUME InputsKnown, FormatsKnown, UNCHANGED vars PROVE (InputsKnown /\ FormatsKnown)'
    BY <2>2 DEF vars, InputsKnown, InputsFound, FormatsKnown, HasSize, Chosen
  <2> QED BY <2>1, <2>2
<1> QED BY <1>1, <1>2, RInvariance, PTL DEF Spec

(* Every frame of a camera comes out of v4lconvert_convert as what         *)
(* set_image_format has chosen it to be, whatever formats and sizes the    *)
(* driver has, whichever of them the grabber was created with and however  *)
(* the software controls are set: neither the choice of formats with its   *)
(* retries, nor the conversions, the filters and the turns between the     *)
(* buffers leave an image of another format or size, or one processed      *)
(* twice, and no step fails.                                               *)
THEOREM PipelinesDeliver ==
  ASSUME \A c \in Cameras : Deliverable(c)
  PROVE  Spec => []PipelineDelivers
<1>1. InputsKnown /\ FormatsKnown => PipelineDelivers
  BY FrameConverted, Zenon DEF PipelineDelivers, OfWholeFrame
<1> QED BY <1>1, FormatsInvariance, PTL

(* The lengths of images are no less than 0.                               *)
LEMMA LengthsAreNat ==
  ASSUME NEW f, NEW w \in Nat, NEW h \in Nat
  PROVE  DriverImage(f, w, h) \in Nat /\ Needed(f, w, h) \in Nat
<1> DEFINE a == w * h
<1>1. a \in Nat
  OBVIOUS
<1>2. f \in SrcFormats => SrcRow(f).bpp \in Nat
  BY SrcRows DEF TableRow
<1>3. \A n \in Nat : a * n \in Nat /\ (a * n) \div 8 \in Nat /\ (a * n) \div 2 \in Nat
  <2> HIDE DEF a
  <2> TAKE n \in Nat
  <2>1. a * n \in Nat
    BY <1>1
  <2> QED BY <2>1
<1>4. DriverImage(f, w, h) = IF f \in SrcFormats /\ SrcRow(f).bpp # 0
                             THEN (a * SrcRow(f).bpp) \div 8 ELSE a
  BY DEF DriverImage
<1>5. Needed(f, w, h) = IF f \in {"RGB24", "BGR24"} THEN a * 3 ELSE (a * 3) \div 2
  BY DEF Needed
<1> HIDE DEF a
<1> QED BY <1>1, <1>2, <1>3, <1>4, <1>5

(* What fillBuffer makes of a frame, be it copied or converted.            *)
LEMMA FrameFilled ==
  ASSUME RInv, InputsKnown, FormatsKnown, GrabberAgrees, SetUp, Convertible, NEW set \in Settings,
         ~(capture.is_native /\ capture.needs_conversion)
  PROVE  LET f == fillBuffer(set)
         IN  /\ f.fmt = Promised /\ f.w = capture.width /\ f.h = capture.height
             /\ f.len \in 0 .. IF NeedsDoubleBuffer THEN dev.double ELSE dev.buffer
<1> DEFINE src == capture.src_fmt
           dst == capture.dst_fmt
           conv == v4lconvert_convert(cam, src, dst, set)
           image == IF capture.is_native THEN Captured(cam, src) ELSE conv.image
           len == IF capture.is_native THEN src.image
                  ELSE IF conv.ok THEN Needed(dst.fmt, image.w, image.h) ELSE -1
           room == IF NeedsDoubleBuffer THEN dev.double ELSE dev.buffer
           f == fillBuffer(set)
<1>1. /\ f.fmt = IF ~dev.need_conv THEN image.fmt
                 ELSE IF image.fmt = capture.palette THEN "JPEG" ELSE "garbage"
      /\ f.w = image.w /\ f.h = image.h /\ f.len = len
  BY DEF fillBuffer
<1> HIDE DEF f
<1>2. /\ Askable(SrcFormat, DestFormat) /\ Consistent(capture) /\ Chosen(capture)
      /\ dst.fmt = DestFormat /\ (DestFormat \notin FourFormats => ~capture.needs_conversion)
      /\ capture.palette = DestFormat
      /\ dev.output_fmt \in Kinds /\ dev.need_conv = (dev.output_fmt = "JPG")
      /\ dev.buffer = get_buffer_length
      /\ NeedsDoubleBuffer => dev.double = capture.imagesize
  BY DEF GrabberAgrees, FormatsKnown, RInv, Compressible, SetUp, HasFormat, Agreed
<1>3. /\ src.w \in Nat /\ src.h \in Nat /\ dst.w \in Nat /\ dst.h \in Nat
      /\ src.image = DriverImage(src.fmt, src.w, src.h)
      /\ capture.width = dst.w /\ capture.height = dst.h
  BY <1>2 DEF Consistent, Chosen, HasSize
<1>4. Needed(dst.fmt, dst.w, dst.h) \in Nat /\ src.image \in Nat
  BY <1>3, LengthsAreNat
<1>5. dev.buffer = IF dev.output_fmt \in {"RAW", "JPG"} THEN capture.imagesize
                   ELSE Needed(dst.fmt, dst.w, dst.h)
  BY <1>2, <1>3 DEF get_buffer_length, DestFormat, Kinds, FourFormats
<1>6. /\ image.fmt = DestFormat /\ image.w = dst.w /\ image.h = dst.h
      /\ len \in 0 .. room
  <2>1. CASE capture.is_native
    <3>1. ~v4lconvert_needs_conversion(cam, src, dst)
      BY <1>2, <2>1 DEF Consistent
    <3>2. /\ src.fmt = dst.fmt /\ src.w = dst.w /\ src.h = dst.h
          /\ ~v4lcontrol_needs_conversion(cam)
      <4>1. DestFormat \notin FourFormats => ~v4lcontrol_needs_conversion(cam)
        BY <1>2 DEF Askable
      <4> QED BY <1>2, <3>1, <4>1, DstFormats DEF v4lconvert_needs_conversion
    <3>3. ~cam.rotated
      BY <3>2, CamerasAssumption DEF v4lcontrol_needs_conversion, InputsKnown
    <3>4. image.fmt = src.fmt /\ image.w = src.w /\ image.h = src.h
      BY <2>1, <3>3 DEF Captured, Garbage
    <3>5. capture.imagesize = src.image /\ ~NeedsDoubleBuffer
      BY <1>2, <2>1 DEF Consistent, NeedsDoubleBuffer
    <3>6. dst.fmt \in FourFormats => src.image = Needed(dst.fmt, dst.w, dst.h)
      BY <1>3, <3>2, FourImages
    <3>7. dev.buffer = src.image
      BY <1>2, <1>5, <3>5, <3>6 DEF DestFormat, Kinds
    <3> QED BY <1>2, <1>4, <2>1, <3>2, <3>4, <3>5, <3>7
  <2>2. CASE ~capture.is_native
    <3>1. capture.needs_conversion /\ dst.fmt \in FourFormats
      BY <1>2, <2>2 DEF Consistent
    <3>2. conv.ok /\ conv.image.fmt = dst.fmt /\ conv.image.w = dst.w /\ conv.image.h = dst.h
      <4> DEFINE r == OfWholeFrame(cam, src, dst, set)
      <4>1. r.ok /\ r.image = [fmt |-> dst.fmt, w |-> capture.width, h |-> capture.height,
                               processed |-> IF set.processing THEN 1 ELSE 0,
                               rotated |-> cam.rotated, hflip |-> set.hflip, vflip |-> set.vflip]
        BY <3>1, FrameConverted, DstFormats, Zenon
      <4>2. conv = r
        BY DEF OfWholeFrame
      <4> HIDE DEF conv, r
      <4> QED BY <1>3, <4>1, <4>2
    <3> HIDE DEF conv
    <3>3. len = Needed(dst.fmt, dst.w, dst.h)
      BY <2>2, <3>2
    <3>4. capture.imagesize = dst.image /\ dst.image >= Needed(dst.fmt, dst.w, dst.h)
      BY <1>2, <3>1 DEF Consistent, Chosen
    <3>5. room = dst.image \/ room = Needed(dst.fmt, dst.w, dst.h)
      BY <1>2, <1>5, <3>4
    <3> QED BY <1>2, <1>4, <2>2, <3>2, <3>3, <3>4, <3>5
  <2> QED BY <2>1, <2>2
<1> HIDE DEF image, len, room
<1>7. f.fmt = Promised
  BY <1>1, <1>2, <1>6 DEF Promised, DestFormat
<1> QED BY <1>1, <1>3, <1>6, <1>7 DEF f, room

(* Every frame a program gets is in the format the grabber was created     *)
(* for, has the size the grabber reports and fits in the buffer it goes    *)
(* to, whether it is copied as the driver delivers it or converted: what   *)
(* try_image_format found out, what S_FMT set, how init_capture_format and *)
(* init_format_converter sized the buffers and what fillBuffer does to the *)
(* frame agree, after any calls in between.                                *)
THEOREM FramesDelivered ==
  ASSUME \A c \in Cameras : Deliverable(c)
  PROVE  Spec => []FramesAsPromised
<1>1. ASSUME RInv, InputsKnown, FormatsKnown, GrabberAgrees
      PROVE  FramesAsPromised
  <2> SUFFICES ASSUME stage = "streaming", frame # NoFrame, Convertible,
                      ~(frame.native /\ capture.needs_conversion)
               PROVE  /\ frame.fmt = Promised
                      /\ frame.w = capture.width /\ frame.h = capture.height
                      /\ frame.len \in 0 .. IF NeedsDoubleBuffer THEN dev.double ELSE dev.buffer
    BY Zenon DEF FramesAsPromised
  <2>1. PICK set \in Settings : frame = fillBuffer(set)
    BY <1>1 DEF GrabberAgrees
  <2>2. frame.native = capture.is_native
    BY <2>1 DEF fillBuffer
  <2>3. SetUp
    BY DEF SetUp
  <2> QED BY <1>1, <2>1, <2>2, <2>3, FrameFilled
<1>2. RInv /\ (InputsKnown /\ FormatsKnown) /\ GrabberAgrees /\ [Next]_vars => GrabberAgrees'
  <2>1. ASSUME GrabberAgrees, UNCHANGED vars PROVE GrabberAgrees'
    BY <2>1, GrabberStays DEF vars
  <2> QED BY <2>1, GrabberStaysAgreed
<1> QED BY <1>1, <1>2, GrabberAgreesInit, FormatsInvariance, RInvariance, PTL DEF Spec

(* A grabber created with a format of the device's own lists does not fail *)
(* for that format, however often other grabbers have come and gone: what  *)
(* check_palettes_v4l2 found out with TRY_FMT when the device was opened,  *)
(* set_image_format can set when the grabber is made.                      *)
THEOREM OffersAreKept ==
  ASSUME \A c \in Cameras : Deliverable(c)
  PROVE  Spec => OfferedFormatsWork
<1> DEFINE Expected == /\ stage = "created" /\ ~driver.buffers
                    /\ ~v4lcontrol_needs_conversion(cam) /\ Convertible /\ Unmistaken(cam)
<1>1. ASSUME RInv, InputsKnown, FormatsKnown, OffersKept, Expected, SetCapParam
      PROVE  exception' # "ImageFormatException"
  <2> DEFINE s == set_std(capture, driver)
             i == set_input(s.c, s.d)
             f == set_image_format(s.c, i.d, SrcFormat, DestFormat)
  <2>1. \/ exception' \in {"VideoStandardException", "V4L4JException"}
        \/ ~f.ok
        \/ exception' = exception
    BY <1>1 DEF SetCapParam, Fail
  <2>2. /\ IsCapture(s.c) /\ s.c.width = capture.width /\ s.c.height = capture.height
        /\ Alike(s.d, driver)
    BY <1>1, StdNegotiated DEF RInv, Structs
  <2>3. i.d.buffers = driver.buffers
    BY <2>2, InputSwitched DEF Alike, Kept
  <2>4. SrcFormat \in Own(cam) \cup {"none"} /\ Askable(SrcFormat, DestFormat)
    BY <1>1, AskedForListed DEF FormatsKnown, OffersKept, SrcFormat, Kinds
  <2>5. i.d.buffers = FALSE
    BY <1>1, <2>3
  <2>6. f.ok
    <3>1. cam \in Cameras /\ Deliverable(cam)
      BY <1>1 DEF InputsKnown
    <3> HIDE DEF s, i
    <3> QED BY <1>1, <2>2, <2>4, <2>5, <3>1, FormatAccepted DEF FormatsKnown
  <2>7. exception = "none"
    BY <1>1 DEF OffersKept
  <2> HIDE DEF s, i, f
  <2> QED BY <2>1, <2>6, <2>7
<1>2. ASSUME OffersKept, Expected, Next, ~SetCapParam
      PROVE  exception' # "ImageFormatException"
  BY <1>2, Zenon DEF Next, GetDeviceInfo, SetTunerFrequency, GetFrameGrabber, InitCapture,
     InitCaptureFails, InitFormatConverter, StartCapture, DeliverFrame, StopCapture,
     SetVideoInputNStandard, SetFrameInterval, ReleaseFrameGrabber
<1>3. ASSUME OffersKept, Expected, UNCHANGED vars
      PROVE  exception' # "ImageFormatException"
  BY <1>3 DEF OffersKept, vars
<1>4. RInv /\ (InputsKnown /\ FormatsKnown) /\ OffersKept /\ [Next]_vars
         => (Expected => exception' # "ImageFormatException")
  BY <1>1, <1>2, <1>3
<1>5. Spec => []OffersKept
  <2>1. (InputsKnown /\ FormatsKnown) /\ OffersKept /\ [Next]_vars => OffersKept'
    <3>1. ASSUME OffersKept, UNCHANGED vars PROVE OffersKept'
      BY <3>1 DEF OffersKept, Convertible, vars
    <3> QED BY <3>1, OffersStayKept
  <2> QED BY <2>1, OffersKeptInit, FormatsInvariance, PTL DEF Spec
<1> QED BY <1>4, <1>5, FormatsInvariance, RInvariance, PTL DEF Spec, OfferedFormatsWork
=============================================================================
