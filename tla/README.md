# A TLA+ model of v4l4j

v4l4j gives Java programs access to Video4Linux devices: webcams, capture
cards and tuners. A Java library (`src/src/au/edu/jcu/v4l4j`) calls through
JNI (`src/src/v4l4j_*.c`) into a C library, libvideo (`src/libvideo`), which
talks to the kernel and brings along a version of libv4lconvert
(`src/libvideo/libv4lconvert`), which turns what a camera sends into what the
program asked for. This directory models

- the part where threads meet: how a capture is started, run, stopped and
  released while frames travel between the driver, a push thread and the
  application, how a device hands out and takes back its parts, and how calls
  on its controls meet their release;
- the part that negotiates: formats, sizes, frame intervals, inputs, tuners
  and controls, between what a driver says it has, what the program is told,
  and what it gets when it asks for it;
- the part that computes: what the pixels of a frame are when they have been
  decoded, converted, turned, mirrored, cut and compressed.

All paths below that start with `src/` are relative to the repository's copy;
Java classes are in package `au.edu.jcu.v4l4j`.

1. [Inventory](#1-inventory)
2. [Modules and their relation to the code](#2-modules-and-their-relation-to-the-code)
3. [Runs](#3-runs)
4. [Disagreements](#4-disagreements)
5. [Fairness](#5-fairness)
6. [Proofs](#6-proofs)
7. [What the models leave out](#7-what-the-models-leave-out)
8. [Plan](#8-plan)

## 1. Inventory

| component | state it keeps | operations | talks to |
|---|---|---|---|
| frame grabber (`AbstractGrabber` and its `State` monitor) | `state`, `temp`, `users`; the queue `availableVideoFrames`; `videoFrames`; `lastCapturedFrameBufferIndex`; `pushSource` | `init`, `setCaptureCallback`, `startCapture`, `stopCapture`, `release`, `getNextVideoFrame`, `recycleVideoBuffer`, the video input and frame interval calls | push source (starts, stops it), JNI, video frames |
| push source (`PushSource`) | `state` (STOPPED, RUNNING, ABOUT_TO_STOP), its thread and the thread's interrupt flag | `startCapture`, `stopCapture`, `run` | calls `getNextVideoFrame` and the application's `CaptureCallback`, which may call the grabber |
| video frames (`BaseVideoFrame` and subclasses) | `recycled`, `bufferIndex`, the frame's monitor | `prepareForDelivery`, `recycle`, accessors | `recycleVideoBuffer` of the grabber |
| capture JNI and libvideo buffers (`v4l4j_FrameGrabber.c`, `v4l2-input.c`) | mmap'd buffers, which of them the driver has, streaming or not; format, standard, input, interval | `doInit`, `start`, `fillBuffer`, `enqueueBuffer`, `stop`, `doRelease`; format negotiation | libv4lconvert, kernel |
| video device (`VideoDevice` and its `State` monitor) | `fg`, `controls`, use count, the device's monitor | six grabber getters, `releaseFrameGrabber`, `getControlList`, `releaseControlList`, `release` | grabber, control list, libvideo |
| controls (`Control`, `ControlList`) | per control: a state monitor with a use count | value access, `release` | libvideo |
| control enumeration (`v4l2-input.c`, `libvideo.c`, the three `*-probe.c`) | the controls of the list; the driver's values | `get_control_list`, `get_control_value`, `set_control_value` | kernel, libv4lcontrol, private ioctls of drivers |
| software controls (`libv4lcontrol.c`) and processing (`processing/*.c`) | the settings of a camera in a shared memory segment; lookup tables; countdowns of automatic gain | `v4lcontrol_create`, get, set; `v4lprocessing_pre_processing`, `v4lprocessing_processing` | all programs that have the camera open; the camera's gain and exposure |
| tuners (`Tuner`, `TunerList`, `v4l2-tuner.c`) | the frequency in the driver; a released flag | `getFrequency`, `setFrequency`, signal access | libvideo |
| device information (`DeviceInfo`, `ImageFormatList`, `ResolutionInfo`, `v4l2-query.c`) | built once, then only read | the lists of inputs, formats, sizes, intervals; `listIntervals` | libv4lconvert |
| format choice and pipeline (`libv4lconvert.c`) | per handle: converters, previous frame, counters, temporary buffers | `try_format`, `enum_fmt`, `enum_framesizes`, `convert` | decoders, flip and crop, processing |
| decoders (`bayer.c`, `cpia.c`, `mr97310a.c`, `tinyjpeg.c`, ...) | tables, and what compressed frames are relative to | from one buffer to another | pixfc-sse, libjpeg |
| JPEG compressor (`src/src/jpeg.c`) | none | one frame to one image | libjpeg |
| libvideo device life cycle (`libvideo.c`) | which parts of `struct video_device` are not NULL | `open_device`, `close_device`, `get_*`/`release_*` | kernel |
| V4L1 twins, further decoders, camera HTTP server, viewers, encoder, streaming | | | |

**What is hard in it.** Up to four kinds of threads work on one grabber: the
application's own, the push thread, a push thread whose source was replaced
but whose callback has not returned, and workers that recycle frames. They
share two small monitors, a bounded queue, one monitor per frame and plain
fields read without any lock. The push thread blocks in three different
places and is told to end by an interrupt that only two of them notice. A
frame's way back (`recycle`) is three steps a `stopCapture` can cut through.
`startCapture` has several places to fail and has to undo what it did. The
use counts are incremented and decremented on dozens of paths, many of them
exceptional, and `setValue` takes two uses with a gap between them.

Below, the state is shared with programs and drivers. Settings live in a
segment of shared memory nobody locks. A format is negotiated in four calls
whose answers have to fit together and to fit lists made earlier. Automatic
gain judges frames some of which were taken before its last correction. A
frame passes through up to five buffers, and what libv4lconvert takes a buffer
to hold is a record updated separately. A handle keeps things from one frame
to the next (a converter, a previous frame, Huffman tables) that the next may
not be able to use. `PROJECT.json` lists each hazard with the line where it
bites and the properties that watch it.

**What makes each component correct.**

- *Frame grabber*: `users` is the number of threads inside
  `getNextVideoFrame`; nobody sleeps in the monitor while its condition
  holds; frames are delivered only while capturing; a committed stop leaves
  nothing moving; a failed start is undone; a stopped grabber can be started
  again; nothing is called natively after the buffers were freed; every call
  returns.
- *Frames and buffers*: a frame object and a driver buffer have one owner
  each; a held frame is usable and shows its own buffer; the driver has a
  buffer whenever a push thread asks for one; no frame is lost; the queue
  never overflows.
- *Push source*: it is stopped when its capture is, and can be started again.
- *Video device*: the use count equals the parts handed out; `release` waits
  for them, is woken, and is all or nothing; native calls find their part.
- *Controls*: a released control refuses calls, `release` waits for those in
  progress; use counts return to zero; the list holds every control once; a
  value returned lies within the bounds that were advertised.
- *Software controls*: what was set survives every open and close of the
  camera by any program; the tables applied to frames end up as controls and
  light ask for; automatic gain does not react to its own past.
- *Formats*: whatever a list offers works when asked for; a grabber's frames
  have the format, size and length it promised.
- *Inputs and tuners*: the channel and tuner reported are the driver's.
- *Pictures*: what the application sees is what the camera saw; an incomplete
  frame is refused.
- *libvideo*: `close_device` refuses while a part is in use; a failed set-up
  leaves nothing behind.

## 2. Modules and their relation to the code

```
threads      GrabberState, DriverQueue ---- FrameGrabber ---- MCFrameGrabber
                                             |      '-------- FrameGrabber_proofs
                                             |                  GrabberSources_proofs
                                             |                  GrabberFrames_proofs
                                             |                  GrabberSession_proofs
                                   INSTANCE CaptureSession (refinement)

             VideoDevice ---- Controls ---- MCControls
                   |             |    '---- Controls_proofs
                   |      INSTANCE VideoDevice (refinement)
                   '---- VideoDevice_proofs

controls     FakeControls ---- SoftControls ---- Processing ---- MCProcessing
                   \                                   '-------- Processing_proofs
             DriverProbes ---- ControlList ---- MCControlList

formats      V4lConvert ---- V4lPipeline    DeviceInputs
                                       \     /
                                     DeviceInfo ---- Capture ---- MCCapture
                                                       '---- Capture_proofs

pictures     PixelBuffers -+- Rgbyuv -+- Bayer --------------------------------------.
                           |          +- CameraFormats ------------------------------+
                           |          '- Tinyjpeg - TinyjpegDecode - Jpeg -----------+- ConvertPixfmt
                           |                                           |             |        |
                           +- CompressedBayer -------------------------|-------------'        |
                           |                                     CameraFrames                 |
                           |                                     CameraJpegs                  |
                           |                                     CompressedFrames ---- Pictures ---- MCPictures
                           '- FlipCrop --------------------------------------------------'
```

An edge to the right or down is EXTENDS; each of the four proof modules of the
frame grabber extends the one above it. The four groups meet in constants
and placeholders and not in one big module: the threads do not depend on what
a frame shows, the pixels not on who recycles the frame. Where a group stands
on another, it says so: `Capture` makes one call at a time, because
`VideoDevice` and `FrameGrabber` show which calls exclude each other;
`V4lPipeline` takes "this step decodes" for what `Pictures` follows byte by
byte.

### Threads

**`GrabberState`** is `AbstractGrabber.State`: the two-phase state machine
(`start()` stores a target in `temp`, `commit()` installs it, `rollback()`
drops it) and the user count. A synchronized method is one step; `wait()`
puts the thread into `waiting`, `notify()` takes out one arbitrary thread or
none. Its definitions are fragments that `FrameGrabber` conjoins with the
steps of the calling thread. Note `MayStart` and `MayRelease`: Java's
precedence of `&&` over `||` means that from INIT `temp` is not looked at.

**`DriverQueue`** is the V4L2 buffer queue as libvideo drives it. `QBUF` of a
buffer the driver already has fails; `start_capture_v4l2` queues buffers in
index order and leaves those queued before an error with the driver;
`STREAMOFF` takes all back. The kernel is external, modelled from the ioctls
libvideo makes and how it reacts to them.

**`FrameGrabber`** composes the two with `AbstractGrabber`, `PushSource` and
`BaseVideoFrame`. `pc[t]` is where thread `t` stands in the method it is
calling and `run[s]` where the push thread of source `s` stands in
`PushSource.run()`. A push thread in its callback calls methods like any other
thread, so it has a `pc` too. Between two locations a thread touches shared
state once. Correspondence:

| code | actions |
|---|---|
| `init`, `setCaptureCallback` | `Open`, `SetCaptureCallback` |
| `startCapture` | `StartCall` (state.start), `StartSource` (pushSource.startCapture), `StartWait` (waitForAtLeastOneUser), `StartNative`, `StartCommit`, `StartFill` (addAll, one add at a time), and on failure `StartUndo`, `StartRollback` |
| `stopCapture` | `StopCall`, `StopSource`, `StopNative`, `StopUsers`, `StopRecycle` (the loop over `videoFrames`), `StopClear`, `StopCommit` |
| `PushSource.stopCapture`, called by both | `SourceStop`, `SourceInterrupt`, `SourceJoin` |
| `release` | `ReleaseCall` (the enclosed `stopCapture`), `ReleaseMark`, `ReleaseNative`, `ReleaseCommit` |
| `VideoFrame.recycle` and `recycleVideoBuffer` | `RecycleCall`, `EnterRecycle` (monitor, `recycled`, `isStarted`), `RecycleTemp`, `RecycleEnqueue`, `RecyclePut`, `RecycleDone` |
| `PushSource.run`, `getNextVideoFrame` | `PushLoop`, `PushGet`, `PushAvail`, `PushFill`, `PushFrameFails`, `PushDeliver`, `PushPut`, `PushPutThrows`, `PushReturn`, `PushCaught`, `PushExceptionDone`, `PushExit` |
| `setVideoInputNStandard`, `getVideoInput`, `getVideoStandard` | `VideoInputCall`, `VideoInputNative` |

`held` is not a variable of the code: it is what the application has, the
frames passed to `nextFrame` that it has not recycled.

**`CaptureSession`** is what a grabber promises, in two variables: the phase
of its life and the frames the application holds, each with the buffer it
shows. `FrameGrabber` implements it under the refinement mapping `Phase` (read
off `state` and `temp`; a start that has not committed is still idle, so that
one that fails is a stutter) and `view` (held frames to `bufferIndex`). The
mapping says in one property that a held frame's buffer is never exchanged or
delivered twice, that deliveries happen only while capturing, that the life
of a grabber has no other transitions than the documented ones; its live form
says that a stop and a release once begun complete.

**`VideoDevice`** is the device object: its own `State` monitor with the use
count, the monitor of the object itself (`monitor`, its owner), the handles
`grabber` and `controls`, and libvideo's `parts` with `open`. The six grabber
getters are one action pair `GetGrabber`/`InitGrabber`; getters called while a
grabber exists are `GetSecondGrabber`. `release(true)` and `release(false)`
share `Release`; an interrupted or refused one is `ReleaseInterrupted`. A call
on a Control is a placeholder here: it begins with `ControlCall`, ends with
`ControlReturn`, and `ControlsReleased` waits until none is in progress. That
the real controls achieve this is what `Controls` is about.

**`Controls`** extends `VideoDevice` with the controls of the list: per
control the State monitor (`ctlTemp`, `ctlUsers`, `ctlWaiting`), per thread
the location inside the call (`at`, `ctl`) and the number of `put()`s still due
on its way out (`puts`). `Control.State.state` never changes, as nobody calls
its `commit()`; `temp` decides. Correspondence:

| code | actions |
|---|---|
| `getValue`, `setValue`, `getDiscreteValue...`, `increaseValue`, `decreaseValue`, the string and long accessors | `GetValue`, `SetValue`, `GetDiscreteValues`, `IncreaseValue`, `DecreaseValue`, `GetText`, `SetText`, each up to its first native call |
| the native calls of `v4l4j_Control.c`, and what a failure makes of the call | `Native` |
| the `getValue()` that `setValue()` ends with | `SetNested` |
| `State.put` in catch and finally clauses | `Put`, one at a time |
| `getControlList` | `NewControls` |
| `ControlList.release`, `Control.State.release` | `ReleaseList`, then `ReleaseControl` for one control after the other, `ControlWakes`, `ControlInterrupted`, `ListReleased` |

The controls are of three kinds, because the paths are: `Sliders` (everything
with an int value), `Buttons` and `Texts` (string and long). Its refinement
property, `ImplementsDevice`, says that the device with its controls is a
`VideoDevice`, fairness included.

### Controls and processing

**`FakeControls`** is the table of software controls and which of them a
camera gets (`v4lcontrol_create`: by its flags, by what the driver has, by
whether its frames are always converted). It is shared by the two modules
below it.

**`SoftControls`** is `libv4lcontrol.c`'s shared memory: `values` is the
segment, which every handle maps and nobody unlinks. Creating a handle takes
two steps, `Create` (shm_open, mmap) and `FillDefaults` for the one who made the
segment, because other handles can come in between. **`Processing`** is what
`v4lprocessing_pre_processing` and `v4lprocessing_processing` do with them: two
actions per frame, with settings, other programs and failed decoding in
between; white balance, gamma and automatic gain recalculate the lookup
tables when a setting has changed or ten frames have passed. The camera has a
queue of frames in flight, each with the exposure and gain it was taken with;
luminance and colour averages are data of the scene. One field of a handle's
data, `hurried`, is history and not in the code: who last set the counter.

**`DriverProbes`** has the private ioctls of three old drivers
(`pwc-probe.c`, `gspca-probe.c`, `qc-probe.c`) and the table
`known_driver_probes`: how libvideo recognises the driver by trying, what the
trying changes, and the controls it makes of them. **`ControlList`** is the
three enumerations of `v4l2-input.c` (standard ids, private ids,
`V4L2_CTRL_FLAG_NEXT_CTRL`), menus, the straightening of bounds
(`fix_quirky_...`), probes, and the way of a value: in software, by the driver
or by a private ioctl. `getValue`, `setValue`, `increaseValue` and
`decreaseValue` of `Control.java` are made of native calls, and `OtherSets` is
another program that changes a value between any two of them. A driver is a
record that says which ids it answers and how; control ids are small numbers
in the order of the real ones.

### Formats

**`V4lConvert`** is the choice libv4lconvert makes: which formats and sizes a
camera appears to have (`v4lconvert_enum_fmt`, `v4lconvert_enum_framesizes`,
`v4lconvert_enum_frameintervals`) and which of the camera's own formats is the
best source for one that was asked for (`v4lconvert_try_format`,
`v4lconvert_do_try_format`), with ranks, bandwidth and rounding. The sets of
source formats are the masks of the code, `1 << j` for row `j` of a table of 38
rows (`libv4lconvert.c:145`, 1368, 1381; tested at 233, 330 and 372): `Bits` says
which bit a row has, and for those past the 32nd what the processor makes of
such a shift (`wraps`).
**`V4lPipeline`** is `v4lconvert_convert` as a walk through buffers: what the
current one holds (an image: format, size, processed, turned and mirrored or
not) against `my_src_fmt`, what the code takes it to hold; a step that is
wrong about it produces `Garbage`.

**`DeviceInputs`** finds inputs, their standards and tuners
(`check_inputs_v4l2`), makes `TunerList` of them, and sets and reads
frequencies, with the straightening of `fix_quirky_values`. **`DeviceInfo`**
finds palettes (`query_device_v4l2`) and makes the lists of image formats,
resolutions and intervals a program sees. Formats and palettes are sets: nothing
depends on the order they are enumerated in.

**`Capture`** composes them with `doInit`, call by call, so that what each
leaves behind when the next one fails is a state:

| code | actions |
|---|---|
| `VideoDevice.getDeviceInfo` | `GetDeviceInfo` |
| `get*FrameGrabber`, with or without a list's format and size | `GetFrameGrabber` |
| `set_cap_param` (input, standard, format) | `SetCapParam` |
| `init_capture` | `InitCapture`, `InitCaptureFails` |
| `init_format_converter` | `InitFormatConverter` |
| `startCapture`, `fillBuffer`, `stopCapture` | `StartCapture`, `DeliverFrame`, `StopCapture` |
| `setVideoInputNStandard`, `setFrameInterval`, `Tuner.setFrequency` | `SetVideoInputNStandard`, `SetFrameInterval`, `SetTunerFrequency` |
| `releaseFrameGrabber` | `ReleaseFrameGrabber` |

### Pictures

A buffer is a function from offsets to bytes, a conversion an operator from
buffer to buffer. **`PixelBuffers`** has C's casts and divisions and the plane
layouts; **`Rgbyuv`** the plain conversions, in the integer arithmetic of the
macros; **`Bayer`**, **`CameraFormats`** and **`CompressedBayer`** the
decoders of raw, proprietary and compressed formats; **`Tinyjpeg`** and
**`TinyjpegDecode`** the bundled JPEG decoder, from Huffman tables and the
inverse cosine transform up to the restart markers; **`Jpeg`** v4l4j's own
compressor and the decompression with libjpeg, whose samples are abstract;
**`FlipCrop`** the steps that move pixels; **`ConvertPixfmt`** the switch of
`v4lconvert_convert_pixfmt`.

**`CameraFrames`**, **`CameraJpegs`** and **`CompressedFrames`** are the other
side: cameras that code a scene, written from the descriptions of the formats
and not by inverting the decoders. They are external code: the model needs
them so that a conversion can be judged by what it is for.

**`Pictures`** puts the two together. A scene is a colour with a patch of
another in its upper left quarter, so that orientation, offsets, order of
planes and order of colours all show. A camera takes it (`Capture`; perhaps
not all of the frame arrives, perhaps it is compressed relative to the one
before), the frame is decoded and converted once, or twice over RGB24 when
white balance is on, then rotated, flipped, cropped, perhaps compressed, one
action per step of `v4lconvert_convert`, and delivered. The handle of the
grabber keeps what the code keeps between frames: the pixfc converter,
CPIA1's previous frame, the count of MR97310A's incomplete frames, tinyjpeg's
tables and the decision to use tinyjpeg. A `job` says what camera and
application agree on.

### Instances for TLC

The `MC...` modules give the constants their values: cameras, drivers, jobs,
scenes. No symmetry is used: the liveness runs may not, and the roles of the
threads differ in most of the others.

## 3. Runs

Roles are constants: `Starters`, `Stoppers`, `Recyclers` and so on say which
threads make which calls, `Faults` what may fail. A run of the threads group
is a small application written that way, a run of the others a set of cameras
or drivers and what a program may ask of them.

| run | shows | bounds |
|---|---|---|
| `OneThread` | the pattern of the examples: one thread owns the grabber, frames are recycled in `nextFrame`. No frame is lost, the queue never overflows, every stop leaves driver and source ready to start. `isStarted()` reads its two fields at two instants here | 3 buffers |
| `Worker` | a worker recycles while the owner starts, stops and releases, the callback recycles and stops the capture too; STREAMON, DQBUF, the conversion of a frame and callbacks may fail. Frames and buffers have one owner, a held frame is usable, freed buffers are not touched, and the grabber implements `CaptureSession` | 1 source, 2 buffers |
| `Live` | a camera that keeps delivering, a worker that may recycle, callbacks that are replaced or fail, frames that cannot be converted: a committed stop leaves nothing moving, failed starts are rolled back, frames are delivered only while started, every call returns and every stop and release completes | 2 sources, 2 buffers |
| `OldSource` | a push thread whose source was replaced is still in its callback and stops its successor's capture: the user count stays exact, both threads use the monitor's one wait set for opposite conditions, and nobody sleeps although its condition holds | 2 sources, 1 buffer |
| `Calls` | three threads create and release grabber and control list, use a slider and a text control while the list is released and made again, and release the device; grabbers fail to initialise or refuse release, waiting releases of the device are interrupted. The counts of the device and of its controls are exact, their releases wait for every user and are woken, the release of the device is all or nothing, no native call meets a part that is gone, every call returns; the whole implements `VideoDevice` | 3 threads, 2 controls |
| `ControlsMisused` | buttons, native calls that fail, second grabbers, a driver on which the description of the device, grabbers, control lists and releases fail, interrupted releases of the list: a control accepts calls only while libvideo has the control part, and handles have their parts in libvideo | 2 threads, 2 controls, `MaxUses` 1 |
| `SoftwareControls` | two programs open and close a camera with software controls, set them, and one captures, in a light that changes: settings survive every open and close, tables end up as controls and light ask for, automatic gain does not react to frames taken before its last correction | 2 handles, 2 settings, 1 change of light, 2 frames in flight |
| `Capture` | fourteen cameras, every listed format and size: frames as promised, buffers of the pipeline as believed, channel and tuner as reported, devices reusable after failures, and what is offered (formats, sizes, intervals) can be had | 14 cameras, 3 sizes besides the listed ones, 4 intervals, 3 standards, one frequency, above every range |
| `ControlLists` | fourteen drivers with every type of control and the oddities the code straightens: the list is complete and without duplicates, values returned lie within the bounds advertised | 14 drivers, 2 changes by others |
| `Pictures` | every modelled format to every format an application gets: the picture shows the scene, incomplete frames are refused where the conversion, libjpeg excepted, can tell | see below |
| `SilentCamera`, `UnconvertedFrames` | disagreements, see below | |

Deadlock is not checked where the system may stop for good: an application
may stop calling, and a released grabber has nothing left to do (the threads
group); a driver probe crashes the process in one of `ControlLists`' drivers;
all frames of a job have been taken in `Pictures`. What must not get stuck in
the first group is said by `CallsReturn`, `ImplementsLiveSession` and
`NoLostWakeup`. `SoftwareControls` and `Capture` check deadlock.

Some properties have parts that are named in the modules: `NoFrameLost`
contains `QueueNeverFull`, `HeldFramesUsable` contains `HeldBuffersOwned`,
`ReadyToStart` is `DriverReady` and `SourceReady`.

**Why the bounds are enough.** *Threads.* The hazards need, at most, one thread
per role, and two sources (one replaced by the other). Two buffers distinguish "a
buffer" from "another buffer" and make the queue neither always empty nor
always full; the third one in `OneThread` lets a frame be queued, one be
filled and one be held at once. `NumBuffers = 1` in `OldSource`, which is about
threads, leaves every interleaving of monitor operations and costs none of
them. Two controls let a release be past one and wait for the other, three
threads let one release while two are in calls on the same control. Captures,
calls and lists are started and ended any number of times: no counter bounds
the length of a run, except `MaxUses`, which bounds how far a mismatched count
can drift in `VideoDevice` and `Controls`; it guards nothing in `Calls`, where
counts do not drift.

*Processing.* Two frames in flight and the countdown of automatic gain are
what an overreaction needs; two settings can change a control there and back,
or one control before and one between the two halves of a frame. The countdown
of ten frames between recalculations is the code's own.

*Formats.* The choice depends on a camera's formats, sizes, flags and bandwidth,
never on history: one camera for each distinction the code draws (UVC or not,
flags or not, native format or not, Bayer sensor slightly too large, sideways
sensor, several inputs, no known format, more formats than the mask has bits,
on both kinds of processors). Of the sizes asked for, one is the
"any" size, one is listed, one needs rounding.

*Pictures.* A conversion treats all pixels (blocks, pairs of lines) of one
position alike, so the smallest size the format allows has all of them: first
and last lines and columns, both parities, the borders between two colours.
Pictures are 16 by 8 up to 32 by 32. Three scenes (two where colours do not
matter to the case) make each of three components high and low. Grabbers that
keep something between frames get two, three (CPIA1) or four (MR97310A)
frames. The comparison is exact up to the precision of the arithmetic: ±5
levels; ±16 for luma made of Bayer data, and for edges inside a tinyjpeg block,
whose quantization tables are rounded; ±24 for SQ905C, a lossy code. Only
pixels in the middle of a colour are looked at, one pixel from the edge, two
where colours are interpolated. Frames processed by white balance are judged
in black-and-white scenes, which it leaves alone; what it does to colours is
in `Processing`.

Every property has a mutant in `PROJECT.json`, a plausible bug whose effect
the same run finds within the same bounds.

**Restrictions in the runs, and what lies beyond them.** Some constants
exclude a use of the library for which a property does not hold. They are not
assumptions of convenience: each one names something the code does not
protect, and setting it otherwise in a `.cfg` reproduces it.

| restriction | without it |
|---|---|
| `SplitRead = FALSE` where others recycle | `isStarted()` is not synchronized; a recycle that reads `state` before and `temp` after a stop and a restart goes on although the capture it belongs to is over, and enqueues a buffer or a frame of the next one |
| `DropAtStop = TRUE`: the application forgets its frames when a stop ends | a frame kept over a stop and a start is the same object as one of the new capture: its `recycle()` enqueues a frame that is queued already, `FrameHasOneUser` and `NoFrameLost` fail |
| `PatientStop = TRUE`: no stop during a start | `startCapture()` commits before it fills the queue; a stop in between clears a queue that is filled afterwards, `QuietWhenStopped` fails |
| `QueueCapacity = NumBuffers` | the driver may grant more buffers than were asked for; see section 4 |
| `Starters` a single thread | from INIT `start()` does not look at `temp`: two starts proceed at once, and so do a start and a release |
| with two sources, the thread that replaces the callback is the only one that stops (`Live`; `OldSource` drops this and checks what still holds) | `setCaptureCallback()` is not refused during a stop, and `stopCapture()` reads `pushSource` outside the monitor: it then stops the new source, the push thread of the old one is never interrupted, and `QuietWhenStopped` and `CallsReturn` fail |
| `InputUsers` the releasing thread only | `checkReleased()` is not held over the native call, `NoNativeCallAfterFree` fails |
| `Faults` without "describe" in `Calls` | libvideo's description of the device stays in use, and `release()` can neither close the device nor give up, see section 4 |
| `Faults` without "streamon" where `ReadyToStart` is checked | buffers queued before a failing STREAMON stay queued, and every later start fails on them |
| `Recyclers` of `Live` do not run in the callback | a `recycle()` that blocks or is blocked on inside the callback may consume the only interrupt the push thread gets |
| `Stoppers` of `Live` is `main` alone | a capture stopped by its own callback cannot be restarted at once, see section 4 |
| `AskTwice = FALSE`, "controls" not in `Faults` in `Calls` | the use count drifts, see section 4. A failed `doGetControlList` never puts its use back and `release` waits for ever |
| `Buttons` and `CallFaults` empty in `Calls` | a button, and a native call that fails or a value out of range in `increaseValue()`, puts a use back twice; the count of the control drifts, and a release passes a call in progress or waits for ever. An interrupted release of the list leaves a control marked as released, the next one passes over it without waiting |
| `Faults` without "mmap" in `Capture` | buffers granted before a failing mmap stay with the driver, `DeviceReusable` fails |
| `Switched` in `ChannelReported`, `Unmistaken` in `OfferedFormatsWork` | a grabber that was asked for a webcam's standard on a capture card, and a camera whose formats libv4lconvert's mask mistakes, see section 4 |
| `GoesWrong`, `Sound` and `ReadsWrongTables` in `Pictures` | each disjunct is a conversion that shows something else than the scene, see section 4 |
| `LeftToLibjpeg` in `IncompleteRefused` | libjpeg makes up the end of an image, see section 4 |

## 4. Disagreements

Two runs state what the repository says of itself, and TLC finds it violated.

- `SilentCamera` / `StopReturns`. `stopCapture()` joins the push thread before
  it tells the driver to stop, so while the camera delivers nothing the push
  thread stays in `VIDIOC_DQBUF` and `stopCapture()` never returns. The comment
  in `stopCapture` announces that the JNI layer is told to stop in order to
  wake it.
- `UnconvertedFrames` / `FramesConverted`. `set_cap_param` marks a capture as
  native by `force_native_fmt`, which JPEG and raw grabbers set, even where
  libv4lconvert says that the frames need conversion (a camera mounted upside
  down, a format it always processes). `fillBuffer` then hands the frame out as
  the camera sent it. `libvideo.h` says of `needs_conversion` that it decides.
  With grabbers of RGB24, BGR24 or YUV420 the same decision ends in an
  `ImageFormatException`.

Others can be reproduced by changing a configuration, in the way given.

*Threads.*

- `FailedStartRollsBack`, in `Live` with `Stoppers = {main, s1}`. When the
  callback stopped the capture, its push thread is about to stop until the
  callback has returned. A `startCapture()` in that window throws from
  `pushSource.startCapture()`, which is outside the code that rolls back;
  `temp` stays STARTED, and start and stop are both refused for ever after.
- `QueueNeverFull`, in `OneThread` with `QueueCapacity = 2`. The frame queue has
  the capacity of the buffers asked for, the driver may grant more, and `addAll`
  then throws out of a `startCapture()` that has already committed.
- `ReleaseWaits`, in `Calls` with `AskTwice = TRUE` and without faults. The
  getters' branch for an existing grabber puts back a use it did not take;
  `release()` then frees the device under the grabber.
- `ControlsFreed`, in `Calls` with `Threads = {t1}`, `Buttons = {button}`, no other
  control and no faults. `getValue()` of a button calls `state.put()` before it
  returns and again in its finally clause, and `setValue()` ends with
  `getValue()`. After one press the count of the control is below zero,
  `releaseControlList()` waits for `users == 0` for ever with the device's
  monitor in its hands, and the low-level resources are not freed.
- `ReleaseAllOrNothing`, in `ControlsMisused` added to the invariants. When the JNI
  layer cannot build the description of a device libvideo has described,
  `VideoDevice` goes on without one (`VideoDevice.java:319`), for drivers that may
  be opened twice. But `release()` gives the description back only if there is
  one (`VideoDevice.java:405`), libvideo refuses to close a device whose
  description is in use (`libvideo.c:122`), and `release()` throws with its request
  still stored: from then on the device can be neither used nor released.
- A frame libv4lconvert refuses to convert has length -1, and
  `prepareForDelivery()` passes it to `Buffer.limit()` (`BaseVideoFrame.java:96`),
  which throws an `IllegalArgumentException` after the buffer was dequeued:
  `PushFrameFails`. The callback's `exceptionReceived()` is called, the push thread
  ends, and frame and buffer belong to nobody until the next stop. `NoFrameLost`
  does not hold with "convert" among the faults; what `Worker` and `Live` check
  does.
- `DeviceInfo.java` never sets its `released` flag, so `checkRelease()` never
  throws, and `listIntervals()` after the release of the device reaches freed
  information.

*Setting up a capture.*

- `DeviceReusable`, in `Capture` with `Faults = {"mmap"}`: `init_capture` returns
  without giving back the buffers the driver granted. `set_cap_param` that fails
  after allocating leaves its formats allocated.
- An error of `try_image_format` is not taken for one; of two conversions the
  first is not looked at. (Where there is only one, its -1 is the length of the
  frame, see above.)
- A failed `VIDIOC_S_PARM` is compared with `EINVAL` where `-1` is returned, and a
  refused interval stays in the driver's record. A refused standard leaves the
  new input selected; the standard is set before the input it belongs to; a
  channel that does not exist is reported as a general `V4L4JException`.
- For cameras all of whose formats libv4lconvert converts, resolutions are
  looked up under the raw format and none are listed. Sizes of a native format
  that are no multiples of 8 by 2 come out rounded when they are converted
  (left out of `OfferedSizesDelivered`). A UVC camera without a known format
  is given "none" as a source.
- `OfferedFormatsWork` and `FramesAsPromised`, in `Capture` without `Convertible`. A
  camera all of whose formats are in libvideo's table and none in
  libv4lconvert's (NV12, for one). `v4lconvert_enum_fmt` offers RGB24, BGR24,
  YUV420 and YVU420 even so (`libv4lconvert.c:232`); `v4lconvert_try_format` falls back
  on the driver, which answers with NV12, and `add_supported_palette`
  (`v4l2-query.c:354`) compares only the two formats of the answer and takes all
  four for native. `supportRGBConversion()` is therefore true, yet
  `getRGBFrameGrabber()` throws an `ImageFormatException`, where
  `VideoDevice.java:512` says that it "will succeed". A raw grabber of the listed
  RGB24 is made, says that its format is RGB24 and hands out NV12.
- `PipelineDelivers`, in `Capture` with one more camera in `MCCameras`:
  `Webcam(<<"YUYV", "YUV420">>, <<Vga, Qvga>>, TRUE, TRUE, FALSE)`, a UVC camera
  with flags that itself delivers one of the four formats libv4lconvert makes.
  `v4lconvert_do_try_format_uvc` leaves `sizeimage` 0 (`libv4lconvert.c:351`) and
  `v4lconvert_try_format` corrects it only where format or size differ from the
  source's; but with flags `v4lconvert_needs_conversion` is true even then.
  `set_image_format` stores the 0 as the size of the converted image
  (`v4l2-input.c:371`), although the comment above it takes a 0 to mean that no
  conversion is needed, and every conversion then fails, "destination buffer too
  small".
- `OfferedFormatsWork`, in `Capture` without `Unmistaken`. The table of source
  formats has more rows than `1 << j` has bits. On x86 and AArch64, which shift
  modulo 32, GREY (row 36) is the bit of RGB565 (row 4). A UVC camera with YUYV and
  GREY (`GreyCamera`) is therefore taken to have RGB565 and not GREY; RGB24 is
  offered, but of the two formats the mask names RGB565 has the better rank
  (`v4lconvert_do_try_format_uvc` asks no driver, `libv4lconvert.c:330`), S_FMT
  answers something else, and `getRGBFrameGrabber()` throws an
  `ImageFormatException` where `VideoDevice.java:512` says that it "will succeed".
  Other drivers are asked with TRY_FMT and refuse such a format.
- `ChannelReported`, in `Capture` without `Switched`. A grabber made with the
  standard WEBCAM on a capture card: `detect_standard` accepts the card's PAL
  (`v4l2-input.c:106`), the grabber keeps WEBCAM, and `set_input` then leaves the
  input alone (line 195), while `getChannel()` reports the channel asked for
  (`FrameGrabber.java:341`).
- V4L1 never sets `is_native`.

*Tuners.*

- `query_tuner` tests `VIDEO_TUNER_LOW`, the bit V4L1 had, and not
  `V4L2_TUNER_CAP_LOW`: tuners that count in kHz are described as counting in
  MHz.
- `getFreq` passes the address of an `unsigned int` to a function that stores an
  `unsigned long`.
- A grabber's `getTuner()` keeps the tuner of the channel it was made for after
  `setVideoInputNStandard()`; `ChannelReported` therefore speaks of the tuner
  `findTuner` finds for the current channel. One tuner that does not answer
  fails the information of the whole device.

*Control lists.*

- `SoftwareControlsRead`, in `ControlLists` with `Drivers <- MCSoft` and
  `MaxChanges = 1`. `v4l2-input.c:1088` compares `V4L2_CTRL_ID2CLASS(id)`, which is
  0x980000 for user controls, with `V4L2_CID_USER_CLASS`, which is 0x980001, so
  every control is read as an extended one, by a call libv4lconvert does not
  answer: a software control cannot be read.
- `known_driver_probes` is a global table with a `priv` per driver, not per
  device, and no lock. Controls of a probe are not straightened. The pwc probe
  turns the camera to its middle, the gspca probe leaves light frequency 0 or,
  in a driver that only looks like it, 90, and the QuickCam probe its lookup
  table. A Philips camera that cannot tell its range leaves two controls of
  type 0 in the list, which the JNI layer refuses. Listing gspca's controls
  writes through a NULL menu.
- The bounds of a BITMASK are compared as unsigned numbers (`v4l2-input.c:1074`) and
  handed to Java as ints. Of a control whose maximum is 0xFFFFFFFF, `getMaxValue()`
  is -1, where `Control.java:76` says that the bounds are 0 to
  `Integer.MAX_VALUE`, and `setValue()`, which compares signed, refuses every value.
  `ValuesAdvertised` compares bitmasks as unsigned, and a driver of the run has
  one.
- The loop over private ids ends only on `EINVAL`. The second pass over a menu
  writes as many items as then answer. `increaseValue()` and `decreaseValue()` of
  a write-only control step from its default, and a value changed between
  their two native calls is lost.

*Processing.*

- `v4lcontrol_get_ctrl` returns a `bool`: a gamma of 1000, or a target of automatic
  gain of 100, is read as 1. Check `GammaOneIsNeutral` as a PROPERTY in
  `SoftwareControls`.
- `WhiteBalanceWaits`, in `SoftwareControls` with `Scenes <- MCBlinking` and
  `MaxScenes = 2`. While its averages converge, white balance has the tables
  recalculated with the next frame, "but only if no other processing plugin has
  already asked for a shorter update cycle" (`whitebalance.c:90`), for which it
  looks whether the counter is 0. It always is: the counter has just been reset
  (`libv4lprocessing.c:163`), and white balance is the first filter to run. In the
  counterexample automatic gain has corrected; a control changes, so the next
  frame brings an update, in a moment so dark that there is nothing to correct
  while white balance drifts; the frame after that is due at once, was taken
  before the correction, and automatic gain corrects a second time.
- A program that maps the shared settings before their creator has filled in
  the defaults loses what it sets in between; `SettingsSurvive` leaves that
  window out.

*Pictures*: what `GoesWrong` excludes.

- RGB24 and BGR24 to YUV without pixfc, or to YVU420 at all, RGB565 and SE401 to
  YUV: the macros for chroma lack the offset of 128; RGB565 also exchanges red
  and blue and reads its chroma from the wrong line. Hence every grabber of
  YVU420 with white balance on.
- UYVY to YUV420: the sum of two lines is cast to a byte before it is halved.
- HM12 to BGR24 passes the flag that asks for YVU order.
- MJPEG with all lines of chroma (4:2:2) to YUV420 by libjpeg: the second set of
  chroma lines overwrites the first.
- tinyjpeg: `parse_DHT` always builds the table of DC coefficients, so images
  with tables of their own are misread; the restart interval of one frame is
  that of the next unless it says otherwise; quantization factors lose their
  fractions; the check of planar images looks at the horizontal sampling twice.
- Bright Bayer scenes to YUV: the sums of four neighbours overflow a byte (the
  jobs use dim scenes; SQ905C, whose coding is not exact enough to stay dim, is
  left out).
- CPIA1 to YVU420 with white balance switched on and off: the previous frame is
  kept in the chroma order of the last conversion.
- Decoders of custom YUV formats, HM12, SN9C2028, SQ905C and STV0680 never look
  at the length of a frame, nor does a copy; they are not in `MayEndEarly`.
  MR97310A's third incomplete frame is let through on purpose.
- libjpeg never refuses an image for its length: v4l4j's memory source supplies
  an end of image (`jpeg_memsrcdest.c:57`), the warning is only formatted
  (`jpeg.c:111`), and the frame is delivered with its rest grey. tinyjpeg does
  refuse it.
- Borders of sizes that are no multiples of 4, padded lines where the
  conversion ignores `bytesperline`, and SN9C10X (its cursor runs by a third) are
  left out for the same reason.

## 5. Fairness

`ThreadFairness` is weak fairness of the steps of every call that was made and
of every push thread, other than the driver's answer: the JVM schedules
runnable threads, monitors are released by threads that are themselves
scheduled, and a callback returns. It asks nothing of the application: no call
is ever obliged to be made. `DeviceFairness`, a camera that keeps delivering
while it streams and has buffers, is separate because it is not the
scheduler's to give; `Live` uses it, and `SilentCamera` shows what happens
without. `VideoDevice`'s fairness adds the application's side of the contract,
without which a waiting `release()` rightly waits: parts that were handed out
are given back in the end, and a grabber does not refuse its release for ever
(strong fairness, since the object's monitor may be taken in between by
others). The last conjunct about a thread says that calls on controls do not
begin for ever while one and the same release of the list is in progress: some
may, as the release works through the list, but each control refuses them once
it was marked. The placeholder has to assume it; `Controls` shows it, from
weak fairness of every thread in a call (`ImplementsDevice` is checked with
fairness on both sides).
`ControlsFairness` asks no more of the application than `Fairness` does.

## 6. Proofs

TLAPS checks the following for every value of the constants, from the
assumptions the modules state and nothing else.

**`FrameGrabber_proofs`**: `TypeCorrect` (`Spec => []TypeOK`) and
`UsersAreCounted` (`Spec => []UsersCounted`), for any finite set of sources,
any threads and roles, any number of buffers, all faults, and both values of
every switch of section 3, the excluded uses included. `ThreadsAssumption`, which
says that `None` is neither a thread nor a frame and that there are finitely many
sources, is an assumption about how the model is instantiated and not about
the code.

Neither formula is inductive. `TypeOK` breaks at a step such as
`available' = Append(available, arg[t])` unless `arg[t]` is a frame at that
location; `users' = users - 1` unless somebody is counted in. The inductive
invariant `IInv` adds

- `CallLocated`: what each location of a call has at hand, a frame and its
  lock while recycling, a position in `videoFrames` inside the loops, a source
  while one is being stopped, nothing at the idle location;
- `RunLocated`: a push thread has a frame exactly between taking it and
  delivering it, and calls methods only from its callback;
- `ThreadOfSource`: a source that is stopped has no push thread, so
  `StartSource` never overwrites one that is still inside `getNextVideoFrame`;
- `users = Cardinality(Inside)`.

`InsideEnter`, `InsideLeave` and `InsideStay` say how the cardinality follows
a push thread's move; one lemma per action or call shows that it preserves
`IInv`, and `InvStep` puts them together.

The rest of this module and three more prove every safety property the runs
check of the grabber.
Their hypotheses are properties of the application and of the device, written as
formulas about the constants; each conjunct is one of the restrictions
explained in section 3, which shows a behaviour of the code that breaks some
property without it. They hold of the instances in the runs:

| hypothesis | says | true of |
|---|---|---|
| `OneOwner` | one thread starts and releases | `OldSource`, `Worker`, `Live`, `OneThread` |
| `Careful` | one thread configures, starts, releases and selects inputs; `PatientStop`, `DropAtStop`; `SplitRead` only if just push threads recycle; push threads stop the capture only if there is one of them | `Worker`, `Live`, `OneThread` |
| `Lossless` | `Careful`, "dqbuf" and "convert" are not among the faults, `NumBuffers <= QueueCapacity` | `OneThread` |
| `Orderly` | `Careful`, "streamon" is not among the faults, only push threads recycle, who stops is who starts | `OneThread` |

None of them bounds the number of application threads, of sources, of buffers,
or of threads that recycle.

`FrameGrabber_proofs` goes on with `NoWakeupIsLost`, for `OneOwner`. `notify()` wakes an
arbitrary sleeper, so one lost to the wrong thread would be a lost wakeup.
The proof shows that there is never more than one sleeper (`AloneInWaitSet`):
`startCapture()` waits while there is no user, `stopCapture()` while there is one,
and neither waits in two threads. `CInv` adds to
`IInv` which pairs of `state` and `temp` occur (`PhasesPaired`), what they are
while a thread stands at a location (`CallsPlaced`: nobody else moves them on
before a call in progress commits or rolls back), and that one thread at a
time is in `stopCapture()` (`OneStops`).

**`GrabberSources_proofs`**: `NativeCallsEndBeforeFree`, `StoppedIsQuiet`,
`FailedStartsRollBack`, for `Careful` (the last one also needs that push threads
do not stop the capture: a capture stopped from its callback leaves the
source about to stop, which the next start refuses, section 4). `CInv` knows
nothing of push threads, locks and the driver; `SInv` adds

- `SourcesOK`: only the current source has a push thread; outside STARTED there is
  one only during a start, or one on its way out after its callback stopped
  the capture; whoever is past the join of a stop has no push thread left but
  itself. This is what keeps `fillBuffer()` away from a stopped device;
- `LocksOK`: whoever recycles has the frame locked, and `stopCapture()` has held the
  lock of every frame it has passed. A `recycle()` that found STARTED and was
  then overtaken by a stop is therefore over when the loop has passed its
  frame: the only thing that protects the queue and the driver from it;
- `DeviceOK`: the device streams while capturing, not after the native stop, and
  is freed by a release that has marked the grabber.

**`GrabberFrames_proofs`**: `FramesHaveOneUser`, `HeldFramesStayUsable`,
`DriverAlwaysHasBuffer`, for `Careful`. `FrameHasOneUser` is not inductive: a frame
in somebody's `recycle()` is in none of the places it speaks of, but about to be
in the queue. `FInv` adds that such a frame is nowhere else (`GivesApart`,
`HandApart`, `HeldApart`), and so are those `startCapture()` has not yet added
(`FillApart`). About buffers, `BInv` says of frames that carry one (put in order
to be delivered, held, or given back and not yet enqueued) that the driver
does not have it and no two have the same (`CarriedOut`, `CarriedOnce`,
`DequeuedApart`), and the converse: every buffer the driver lacks has a frame of
its own outside the queue, which is away with its buffer or with none, as one
whose push thread failed, or is with a push thread that has just dequeued the
buffer (`MissingAway`: there is an injection from missing buffers to frames that
stand for them, `StandsFor`). When a frame cannot be converted, buffer and frame
are lost together, and the frame goes on standing for the buffer
(`FailureKeepsMissing`). `DriverHasBuffer` follows by counting: there are as many
frames as buffers, a queue without repetitions is as long as the set of its
elements (`DistinctCount`, `QueueCounts`), and at most one frame is with a push
thread that dequeues (`OneRuns`).

**`GrabberSession_proofs`**:

- `NoFrameGetsLost`, for `Lossless`. A frame is lost when `put()` is interrupted, or
  when a push thread fails while it has one, in DQBUF or because the frame cannot
  be converted. `AInv` says that from the start of
  a push thread to the request to stop nobody interrupts it, except itself on
  its way out (`Undisturbed`), that a `recycle()` about to return has put its
  frame into the queue (`PassedOn`), and where every frame is (`AllAccounted`).
  `RoomInQueue`: a frame that comes back is not in the queue, so the queue has
  fewer elements than there are frames.
- `RestingIsReady`, for `Orderly`: `Drained` says that the driver's queue is empty
  from a native stop to the next native start, a failed one included.
- `GrabberImplementsSession` (`Spec => ImplementsSession`), for `Careful`: one lemma
  per kind of visible step (`OpenMoves`, `CommitMoves`, `StopMoves`, `ReleaseMoves`,
  `PutMoves`, `RecycleMoves`) shows which step of `CaptureSession` it is,
  `SessionStutters` that all others leave phase and view alone. The invariants
  are needed for three of them: a delivery happens while `state` and `temp` are
  STARTED, and the frame's buffer is with no other held frame (`BInv`);
  exchanging a buffer in `PushDeliver` touches a frame the application does not
  hold (`HandApart`); a stop forgets the frames held. `ClosingInProgress` says
  that a grabber marked as released is in `release()`, so that nothing takes the
  mark back.

**`VideoDevice_proofs`**: with `Careful` callers and drivers (`AskTwice` is
FALSE, "controls" and "describe" are not among the faults) and any number of threads:
`UsesAreCounted`, `ReleaseWaitsForUsers`, `WaitersAreWoken`,
`NativeCallsAreSafe`, `ReleaseIsAllOrNothing`. Without `Careful`:
`TypeCorrect` and `HandlesAreBacked`. The invariant relates where threads
stand to the two monitors: whoever stands in a creating or releasing method
owns the object's monitor, hence there is one such thread; at most one thread
is in `release()`; once it has passed its wait nobody can enter, because
`MayUse` is false from the moment it stored its request; and a thread asleep
has somebody to wake it. The disagreement about second grabbers (section 4) shows that `Careful` is
needed.

**`Controls_proofs`**: with `CarefulCalls` (in addition no buttons and no
failing or interrupted calls), any finite set of threads and any set of
controls: `ControlUsesAreCounted`, `ControlWaitersAreWoken`,
and the safety refinement `ControlsImplementDevice`
(`ControlsSpec => Spec`), so that every theorem about `VideoDevice` holds of the
device with its controls. The invariant `CInv` contains the one of
`VideoDevice_proofs` and

- `Stationed`: detailed and abstract locations agree;
- `ControlUsesCounted` itself, a sum over threads, with `TotalMore`, `TotalLess`
  and `TotalZero` about how a sum follows one thread (`ShareTaken`,
  `ShareGiven`, `ShareKept`);
- `ReleasedSoFar`: the controls a release has passed are marked and empty but
  for the one it waits for, the others still accept calls;
- `SleepersAwaited`: a releaser sleeps only on a control with uses;
- `Accepting`: the controls take calls from the making of the list to its
  release and at no other time.

The refinement needs the invariant in one place: when the releaser is through
(`ListReleased`), every control is empty by `ReleasedSoFar`, hence by the counts
no thread is in a call, which is the guard of `ControlsReleased`. The steps of
the two modules are connected by `StepRefines`, so the invariant of
`VideoDevice_proofs` carries over without being proved again. The disagreement about buttons
and the hazard about catch clauses show that `CarefulCalls` is needed.

`ControlsStayBacked` (`ControlsBacked`) needs none of that: it holds for any
callers, with buttons, driver failures and interrupted releases. It has an
invariant of its own, `HInv`, which says nothing about counts: of the three
methods of `VideoDevice` that make or free parts one runs at a time
(`Exclusive`), whoever releases the list has marked every control it has come to
as released (`Marked`), and `HandlesBacked`. So the drifting counts of the
disagreement let a release overtake a call or wait for ever, but they never
leave a control that accepts calls without its description.

**`Capture_proofs`**: for any cameras, sizes and standards, as far as
`CamerasAssumption`, `FormatsAssumption` and `SizesAssumption` describe them (a
driver has a format, and a size for each; widths, heights and bandwidths are
natural numbers; inputs are counted from 0, as VIDIOC_ENUMINPUT does). The
first two theorems hold whatever TRY_FMT and S_FMT answer:

- `DeviceStaysReusable` (`DeviceReusable`), if "mmap" is not among the faults.
  The invariant `RInv` says what is allocated at each stage of `doInit`
  (`Allocated`): no driver buffers before `InitCapture`; no converter until a
  grabber is ready; and a double buffer only where `release_format_converter()`,
  which decides by the flags of the moment, will free it. The JPEG compressor
  could fail after the double buffer was allocated, which nobody would free;
  `Compressible` shows that it cannot: JPEG grabbers are listed for formats it
  compresses only, and `set_image_format` chose the palette asked for or failed.
- `ChannelsReported` (`ChannelReported`): the channel of a grabber that is not a
  webcam's is the input the driver is switched to, whatever standards `set_std`
  tries and however many `setVideoInputNStandard()` are refused half-way; that
  is a part of `RInv`. `InputsKnown`, a second invariant, says that the driver is at
  one of the camera's inputs and that the list of inputs a grabber was created
  from describes them. So `findTuner`, which goes by the index of the tuner and
  may return the entry of another input, finds the tuner of that channel
  (`TunerOfInput`).
- `PipelinesDeliver` (`PipelineDelivers`): the formats `set_image_format` has
  chosen take every whole frame through `v4lconvert_convert` to the image that was
  promised, processed exactly once, turned and mirrored as it should be, for all
  formats, sizes and settings at once. The proof has three parts. *What
  v4lconvert_try_format answers* (`TryAnswers`): by the table of formats
  (`SrcTable`: its first four rows are the four destinations, which is what the
  comment above the table in `libv4lconvert.c:37` asks for), a choice by rank or by
  size is one of the candidates (`BestIsOne`, `ClosestIsOne`), and the three tries
  at other sizes keep that (`RetryTries`): either the format is not one of the
  four and is left as the driver gave it, or the source is in the table and the
  image is as long as its size needs. *What a frame goes through* (`Delivered`):
  `Says` relates `my_src_fmt` to the image in the buffer, and each step
  (`Converted`, `ProcessedOnce`, `Rotated`, `Flipped`, `Cropped`) finds the image
  where the one before left it, whichever are skipped. *What lies between*: the
  invariant `FormatsKnown` says that the lists name sources of the table only, that
  what a grabber was created with came from them, and from `SetCapParam` to the
  release that the formats are `Chosen` so; setting input, standard or interval
  meanwhile does not touch them.
  It is a theorem about cameras that are `Deliverable`: one whose sensor is
  mounted sideways delivers JPEG only (the three entries of `libv4lcontrol.c`
  with `V4LCONTROL_ROTATED_90_JPEG` are of that kind, and only the JPEG decoders
  exchange width and height), and a UVC camera does not deliver one of the four
  formats itself, nor one whose row in the table, from 32 on, is taken for theirs by the
  mask, for the reasons given in section 4; nearly all of them send YUYV or MJPEG.
  The sources are what the mask names and not what the camera has: the proof needs
  only that they are rows of the table and, where the mask is right
  (`Unmistaken`), formats of the driver (`SourcesOf`). The cameras of the run are all `Deliverable`.

- `FramesDelivered` (`FramesAsPromised`), about the same cameras: a frame is in the
  format the grabber was created for, has the size it reports and fits in its
  buffer. `PipelinesDeliver` covers the frames that are converted; for the others,
  and for the buffers, the invariant `GrabberAgrees` says that the flags
  `is_native` and `needs_conversion`, the two formats and `imagesize` are what one
  call of `v4lconvert_needs_conversion` on them says (`Consistent`), that the
  destination is the format asked for unless it is not one of the four, when
  nothing is converted (`Agreed`, `Askable`), that the buffers were sized by the
  choice they are used with, and that the last frame is one `fillBuffer` makes with
  it. `is_native` is decided by a TRY_FMT of the source, not by comparing formats
  (`force_native_fmt`), so the proof has to show that the driver's answer to its
  own format is that format again (`DriverKeepsIts`, `ClosestFixed`: the nearest
  size of a size the driver has is that size). That a camera with a sensor
  mounted sideways has flags (`CamerasAssumption`) is needed here: its frames are
  never copied unless `needs_conversion` is set, which is the case of
  `FramesConverted`.
- `OffersAreKept` (`OfferedFormatsWork`), about the same cameras: `SetCapParam` does not
  throw an `ImageFormatException` for a format of the lists. The lists are made
  by other calls of TRY_FMT, at the size the driver had when the device was
  opened, than the ones `set_image_format` makes, at the size asked for. The invariant
  `OffersKept` says that they name formats of the driver for every output
  (`PaletteSources`, `SourcesListed`: if a palette is taken for native its format
  is one of the driver's, and otherwise each source found for it, at whichever
  size, is one), and `FormatAccepted` that the source S_FMT is asked for, be it the
  listed one or libv4lconvert's own choice, is then one too. For a UVC camera this
  needs the mask to be right (`Unmistaken`, a condition of `OfferedFormatsWork`
  itself); section 4 shows one for which it is not.

**`Processing_proofs`**:

- `SettingsOutliveHandles` (`SettingsSurvive`), for any number of handles and any
  controls, flags and values: opening a handle other than the one that creates
  the segment, and closing one, leave the values alone. It is a property of
  each step, no invariant is needed.
- `OldFramesAreIgnored` (`NoReactionToOldFrames`), for any camera, light and
  response of the brightness to exposure and gain, if at most two frames are
  in flight (`ShortPipeline`), which is what the delay of automatic gain is made
  for; with three TLC finds it violated. The invariant relates the
  counter of the capturing handle to the position of the old frames: unless
  white balance cut in, the `i`-th frame in flight is old only if the counter
  needs `i` frames or more to come to 10 (`OldFramesPass`). Damaged frames, which
  move the queue and not the counter, and frames not processed only add to the
  distance; every update resets it (`UpdateAsks`: whichever filters are on, what an
  update leaves is 0, 8, or 10 from white balance).

**Only model-checked.** Of the threads: liveness (`CallsReturn`, `StopReturns`,
`ImplementsLiveSession` and the fairness half of `ImplementsDevice` rest on
fairness and `ENABLED`). Of the formats, what depends on the answer of one
TRY_FMT agreeing with that of another for another size, and so holds of the
drivers in the run but not of any driver: `OfferedSizesDelivered` and
`ListsDescribeGrabber`. The latter is false of
`Webcam(<<"MJPEG", "YVU420">>, ...)` with MJPEG at 320x240 and YVU420 at 327x241 only:
at the sizes `add_supported_palette` looks at, MJPEG is the source of all four
formats, so YVU420 is in no list, not even its own; a JPEG grabber of RGB24
at 327x241 captures in YVU420 and reports it even so.

The groups of controls and pictures (the lists of controls, the decoders) are
model-checked throughout, and so is `TablesSettle`: what recursive definitions
compute is out of the prover's reach, and so is liveness.

## 7. What the models leave out

*Threads.*

- *Memory model.* Plain fields are sequentially consistent, a `long` is read
  whole. `SplitRead` is the one place where two reads are separated, because
  nothing else happens between two reads of other unlocked pairs.
- *Interrupts of application threads* inside `FrameGrabber` calls. Push threads
  are interrupted as the code interrupts them; `VideoDevice` has interrupted
  releases.
- `fillBuffer` failing before it asks the driver is folded into the "dqbuf"
  fault. A failing STREAMOFF (logged by libvideo, not reported) is not
  modelled.
- The getters of formats, sizes and intervals, and of `Control` and
  `ControlList`, which change nothing. A thread that is in a call on a control of
  a list that was released under it (possible only with interrupts or failing
  calls) is not followed into the next list.
- The released flag of a tuner: one monitor guards it together with every
  native call, so no interleaving is left to explore. AFC and RSSI are reads.

*Controls and formats.*

- Values of string and long controls; names, so that `ControlList.java:71`, which
  keeps one control of each name, keeps all.
- Private settings: where the shared memory of the software controls cannot be had,
  `libv4lcontrol.c:1567` allocates some for the handle alone. The comparison and
  the copy of the shared values (line 1785) are one step.
- Which menus the driver leaves to libvideo is data (`KnownMenus`): COLORFX,
  MPEG_STREAM_TYPE and EXPOSURE_AUTO besides POWER_LINE_FREQUENCY, with the number
  of their items.
- Frame sizes a driver describes stepwise. A second `VIDIOC_ENUMINPUT` that fails
  after the first has counted the inputs.
- A camera's flags, which `libv4lcontrol.c` looks up by USB id and DMI data, are
  data of the model, as are the luminance and the colour averages of a scene.
- `gspca`'s get and set, unreachable because listing its controls crashes.
- V4L1 (`v4l1-*.c`): the interface was removed from Linux.
- Listing and printing of capabilities (`list_cap` and the like), and the
  constants of `videodev2.h` beyond those the code tests.

*Pictures.*

- libjpeg and pixfc-sse are external: what libjpeg reads of an image are the
  samples that were compressed, pixfc converts correctly if it was made for the
  formats in hand.
- The decoders of ov511 and ov518, programs of their own behind pipes
  (`helper.c`), of SPCA561, JPGL and SN9C10X.
- `V4L2_FIELD_ALTERNATE`, which halves a height. JPEG quality. tinyjpeg's grey
  output, which nobody asks for. Code under `#if 0` or `MAKETEST`.
- That several decoders share static tables between threads, as their comments
  admit: each grabber is alone here.
- Memory: allocations succeed, sizes are those of the formats.

*Not modelled at all*: the camera HTTP server, viewers and other examples;
encoder and streaming, which are unfinished in this version;
`libv4lconvert-flat.c`, which compiles to nothing unless
`USE_LIBV4LCONVERT_FLAT` is defined; `fps-param-probe`, which is not in the
table of probes.

## 8. Plan

Done, in this order, the most important behaviour first: `GrabberState`,
`DriverQueue`, `FrameGrabber`, `CaptureSession` and the refinement,
`VideoDevice`, `Controls` and its refinement, and the proofs about
`FrameGrabber`, `VideoDevice`, `Controls`, `Capture` and `Processing`;
`SoftControls` and `Processing`; `ControlList` and `DriverProbes`; `V4lConvert`,
`V4lPipeline`, `DeviceInputs`, `DeviceInfo` and `Capture`; the conversions and
`Pictures`.

Next:

1. Proofs of `OfferedSizesDelivered` and `ListsDescribeGrabber`, for cameras all of
   whose formats have the same sizes.
2. The remaining decoders: SPCA561, JPGL, SN9C10X.
3. `CamHttpServer`: the client list and the capture it starts and stops.
