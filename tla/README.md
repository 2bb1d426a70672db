# A TLA+ verification of hawkeye

hawkeye takes pictures from one V4L2 camera and keeps the latest one in a JPEG
file, which a web server hands to browsers.  It is one process with one
thread, but not a sequential program: the camera driver fills the buffers the
process is about to copy, signals interrupt its system calls, readers open the
image while it is replaced, and an init script kills and restarts it.  These
modules model it from the C source under `src/`; TLC checks them on small
instances, and TLAPS proves every safety property of the passing runs, the
refinement among them, for every value of the constants.

- [The system](#the-system)
- [Modules and code](#modules-and-code)
- [Runs](#runs)
- [Where code and documentation disagree](#where-code-and-documentation-disagree)
- [Fairness](#fairness)
- [Proofs](#proofs)
- [What is only model-checked, and what is not modelled](#what-is-only-model-checked-and-what-is-not-modelled)
- [Plan](#plan)

## The system

    init_settings -> daemonize -> init_signals -> create_video_device (init_v4l2)
                                                          |
         +------------------ while (is_running) ----------+
         v
    capture_frame: DQBUF, memcpy     <-- driver fills queued buffers
         v
    compress_yuyv_to_jpeg / compress_z16_to_jpeg
         |   stripe_filter: gradients -> clusters -> features -> JPEG comment
         v
    write_frame: fopen image.jpg~, fwrite, fclose, rename --> image.jpg --> readers
         v
    requeue_device_buffer: QBUF  ->  nanosleep  ->  loop head

| Component | State | Operations | Hard about it | What makes it correct |
|---|---|---|---|---|
| Main loop and signals (`main.c`) | `is_running`, the frame in hand | `grab_frame`, `signal_handler`, shutdown | signals at any point; every ioctl may fail; `size_t` -1 taken for a frame | it stops when told, does not stop otherwise, publishes every frame once and in order |
| Capture ring (`v4l2uvc.c`) | buffers queued, filled, mapped; the framebuffer; the retry counter of `xioctl` | DQBUF, copy, QBUF, STREAMOFF, close | ownership shared with the driver; short, empty and failed dequeues; retries counted across signals | never copies from a buffer the camera owns, never loses one |
| Device setup (`v4l2uvc.c`) | format, size, granted/mapped/queued buffers, lists of formats and sizes | QUERYCAP, S_FMT and fallback, S_PARM, REQBUFS, QUERYBUF, mmap, QBUF, STREAMON, enumeration, allocation | a device may grant something else than asked; any call may fail; growing lists | hands the loop a ring it can rely on, or ends the process |
| Image file (`main.c`) | `image.jpg~`, `image.jpg`, their inodes | open, write, close, rename | readers in the middle of a replacement; kills between any two calls; ignored write errors | readers get whole frames, never an older one after a newer one |
| Stripe detector (`stripe_filter.c`) | lists of gradients, clusters, features; debug image; text | scan, cluster, neighbour search, feature test, annotate, print | list limits, index 0 as a sentinel, drifting centres, unchecked offsets | no gradient lost or doubled; exactly the golden stripes reported |
| Colour blob detector (`color_detect.c`) | ten blob slots, `num_blobs` | match, start, append, cull, combine, draw, report | slots running out, unsigned arithmetic, boxes that grow while compared | pixels counted once, runs joined to the blob above, large blobs reported |
| JPEG encoder and conversion (`image_utils.c`) | static images, destination manager | YUYV and Z16 conversion, chunked output | pairs of pixels across lines, what an earlier frame left behind, a stream that ends with a full buffer | libjpeg gets this frame's colours, the caller gets libjpeg's bytes |
| Bitmap writer (`bitmap.c`) | none | headers, rows, padding | stride and padding | a reader of the format sees the image |
| Settings (`settings.c`, `config.c`) | `settings` | two passes over the command line, clamps, the file-root made absolute | repeated options, defaults, relative paths | settings are what the last option says, the image goes where the user meant |
| Daemon and init script (`daemon.c`, `debian/init.d`) | working directory | fork, move to `/`; start, stop, reload | everything relative changes its meaning; nothing keeps a second daemon away | see settings, image file and capture ring |
| Web viewer (`www/js/main.js`) | refresh timers | reload the image | its server is no longer in the tree | not modelled |
| Utilities, version, Huffman table, vendored web assets | - | - | - | no behaviour of their own; panics are a state of the models |

`PROJECT.json` lists the hazards of each part at their lines, with the
properties that would notice them.

## Modules and code

**`Xioctl`** (operators) is the retry rule of `xioctl`: an ioctl that fails with
EINTR, EAGAIN or ETIMEDOUT is tried again while the counter lasts, then the
process panics; any other errno is returned, unless the counter has already
run down.  `CaptureLoop` and `DeviceSetup` both extend it.

**`CaptureLoop`** is the main loop.  `pc` names the call the process is in:
`head` (the `while` test), `dqbuf`/`blocked` (DQBUF about to be tried, asleep in
it), `copy`, `publish`, `qbuf`, `sleep`, and the shutdown `streamoff`, `close`.
`incoming` and `done` are the driver's two queues, `mem` the mapped buffers,
`framebuffer` and `image` what was copied and published.  A frame is its number,
and an image is two numbers, the frames its first and its last bytes come from,
because a short payload overwrites only the beginning of the framebuffer.
Two history variables say what has gone wrong: `failed`, a call has failed or a
payload was not whole, and `kept`, the buffers whose last QBUF was refused for good:
the ring is short of them unless a later QBUF happens to name them again.  Actions
are the steps between two points where driver or signals can get in:
`Dequeue`, `Copy`, `Publish`, `Requeue` and so on, each with its failing twin
(`DequeueFails`, ...).  `Signal` runs the handler between any two steps; while
the process is `blocked` the ioctl returns EINTR as well (`sa_flags` is 0), and
in `sleep` it cuts the nanosleep short.

**`FrameFile`** opens up the one step `Publish`: `OpenTemp`, `WriteBlock`,
`Flushed`, `Rename` against names, inodes and open files, with `Kill` and
`Restart` between any two of them and readers that open, read block by block
and close.  `Daemons` is the set of processes with the same file-root; each has
its own stream, a file it has open (`out`) and an offset in it (`written`), and
they share the two names.  **`AtomicImage`** is what one daemon promises, a
register whose value only moves to newer frames and whose readers get the value
it had when they opened it; `FrameFile!Atomic` is the refinement: an inode stands
for the frame its first block is from.

**`Startup`** is `main` up to its loop.  `phase` says where it is: `options` (the
two passes of `read_command_line`, `ReadOption` per option, then `OptionsRead`
with its clamps), `normalize`, `fork` (`Daemonize`), `call` (`InitFrameBuffers`),
and `setup`, from where on the steps are those of `DeviceSetup`, which it
extends.  An option is a record with the setting it changes, a path a list of
names with or without a leading slash; a path is resolved in `cwd`, which
`Daemonize` changes.  `Directories` and `Files` are the paths that exist: `realpath`
accepts both, although a file-root that is a file ends the first `write_frame`.
An option that is not known is a panic: so the daemon does
not start from its own init script, whose `-c` (`debian/init.d:22`,
`doc/hawkeye.1:37`) no longer exists.

**`DeviceSetup`** is `create_video_device` and `init_v4l2`, an action per ioctl.
The camera is one of `Devices`, what it answers to a request it cannot meet is
its own choice.  A size is a pair of sides, compared side by side as in
`v4l2uvc.c:228`.  At `pc = "ready"` it hands over to `CaptureLoop!Init`, and
`RingReady` says that it may.

**`StripeFilter`** is `stripe_filter.c` as the YUYV encoder drives it: `ScanLine`
(the gradients of a line are the columns at which the threshold state changes,
put in order), `ClusterGradient` per
gradient, `FindFeature` per cluster, `Paint`, then the text record by record.  Of the
text it keeps the number of characters, the number of records and the index of
the NUL that `snprintf` or `strcat` has put behind them.
The floats of the code are compared as integers; for every base below 10000,
every pixel value and every pair of stripe widths allowed by the code both give
the same result.

**`BlobDetect`** is `rgb_color_detection`: `ReadRow` turns a row of pixels into
runs of one colour, `AppendBlob`/`NewBlob`/`IgnoreRun`/`NoRoom` take a run each,
`CullBlobs` ends the row, `ChooseLargest`/`Combine` are the final pass.  The
unsigned wrap of `find_containing_blob` is in `Reach`.

**`Encode`** is `image_utils.c`: `ConvertYuyv` and `ConvertZ16` take a pixel each,
`Emit` is a byte libjpeg puts out inside one of its calls (`start`, `marker`,
`scanlines`, `finish`), with `empty_output_buffer` when that fills the buffer, and
`Finish` is `term_destination`.  A byte of the stream is its number, so that what
arrives shows what was lost or doubled.  `NextFrame` starts over with another
frame and the static images as they were left.  The detector between conversion
and compression is `StripeFilter`; here it paints any of `Annotations`.
**`Bitmap`** (operators) is the `.bmp` file it writes, and how a reader of the
format finds a pixel in one.

The proofs are in a module beside each component: `CaptureLoop_proofs`,
`FrameFile_proofs`, `DeviceSetup_proofs`, `Startup_proofs` (which extends the one
before), `Encode_proofs`, `BlobDetect_proofs` and `StripeFilter_proofs`.
**`DetectorLemmas`** holds what the last two share: what `Min` and `Max` return,
that an offset of a pixel is inside the image, and how `SumFunction` of the
community modules changes when a term does.

`MC*.tla` give the runs their definitions; every operator named in a `mutants`
entry stands in its module right before the definition it is a broken version
of, with a comment that says so, and is used by nothing else.

## Runs

| Run | Bounds | Asks | States |
|---|---|---|---|
| `capture` | 2 retries, 2 buffers, 3 frames, 3 signals, all faults | `TypeOK`, `Ownership`, `NoLeak`, `PanicNeedsSignals`, `NeverOlder`, `EveryFrameOnce`, `Stops`, `KeepsRunning` | 350 252 |
| `file_atomic` | 1 daemon, 2 readers, 4 inodes, 3 frames of 1 to 3 blocks; failing fopen and rename, kills | `TypeOK`, `TempPrivate`, `ReadersSeeFrames`, `ImageWhole`, `Atomic` | 190 691 |
| `setup` | 14 command lines, 2 directories to start in, 120 devices, 4 buffers, 4 retries, every fault | `StartTypeOK`, `RingReady`, `FramebufferFits`, `ListsInBounds`, `SettingsAsMeant`, `FramesGoWhereMeant`, `Settles` | 136 019 |
| `stripe` | 5 lines of 20 pixels out of 5 kinds | `TypeOK`, `GradientsAlternate`, `NothingLost`, `CentresAmongGradients`, `FeaturesAreGolden`, `GoldenStripesFound`, `PaintsInsideImage`, `TextHoldsFeatures` | 92 236 |
| `blobs` | 5 rows of 8 pixels out of 7 kinds, 3 slots, 2 colours | `TypeOK`, `PixelsInBox`, `BlobsCounted`, `PaintsInsideImage`, `RunsJoinBlobs`, `CombineKeepsCoverage`, `LargeBlobsReported` | 40 939 |
| `encode` | frames of 5 by 3 pixels, 3 contents, 4 scales, buffers of 3 bytes, streams of up to 7 | `TypeOK`, `ColorsOfTheFrame`, `DepthsOrdered`, `StreamDelivered`, `DebugImageReadable` | 36 567 |

Why the bounds are enough:

- *Capture.*  The ring and the retry count are smaller than the code's, but every
  kind of fault is possible at any time and there are more signals than one DQBUF
  survives: the interesting cases are a second buffer, filled or refused while the
  first is in hand, a second frame and a third signal.  Frames beyond `MaxFrame` are
  all numbered `MaxFrame`, so the ring keeps turning.  The properties about a loop in
  which nothing has failed are stated with `~failed`: they hold up to the first
  fault and are checked with all of them possible.  Deadlock checking is off because
  the process may really stop for ever: a driver that has refused every buffer for
  good (`kept = Buffers`) leaves an empty ring, and DQBUF sleeps.  `Stops` and
  `KeepsRunning` except that state and no other.
- *File.*  Two readers can hold two different old files while a third is
  written; the fourth inode is there for the temporary file a kill left behind.
- *Setup.*  Command lines that repeat an option, leave a range on either side, ask
  for no pixels or an unknown format, name the file-root or the device relative
  to where they are given, name a file-root that is missing or a file, ask for
  help or for an option there is not, each from
  two directories, some with `-d`.  Devices with every combination of missing node and capabilities,
  granting one buffer too few, the right number or one more, with format lists
  that have the asked format first, second or not at all, and with the asked
  size, without it, or with its sides exchanged.
- *Stripe.*  An image can hold features that share edges, jittered edges that
  drift a cluster, more gradients than the list takes, and three features where
  the second fills the text exactly and the third has no room; `stripe_text` has the
  same instance.  Stripe widths
  and percentages are scaled to the small image; the ratio test is the code's.
- *Encode.*  Fifteen pixels are an odd number in lines of odd length, so that pairs
  lie across lines and the last one is half a pair with unknown bytes behind it;
  the width needs padding in the bitmap.  The contents clamp every channel both
  ways and hold the depths around one and around 255 steps.  A stream can be
  empty, fill the buffer exactly once or twice, and stop in between; the
  next frame may be any of them.
- *Blobs.*  Rows touch the left edge, hold two runs, a wide run that makes one
  blob overlap the other, a darker shade of the same colour and two colours that
  touch; three slots run out.

Every property of a passing run has a mutant in `PROJECT.json`, a plausible slip
in the code (a counter decremented before the test, a lost guard, the newest
buffer instead of the oldest) under which TLC finds it violated.

## Where code and documentation disagree

Each is a run that TLC ends with a counterexample.

- `capture_repeat` (`NoRepeat`): the changelog says the same frame is no longer
  sent several times.  `capture_frame` returns -1 as a `size_t` when DQBUF fails,
  `grab_frame` takes it for a frame and publishes the old framebuffer again - or,
  before the first frame, memory nobody has written.
- `capture_reload` (`ReloadKeepsRunning`): the init script's reload sends a
  SIGHUP to a daemon that is to go on.  The handler ignores it, but the sleeping
  DQBUF returns EINTR and `xioctl` counts it; the fifth in one DQBUF is a panic.
- `file_disk_full` (`ImageWhole`): "now that write is complete", but nobody looks
  at the results of `fwrite`, `fflush` and `fclose`; on a full disk the truncated
  file replaces the image.
- `setup_format` (`FormatAgreed`): the format a driver substitutes is looked at
  only when it also changed the size.
- `stripe_text` (`TextFitsArray`): "ensure room to append" compares characters with
  the room that is left, but `strcat` also writes a NUL.  A record that fills the
  text exactly, or the line feed that takes its last character, puts the NUL one
  byte past the static array.  `TextHoldsFeatures`, which the `stripe` run checks,
  is about the characters only.
- `file_two_daemons` (`ImageWhole`): the init script means to notice a daemon that
  is already running, and `write_pid` would end a second one with "PID file already
  exists" - but nothing calls it.  Two daemons with one file-root then truncate
  each other's temporary file and rename what is half written.

Met on the way, and part of the models without a run of their own: `-c` is an
unknown option, so the daemon never starts from its init script; `-v` is read
and ignored; `-P` is the profiler's rate and not the PID file of the usage text;
a format that is not `z16` is YUYV, although the default is `z16`; a negative
`--mm-scale` wraps in 16 bits; the blob detector, which the program does not call
at present, lets a blob nearer to the left edge than the allowed miss take in no
run (`color_detect.c:172`), which `RunsJoinBlobs` therefore leaves out; a small
blob that the last rows could still be added to is never looked at by `cull_blobs`
and is reported if it is complete, so "what is reported is large" is not a property
of the code, and `LargeBlobsReported` is about the other direction; and
`bmWriteBitmap`, also never called, clears bytes `width` to `width + padding` of
a row, which for more than one byte a pixel are pixels.

## Fairness

`CaptureLoop!FairSpec` has weak fairness of `Steps`, the process's successful
steps, and of `DriverFill`: the operating system runs a process that can run, and
a camera that streams stores a frame in a buffer it has been given.  No failure
is fair (no call has to fail) and no signal has to come.  `Stops` therefore
depends on the camera: a DQBUF interrupted by SIGTERM is retried, and the loop
test is reached only with the next frame or with the retries used up.  Without
fairness of `DriverFill` it is false, and so it is for the code; and it is false for a
ring whose every buffer the driver has refused for good, which is the one state
both liveness properties except.
`Startup!StartSpec` has weak fairness of the process as a whole, since each of
its calls either succeeds or fails; a pass over the command line is finite and
every xioctl counts its attempts.  `FrameFile`, `StripeFilter`, `BlobDetect` and
`Encode` have safety properties only.

## Proofs

Each theorem below is `Spec => []P` (for `Startup`, `StartSpec => []P`), or `Spec => A`
for an action property and the refinement, for every value of the constants that
the assumptions of the modules allow.  Those assumptions are named and stand
where the constants are declared; TLC evaluates them in the runs.  The theorems
are listed in `PROJECT.json`.

The argument has the same form everywhere.  A property of a run is seldom
inductive, so there is an invariant `...Inv` that is, a conjunction of named parts;
a lemma shows that each step keeps it, by the action, and the properties follow
from it without looking at a step again.  The step that changes several parts
is taken apart into what it does (a gain of a slot, a join of two lists, one more
term of a sum) and what that does to each part.

**`CaptureLoop_proofs`** - any number of buffers, retries, frames and signals, any
faults.

- `TypeCorrect`, `OwnershipHolds`: no index is twice in the driver's queues, and at
  `copy` the buffer in hand is in neither.  Inductive with `TypeOK`.
- `NoLeakHolds`: the property speaks of four control points only.  `Returned` adds
  the rest of the round: between `copy` and `qbuf` the driver has every buffer but
  those refused for good and the one in hand, which is the one QBUF will name.
- `PanicNeedsSignalsHolds`: `Patience` ties the retry counter to the signals sent
  since the ioctl was entered; without it nothing relates a panic to the past.
- `NeverOlderHolds`: `Chain` orders all that holds a frame: image, framebuffer,
  filled buffers oldest first, and the camera's counter never decrease along it.
- `EveryFrameOnceHolds`: `Gapless` makes that chain contiguous: as long as nothing has
  failed, every payload is whole, the filled buffers continue the framebuffer
  without a gap, and the framebuffer is one ahead of the image exactly between
  copy and publication.  The property is about every publication, one that would
  leave the image as it is included: so it has to be shown that the loop never comes to
  `publish` with the frame that is out already.

**`FrameFile_proofs`** - any number of readers, frames and blocks, any faults.

- `FileTypeCorrect` holds of any number of daemons, `TempPrivateHolds` of one: while
  it writes, the temporary name leads to its stream.
- `ImageWholeHolds`, `ReadersSeeFramesHolds` and the refinement `AtomicHolds` have two
  hypotheses, `OneDaemon` and `DiskNeverFull`.  They are hypotheses of the theorems and
  not of the model, and they are needed: `file_two_daemons` and `file_disk_full` show
  the property violated without one and without the other.  Kills, restarts and
  failing calls are all in.  `FileInv` says what lies behind each name: the
  temporary file holds the first `written` blocks of the frame in hand, and after
  `fclose` all of it; the image is the whole of a frame already published, before
  the one in hand; no reader is past the end of its file.
- `AtomicHolds` shows that under `FileInv` every step is one of `AtomicImage` or
  leaves it alone; only `Rename`, `ReaderOpen` and `ReaderClose` are not stutters.

**`DeviceSetup_proofs`**, **`Startup_proofs`** - any cameras, command lines,
directories, numbers of buffers and retries, any faults.

- `SetupCorrect`, `RingReadyHolds`, `FramebufferFitsHolds`, `ListsInBoundsHolds`:
  `SetupInv` says for each place of `create_video_device` what has been done by
  then - the two loops over the buffers have done those below `i`, the size is the
  one the device is set to from the check on, the lists are empty until the
  enumeration and one entry ahead of their counter inside of it.
- `StartTypeCorrect`, `SettingsAsMeantHolds`: after `n` options of the second pass each
  setting is what the last of them says, and what the whole first pass said if
  none of them does; at the end of the pass the two agree.
- `FramesGoWhereMeantHolds`: the file-root is resolved while the working directory is
  still the one hawkeye was started in.

**`Encode_proofs`** - any size of the image, odd ones included, any frames, scales,
staging buffers and lengths of the stream.

- `EncodeTypeCorrect`, `ColorsOfTheFrameHolds`: the pixels converted so far match the
  bytes of this frame; that a fixed-point product is within a step of the exact
  one is shown channel by channel.
- `DepthsOrderedHolds`: the gray of a depth depends on the scale and the depth only,
  and more steps of the scale are never a smaller byte.
- `StreamDeliveredHolds`: what was passed on, followed by the used part of the buffer,
  is what libjpeg has put out.
- `DebugImageReadableHolds`: `BitmapShowsImage`, about the file that `Bitmap` makes of
  any image.

**`BlobDetect_proofs`** - any image, colours, limits and number of slots.

- `BlobTypeCorrect`, `BlobsCountedHolds`, `BlobsPaintInside`.  `RunsJoinBlobsHolds` is
  a lemma beside them and says little more than `Containing` does: it leaves the left
  edge out.
- `PixelsInBoxHolds`: two boxes that are combined may overlap, so nothing about boxes
  is inductive.  `CellsInv` says that there are disjoint sets of cells, one for each
  slot, that the pixels were counted from and that lie in the boxes; a run adds
  its own cells, `combine_blobs` joins two sets.
- `CombineKeepsCoverageHolds`: an action property; the pixels of all slots together do
  not change, the larger box covers both.
- `LargeBlobsReportedHolds`: an action property about every step.  A slot that is large
  enough can only grow, is not culled, and when it is combined the one that takes it in
  is at least as large (`LargeGrows`, `AreaGrows`); at the end its record is among
  those reported, and their number is the one announced.

**`StripeFilter_proofs`** - any image, lines and limits.

- `StripeTypeCorrect`, `GradientsAlternateHolds`: between two neighbours in the list of
  changes the threshold state does not change, so they go opposite ways; lists of
  lines may be joined and cut.
- `NothingLostHolds`: a gradient is one term more in the count and in the coordinate sums
  of one cluster, and one more of the gradients seen (`GrownTally`, `AloneTally`,
  `SeenGrows`).
- `CentresAmongGradientsHolds`: a centre drifts, so bounds on it are not inductive; bounds
  on its sums are: count times the least coordinate is at most the sum.
- `FeaturesAreGoldenHolds`, `GoldenStripesFoundHolds`: the clusters do not move while
  features are looked for, and every cluster behind the search that begins a golden
  pair has its feature unless the list is full.
- `StripesPaintInside`.
- `TextHoldsFeaturesHolds`: the characters used so far are the sum of the records written,
  so the text stops at the first record that has no room and only there.  It says
  nothing of the terminator, for which `stripe_text` has the counterexample.

Sums over sets are defined by recursion in the community modules, and induction
over an operator is out of the provers' reach.  `DetectorLemmas` gets by without:
the recursive function exists on the subsets of a finite set, and a subset for
which a law fails would have a least one, whose picked element shows that it
does not (`SumsUpTo`, `SumsAgree`, `SumWithout`).

Some definitions of the models have the form they have so that they can be reasoned
about, with the same meaning: the threshold state as the set of columns at which
it is high, the runs of a row as a set, the digits of a number as a count of powers
of ten, sums as `SumFunction`.  Where a proof needed an assumption, the code
justifies it: the text array has room for the number of features, the height of
the neighbour box is not zero.  A request may have any size, negative ones
included, and a driver refuses those it cannot meet.

## What is only model-checked, and what is not modelled

Only model-checked: the liveness properties `Stops` and `KeepsRunning` of
`CaptureLoop` and `Settles` of `Startup`, since fairness and ENABLED are out of
TLAPS's reach; and the properties of the runs that end with a counterexample,
which are false.  The strings of formats and option values are compared but not
typed: that a literal is in STRING is beyond the provers.

Not modelled, in the modelled parts:

- a loss of power: the code never syncs, so it promises nothing then;
- more than one camera: `settings.video_device_count` is always 1;
- MJPEG input: `init_settings` and the fallback choose YUYV or Z16 only;
- what nothing calls: `copy_frame`, `is_huffman`, `parseDetectColor`,
  `read_config_file`, `write_pid`, `drop_privileges`, `nchown`, `bmWriteBitmap`;
- the frame rate average, log output, exit codes, and the pixel values painted
  into debug images (which pixels are painted is modelled);
- how far libjpeg compresses: that a JPEG fits the buffer of its frame's size is
  what `grab_frame` relies on and nothing here shows;
- the daemon's session, umask and standard streams;
- a `malloc` that fails, and a `fwrite` of the debug image that does.

Not modelled at all: the web viewer, whose server is gone from the tree (what it
would meet is nowhere in the source); the shell of the init script beyond the
stop, restart and options it gives the daemon; helpers without state of their
own (`utils.c`, `version.c`, `frames.c`, the allocation wrappers of `memory.c`).
libjpeg, the C library, the kernel and the vendored JavaScript are external; the
actions that stand for the driver, the file system's readers, the device and
libjpeg's output are written from how the code uses them.

## Plan

Written, in this order: `Xioctl`, `CaptureLoop`, `CaptureLoop_proofs`,
`AtomicImage`, `FrameFile`, `DeviceSetup`, `StripeFilter`, `BlobDetect`, `Bitmap`,
`Encode`, `Startup`.  Of the program's own logic nothing is left that is both
called and unmodelled; what could be added is larger instances and
`bmWriteBitmap`, should the program come to use it.

All safety properties of the passing runs are proved.  What is left:

1. A statement the runs do not make yet: that the numbers in a JPEG comment's
   records are those of the features (their number, order and length are).
2. The invariants of the proofs as invariants of runs of their own, so that a
   change of the code is first seen by TLC to break them.
3. `bmWriteBitmap`, `parseDetectColor` and `read_config_file`, should the program
   come to use them.
