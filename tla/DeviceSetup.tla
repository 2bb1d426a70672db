----------------------------- MODULE DeviceSetup -----------------------------
(***************************************************************************)
(* create_video_device and init_v4l2 of v4l2uvc.c: how hawkeye opens the   *)
(* camera, negotiates format and size, maps and queues the buffers of the  *)
(* ring, switches the stream on, and lists what the device offers.  What   *)
(* it leaves behind is where CaptureLoop starts.                           *)
(*                                                                         *)
(* The device is an external party, any of Devices: what it can do, and    *)
(* how it answers a request it cannot meet (V4L2 lets a driver refuse one  *)
(* or put a format and size of its own choice in its place).  A side that  *)
(* was given as a negative number is one no camera has; both formats have  *)
(* two bytes a pixel.                                                      *)
(***************************************************************************)
EXTENDS Xioctl, Sequences, FiniteSets

CONSTANTS
  NbBuffer,    \* NB_BUFFER
  Devices,     \* the cameras, a subset of Device
  Requests,    \* the formats and sizes main may ask for
  Faults       \* what may go wrong, a subset of FaultKinds

FaultKinds == { "transient",  \* an ioctl returns EINTR, EAGAIN or ETIMEDOUT
                "ioctl",      \* an ioctl fails for good
                "mmap",       \* mmap fails
                "fork" }      \* fork fails (Startup)

Fallback == "YUYV"            \* UVC_FALLBACK_FORMAT
InputFormats == {"YUYV", "Z16"}
DeviceFormats == InputFormats \cup {"MJPG"}
Buffers == 0 .. NbBuffer - 1

Sizes(Side) == [width : Side, height : Side]
Size(w, h) == [width |-> w, height |-> h]
Area(s) == s.width * s.height

(* A camera: whether its node exists, its capabilities, the sizes it has   *)
(* for each of the formats it lists, and how many buffers it grants.       *)
Device == [exists : BOOLEAN, capture : BOOLEAN, stream : BOOLEAN, grants : Nat,
           formats : Seq([format : DeviceFormats, sizes : Seq(Sizes(Nat \ {0}))])]

ASSUME NbBufferAssumption == NbBuffer \in Nat \ {0}
ASSUME DevicesAssumption == Devices \subseteq Device
ASSUME RequestsAssumption ==
  Requests \subseteq [format : InputFormats, size : Sizes(Int)]
ASSUME FaultsAssumption == Faults \subseteq FaultKinds

VARIABLES
  pc, tries,        \* where the process is, the counter of its xioctl
  asked,            \* the arguments format, width and height
  dev,              \* the camera
  format_in,        \* vd->format_in
  size,             \* vd->width, vd->height
  current,          \* the format and size the device is set to
  granted,          \* the buffers the device has allocated
  mapped, queued,   \* the buffers mmap and QBUF have succeeded for
  streaming,        \* the device streams
  i,                \* the loop variable of init_v4l2
  format_count, j,  \* vd->format_count, the index of the sizes of a format
  formats,          \* vd->formats
  room,             \* the elements vd->formats and vd->resolutions have room for
  resolutions,      \* vd->resolutions
  format_index, resolution_index,   \* vd->current_*_index
  framebuffer_size  \* vd->framebuffer_size

AskedFormat == asked.format
AskedSize == asked.size

device == <<asked, dev, current, granted, queued, streaming>>
lists == <<format_count, j, formats, room, resolutions, format_index,
           resolution_index>>
vars == <<pc, tries, asked, dev, format_in, size, current, granted, mapped, queued,
          streaming, i, format_count, j, formats, room, resolutions,
          format_index, resolution_index, framebuffer_size>>

Unset == -1     \* a field of the struct that malloc left uninitialised

Terminal == {"ready", "panic"}

Pairs(d) == UNION {{[format |-> d.formats[k].format, size |-> d.formats[k].sizes[n]] :
                      n \in DOMAIN d.formats[k].sizes} : k \in DOMAIN d.formats}

TypeOK ==
  /\ pc \in {"create", "querycap", "sfmt", "sfmt_fallback", "check", "sparm", "reqbufs",
             "querybuf", "mmap", "qbuf", "streamon", "enumfmt", "enumsizes",
             "alloc"} \cup Terminal
  /\ tries \in Tries
  /\ dev \in Device
  /\ asked \in [format : InputFormats, size : Sizes(Int)]
  /\ format_in \in InputFormats \cup {"unset"}
  /\ size \in Sizes(Int)
  /\ current \in [format : DeviceFormats \cup {"none"}, size : Sizes(Nat)]
  /\ granted \in Nat
  /\ mapped \subseteq Buffers /\ queued \subseteq Buffers
  /\ streaming \in BOOLEAN
  /\ i \in 0 .. NbBuffer
  /\ format_count \in Nat /\ j \in Nat
  /\ formats \in Seq(DeviceFormats)
  /\ room \in [formats : Nat, resolutions : Nat]
  /\ resolutions \in Seq([format : DeviceFormats, size : Sizes(Nat)])
  /\ format_index \in Nat \cup {Unset}
  /\ resolution_index \in Nat \cup {Unset}
  /\ framebuffer_size \in Nat \cup {Unset}

InitFor(requests) ==
  /\ pc = "create"
  /\ tries = IoctlRetry
  /\ asked \in requests
  /\ dev \in Devices
  /\ format_in = "unset" /\ size = Size(Unset, Unset)
  /\ current = [format |-> "none", size |-> Size(0, 0)]
  /\ granted = 0
  /\ mapped = {} /\ queued = {}
  /\ streaming = FALSE
  /\ i = 0
  /\ format_count = 0 /\ j = 0
  /\ formats = <<>>
  /\ room = [formats |-> 0, resolutions |-> 0]
  /\ resolutions = <<>>
  /\ format_index = Unset /\ resolution_index = Unset
  /\ framebuffer_size = Unset

Init == InitFor(Requests)

------------------------------------------------------------------------------
EnterIoctl(point) == pc' = point /\ tries' = IoctlRetry

(* Mutant of IoctlFails: the loop is only left when the ioctl succeeds.    *)
IoctlFailsForever(refused, failed) ==
  /\ \E res \in Failures :
       \/ res = "transient" /\ "transient" \in Faults
       \/ res = "hard" /\ ("ioctl" \in Faults \/ refused \/ ~dev.exists)
  /\ failed \in STRING
  /\ UNCHANGED <<pc, tries>>

(* The ioctl at pc fails.  refused: the device has cause to refuse it.     *)
(* failed: where the code goes on then; init_v4l2 returns -1 in most       *)
(* cases, which create_video_device turns into a panic.                    *)
IoctlFails(refused, failed) ==
  /\ \E res \in Failures :
       /\ \/ res = "transient" /\ "transient" \in Faults
          \/ res = "hard" /\ ("ioctl" \in Faults \/ refused \/ ~dev.exists)
       /\ \/ Again(res, tries) /\ tries' = tries - 1 /\ UNCHANGED pc
          \/ GivesUp(res, tries) /\ pc' = "panic" /\ UNCHANGED tries
          \/ Refused(res, tries) /\ EnterIoctl(failed)

(* create_video_device is called: without a size it returns NULL, which is *)
(* a panic of its caller.  OPEN_VIDEO may fail, which is only logged: the  *)
(* ioctls on the descriptor -1 then fail for good.                         *)
Create ==
  /\ pc = "create"
  /\ IF 0 \in {AskedSize.width, AskedSize.height}
     THEN pc' = "panic" /\ UNCHANGED <<tries, format_in, size>>
     ELSE /\ EnterIoctl("querycap")
          /\ format_in' = AskedFormat
          /\ size' = AskedSize
  /\ UNCHANGED <<device, mapped, i, lists, framebuffer_size>>

(* VIDIOC_QUERYCAP: a device that cannot capture or stream is refused.     *)
QueryCap ==
  /\ pc = "querycap"
  /\ dev.exists
  /\ IF dev.capture /\ dev.stream THEN EnterIoctl("sfmt")
                                  ELSE pc' = "panic" /\ UNCHANGED tries
  /\ UNCHANGED <<format_in, size, device, mapped, i, lists, framebuffer_size>>

QueryCapFails ==
  /\ pc = "querycap"
  /\ IoctlFails(FALSE, "panic")
  /\ UNCHANGED <<format_in, size, device, mapped, i, lists, framebuffer_size>>

(* VIDIOC_S_FMT: what the device can do it does; otherwise it puts one of  *)
(* its own choices in place of what it was asked for.                      *)
SetFormat ==
  /\ pc \in {"sfmt", "sfmt_fallback"}
  /\ dev.exists
  /\ granted = 0
  /\ LET wanted == [format |-> format_in, size |-> AskedSize]
     IN current' \in IF wanted \in Pairs(dev) THEN {wanted} ELSE Pairs(dev)
  /\ pc' = "check"
  /\ UNCHANGED <<tries, asked, format_in, size, dev, granted, queued, streaming,
                 mapped, i, lists, framebuffer_size>>

SetFormatFails ==
  /\ pc = "sfmt"
  /\ IoctlFails([format |-> format_in, size |-> AskedSize] \notin Pairs(dev),
                "sfmt_fallback")
  /\ format_in' = IF pc' = "sfmt_fallback" THEN Fallback ELSE format_in
  /\ UNCHANGED <<size, device, mapped, i, lists, framebuffer_size>>

SetFallbackFails ==
  /\ pc = "sfmt_fallback"
  /\ IoctlFails([format |-> format_in, size |-> AskedSize] \notin Pairs(dev),
                "panic")
  /\ UNCHANGED <<format_in, size, device, mapped, i, lists, framebuffer_size>>

(* Mutant of CheckFormat: the granted size is not stored.                  *)
CheckFormatKeepingSize ==
  /\ pc = "check"
  /\ IF current.size # size /\ current.format # format_in
     THEN pc' = "panic" /\ UNCHANGED tries
     ELSE EnterIoctl("sparm")
  /\ UNCHANGED <<size, format_in, device, mapped, i, lists, framebuffer_size>>

(* The granted size replaces the asked one.  The granted format is looked  *)
(* at only when the size differs: a device that differs is then refused.   *)
CheckFormat ==
  /\ pc = "check"
  /\ size' = current.size
  /\ IF current.size # size /\ current.format # format_in
     THEN pc' = "panic" /\ UNCHANGED tries
     ELSE EnterIoctl("sparm")
  /\ UNCHANGED <<format_in, device, mapped, i, lists, framebuffer_size>>

SetParm ==
  /\ pc = "sparm"
  /\ EnterIoctl("reqbufs")
  /\ UNCHANGED <<format_in, size, device, mapped, i, lists, framebuffer_size>>

SetParmFails ==
  /\ pc = "sparm"
  /\ IoctlFails(FALSE, "panic")
  /\ UNCHANGED <<format_in, size, device, mapped, i, lists, framebuffer_size>>

(* VIDIOC_REQBUFS: the count the device grants is not looked at.           *)
RequestBuffers ==
  /\ pc = "reqbufs"
  /\ granted' = dev.grants
  /\ EnterIoctl("querybuf")
  /\ i' = 0
  /\ UNCHANGED <<asked, format_in, size, dev, current, queued, streaming, mapped,
                 lists, framebuffer_size>>

RequestBuffersFails ==
  /\ pc = "reqbufs"
  /\ IoctlFails(FALSE, "panic")
  /\ UNCHANGED <<format_in, size, device, mapped, i, lists, framebuffer_size>>

(* VIDIOC_QUERYBUF of buffer i, which must be one of those granted.        *)
QueryBuffer ==
  /\ pc = "querybuf"
  /\ i < granted
  /\ pc' = "mmap"
  /\ UNCHANGED <<tries, format_in, size, device, mapped, i, lists,
                 framebuffer_size>>

QueryBufferFails ==
  /\ pc = "querybuf"
  /\ IoctlFails(i >= granted, "panic")
  /\ UNCHANGED <<format_in, size, device, mapped, i, lists, framebuffer_size>>

(* Mutant of Map: the loop stops at the last but one buffer.               *)
MapAllButOne ==
  /\ pc = "mmap"
  /\ mapped' = mapped \cup {i}
  /\ IF i + 2 < NbBuffer THEN i' = i + 1 /\ EnterIoctl("querybuf")
                         ELSE i' = 0 /\ EnterIoctl("qbuf")
  /\ UNCHANGED <<format_in, size, device, lists, framebuffer_size>>

Map ==
  /\ pc = "mmap"
  /\ mapped' = mapped \cup {i}
  /\ IF i + 1 < NbBuffer THEN i' = i + 1 /\ EnterIoctl("querybuf")
                         ELSE i' = 0 /\ EnterIoctl("qbuf")
  /\ UNCHANGED <<format_in, size, device, lists, framebuffer_size>>

MapFails ==
  /\ pc = "mmap"
  /\ "mmap" \in Faults
  /\ pc' = "panic"
  /\ UNCHANGED <<tries, format_in, size, device, mapped, i, lists,
                 framebuffer_size>>

(* Mutant of QueueBuffer: the loop runs once too often. *)
QueueBufferTooMany ==
  /\ pc = "qbuf"
  /\ i < granted
  /\ queued' = queued \cup {i}
  /\ i' = i + 1
  /\ EnterIoctl(IF i < NbBuffer THEN "qbuf" ELSE "streamon")
  /\ UNCHANGED <<asked, format_in, size, dev, current, granted, streaming, mapped,
                 lists, framebuffer_size>>

QueueBuffer ==
  /\ pc = "qbuf"
  /\ i < granted
  /\ queued' = queued \cup {i}
  /\ i' = i + 1
  /\ EnterIoctl(IF i + 1 < NbBuffer THEN "qbuf" ELSE "streamon")
  /\ UNCHANGED <<asked, format_in, size, dev, current, granted, streaming, mapped,
                 lists, framebuffer_size>>

QueueBufferFails ==
  /\ pc = "qbuf"
  /\ IoctlFails(i >= granted, "panic")
  /\ UNCHANGED <<format_in, size, device, mapped, i, lists, framebuffer_size>>

(* video_enable. *)
StreamOn ==
  /\ pc = "streamon"
  /\ streaming' = TRUE
  /\ EnterIoctl("enumfmt")
  /\ UNCHANGED <<asked, format_in, size, dev, current, granted, queued, mapped, i,
                 lists, framebuffer_size>>

StreamOnFails ==
  /\ pc = "streamon"
  /\ IoctlFails(FALSE, "panic")
  /\ UNCHANGED <<format_in, size, device, mapped, i, lists, framebuffer_size>>

------------------------------------------------------------------------------
(* The enumeration of create_video_device: each format the device lists,   *)
(* and each size of that format.  An ioctl that fails for good ends a      *)
(* list.  format and the sizes are compared with what was asked for, not   *)
(* with what was negotiated.                                               *)
EnumFormat ==
  /\ pc = "enumfmt"
  /\ format_count < Len(dev.formats)
  /\ LET listed == dev.formats[format_count + 1].format
     IN /\ formats' = Append(formats, listed)
        /\ format_index' = IF listed = AskedFormat THEN format_count
                                                   ELSE format_index
  /\ room' = [room EXCEPT !.formats = IF @ = 0 THEN 1 ELSE format_count + 1]
  /\ j' = 0
  /\ EnterIoctl("enumsizes")
  /\ UNCHANGED <<format_in, size, device, mapped, i, format_count,
                 resolutions, resolution_index, framebuffer_size>>

EnumFormatEnds ==
  /\ pc = "enumfmt"
  /\ IoctlFails(format_count >= Len(dev.formats), "alloc")
  /\ UNCHANGED <<format_in, size, device, mapped, i, lists, framebuffer_size>>

(* Mutant of EnumSize: the list of sizes is grown one element short.       *)
EnumSizeNoRealloc ==
  LET listed == dev.formats[format_count + 1]
  IN /\ pc = "enumsizes"
     /\ j < Len(listed.sizes)
     /\ resolutions' = Append(resolutions, [format |-> listed.format,
                                            size |-> listed.sizes[j + 1]])
     /\ resolution_index' =
          IF listed.format = AskedFormat /\ listed.sizes[j + 1] = AskedSize
          THEN Len(resolutions) ELSE resolution_index
     /\ room' = [room EXCEPT !.resolutions =
                   IF @ = 0 THEN 1 ELSE Len(resolutions)]
     /\ j' = j + 1
     /\ EnterIoctl("enumsizes")
     /\ UNCHANGED <<format_in, size, device, mapped, i, formats, format_count,
                    format_index, framebuffer_size>>

EnumSize ==
  LET listed == dev.formats[format_count + 1]
  IN /\ pc = "enumsizes"
     /\ j < Len(listed.sizes)
     /\ resolutions' = Append(resolutions, [format |-> listed.format,
                                            size |-> listed.sizes[j + 1]])
     /\ resolution_index' =
          IF listed.format = AskedFormat /\ listed.sizes[j + 1] = AskedSize
          THEN Len(resolutions) ELSE resolution_index
     /\ room' = [room EXCEPT !.resolutions =
                   IF @ = 0 THEN 1 ELSE Len(resolutions) + 1]
     /\ j' = j + 1
     /\ EnterIoctl("enumsizes")
     /\ UNCHANGED <<format_in, size, device, mapped, i, formats, format_count,
                    format_index, framebuffer_size>>

(* format_count++ when the sizes of the format are done. *)
EnumSizesEnd ==
  /\ pc = "enumsizes"
  /\ IoctlFails(j >= Len(dev.formats[format_count + 1].sizes), "enumfmt")
  /\ format_count' = IF pc' = "enumfmt" THEN format_count + 1 ELSE format_count
  /\ UNCHANGED <<format_in, size, device, mapped, i, formats, room, j,
                 resolutions, format_index, resolution_index,
                 framebuffer_size>>

(* The framebuffer, for both formats: width * height * 2.                  *)
AllocateFramebuffer ==
  /\ pc = "alloc"
  /\ framebuffer_size' = Area(size) * 2
  /\ pc' = "ready"
  /\ UNCHANGED <<tries, format_in, size, device, mapped, i, lists>>

------------------------------------------------------------------------------
Setup ==
  \/ Create \/ QueryCap \/ QueryCapFails \/ SetFormat \/ SetFormatFails
  \/ SetFallbackFails \/ CheckFormat \/ SetParm \/ SetParmFails
  \/ RequestBuffers \/ RequestBuffersFails \/ QueryBuffer \/ QueryBufferFails
  \/ Map \/ MapFails \/ QueueBuffer \/ QueueBufferFails
  \/ StreamOn \/ StreamOnFails \/ EnumFormat \/ EnumFormatEnds
  \/ EnumSize \/ EnumSizesEnd \/ AllocateFramebuffer

Terminated == pc \in Terminal /\ UNCHANGED vars

Next == Setup \/ Terminated

Spec == Init /\ [][Next]_vars

------------------------------------------------------------------------------
(* What the main loop starts from (CaptureLoop!Init): every buffer of the  *)
(* ring is granted, mapped and queued, the stream is on.  A device that    *)
(* grants fewer than NB_BUFFER never gets there.                           *)
RingReady ==
  pc = "ready" => /\ streaming
                  /\ mapped = Buffers
                  /\ queued = Buffers
                  /\ NbBuffer <= granted

(* The framebuffer holds exactly one frame of the size the device was set  *)
(* to, whatever size it was asked for.                                     *)
FramebufferFits == pc = "ready" => framebuffer_size = Area(current.size) * 2

(* v4l2uvc.c:241,244, "The input device does not supports YUV mode",       *)
(* "... Z16 mode": no camera is used whose frames are in another format.   *)
FormatAgreed == pc = "ready" => current.format = format_in

(* The lists stay inside the memory allocated for them at every step, and  *)
(* the index of the asked size, once set, is that of an entry for it.      *)
ListsInBounds ==
  /\ Len(formats) <= room.formats
  /\ Len(resolutions) <= room.resolutions
  /\ format_index # Unset => formats[format_index + 1] = AskedFormat
  /\ resolution_index # Unset =>
       resolutions[resolution_index + 1] =
         [format |-> AskedFormat, size |-> AskedSize]
=============================================================================
