------------------------- MODULE DeviceSetup_proofs -------------------------
(***************************************************************************)
(* Proofs about DeviceSetup, for every number of buffers and retries, any  *)
(* cameras, any requests and every set of faults.                          *)
(*                                                                         *)
(* What holds when the set-up is over is built up along it: SetupInv says, *)
(* for each place of the code, what has been done by then.                 *)
(***************************************************************************)
EXTENDS DeviceSetup, SequenceTheorems, TLAPS

(* The places of create_video_device from a point of it to its end. *)
Filled == {"alloc", "ready"}
Enumerating == {"enumfmt", "enumsizes"} \cup Filled
Queued == {"streamon"} \cup Enumerating
Mapped == {"qbuf"} \cup Queued
Negotiated == {"sparm", "reqbufs", "querybuf", "mmap"} \cup Mapped
Points == {"create", "querycap", "sfmt", "sfmt_fallback", "check", "panic"}
            \cup Negotiated

(* The two loops over the buffers have done those below i; the stream is   *)
(* switched on after them.                                                 *)
RingInv ==
  /\ pc \in {"querybuf", "mmap"} => i < NbBuffer /\ 0 .. i - 1 \subseteq mapped
  /\ pc \in Mapped => mapped = Buffers
  /\ pc = "qbuf" => i < NbBuffer /\ 0 .. i - 1 \subseteq queued
  /\ pc \in Queued => queued = Buffers /\ NbBuffer <= granted
  /\ pc \in Enumerating => streaming

(* From the check of the format on, the size is the one the device is set  *)
(* to, and that is what the framebuffer is made for.                       *)
SizeInv ==
  /\ pc \in Negotiated => size = current.size
  /\ pc = "ready" => framebuffer_size = Area(current.size) * 2

(* The lists are empty until the enumeration begins, which adds a format   *)
(* before it goes through its sizes and counts it after them.              *)
CountInv ==
  /\ pc \notin Enumerating \cup {"panic"} =>
       /\ format_count = 0 /\ formats = <<>> /\ resolutions = <<>>
       /\ format_index = Unset /\ resolution_index = Unset
  /\ pc = "enumfmt" => Len(formats) = format_count
  /\ pc = "enumsizes" => /\ Len(formats) = format_count + 1
                         /\ format_count < Len(dev.formats)

(* The indices are those of entries of the lists. *)
IndexInv ==
  /\ format_index # Unset => format_index < Len(formats)
  /\ resolution_index # Unset => resolution_index < Len(resolutions)

SetupInv ==
  TypeOK /\ RingInv /\ SizeInv /\ CountInv /\ IndexInv /\ ListsInBounds

(* Sizes with sides of one kind or another, and their areas.               *)
LEMMA SizesTyped ==
  /\ Sizes(Nat \ {0}) \subseteq Sizes(Nat) /\ Sizes(Nat) \subseteq Sizes(Int)
  /\ \A w, h \in Int : Size(w, h) \in Sizes(Int)
  /\ Size(0, 0) \in Sizes(Nat) /\ Size(Unset, Unset) \in Sizes(Int)
  /\ \A s \in Sizes(Nat) : Area(s) \in Nat /\ Area(s) * 2 \in Nat
<1>1. \A w, h \in Nat : w * h \in Nat /\ (w * h) * 2 \in Nat
  OBVIOUS
<1>2. \A s \in Sizes(Nat) : s.width \in Nat /\ s.height \in Nat
  BY DEF Sizes
<1>3. \A s \in Sizes(Nat) : Area(s) \in Nat /\ Area(s) * 2 \in Nat
  BY <1>1, <1>2 DEF Area
<1>4. QED
  BY <1>3 DEF Sizes, Size, Unset

ConstantsTyped ==
  /\ NbBuffer \in Nat \ {0} /\ IoctlRetry \in Nat \ {0}
  /\ Devices \subseteq Device /\ Faults \subseteq FaultKinds

(* The assumptions of the model, a fact for each constant.                 *)
LEMMA ConstantsAssumed == ConstantsTyped
  BY NbBufferAssumption, IoctlRetryAssumption, DevicesAssumption,
     FaultsAssumption DEF ConstantsTyped

------------------------------------------------------------------------------
(* A failed ioctl stays where it is, ends the process or goes on where it  *)
(* is told to, and never takes the counter below zero.                     *)
LEMMA FailureGoesOn ==
  ASSUME TypeOK, NEW refused, NEW failed, IoctlFails(refused, failed)
  PROVE  pc' \in {pc, "panic", failed} /\ tries' \in Tries
  BY ConstantsAssumed
  DEF TypeOK, IoctlFails, EnterIoctl, Again, GivesUp, Refused, Tries,
      Failures, ConstantsTyped

(* A failure after which nothing but pc and tries has changed keeps        *)
(* SetupInv, if the code then stays in the same part of it.                *)
LEMMA FailureKeepsInv ==
  ASSUME SetupInv, pc' \in {pc, "panic"}, tries' \in Tries,
         UNCHANGED <<format_in, size, device, mapped, i, lists,
                     framebuffer_size>>
  PROVE  SetupInv'
<1>1. TypeOK'
  BY DEF SetupInv, TypeOK, device, lists, Terminal
<1>2. RingInv' /\ SizeInv' /\ CountInv' /\ IndexInv' /\ ListsInBounds'
  BY DEF SetupInv, RingInv, SizeInv, CountInv, IndexInv, ListsInBounds,
     AskedFormat, AskedSize, device, lists, Filled, Enumerating, Queued,
     Mapped, Negotiated
<1>3. QED
  BY <1>1, <1>2 DEF SetupInv

(* Before the buffers are asked for, only the place, the format and the    *)
(* size change.                                                            *)
LEMMA EarlyKeepsInv ==
  ASSUME SetupInv, pc \notin Mapped \cup {"querybuf", "mmap"},
         pc' \in Points \ ({"querybuf", "mmap"} \cup Mapped),
         tries' \in Tries,
         format_in' \in InputFormats \cup {"unset"},
         size' \in Sizes(Int),
         current' \in [format : DeviceFormats \cup {"none"}, size : Sizes(Nat)],
         pc' \in Negotiated => size' = current'.size,
         pc' # "create", pc # "panic",
         UNCHANGED <<asked, dev, granted, queued, streaming, mapped, i, lists,
                     framebuffer_size>>
  PROVE  SetupInv'
<1>1. TypeOK'
  BY DEF SetupInv, TypeOK, lists, Points, Negotiated, Mapped, Queued,
     Enumerating, Filled, Terminal
<1>2. RingInv' /\ SizeInv' /\ CountInv' /\ IndexInv' /\ ListsInBounds'
  BY DEF SetupInv, RingInv, SizeInv, CountInv, IndexInv, ListsInBounds,
     AskedFormat, AskedSize, lists, Points, Filled, Enumerating, Queued,
     Mapped, Negotiated
<1>3. QED
  BY <1>1, <1>2 DEF SetupInv

(* SetupInv holds when create_video_device is called, whatever it is asked *)
(* for.                                                                    *)
LEMMA SetupInvInitially ==
  ASSUME NEW requests, requests \subseteq [format : InputFormats, size : Sizes(Int)],
         InitFor(requests)
  PROVE  SetupInv
<1> USE ConstantsAssumed DEF ConstantsTyped
<1>1. TypeOK
  <2>1. formats \in Seq(DeviceFormats)
        /\ resolutions \in Seq([format : DeviceFormats, size : Sizes(Nat)])
    BY EmptySeq DEF InitFor
  <2>2. dev \in Device /\ asked \in [format : InputFormats, size : Sizes(Int)]
    BY DEF InitFor
  <2>3. room \in [formats : Nat, resolutions : Nat]
        /\ current \in [format : DeviceFormats \cup {"none"}, size : Sizes(Nat)]
    BY SizesTyped DEF InitFor
  <2>4. /\ tries \in Tries /\ i \in 0 .. NbBuffer /\ size \in Sizes(Int)
        /\ framebuffer_size \in Nat \cup {Unset}
        /\ format_index \in Nat \cup {Unset}
        /\ resolution_index \in Nat \cup {Unset}
    BY SizesTyped DEF InitFor, Tries, Unset
  <2>5. granted \in Nat /\ format_count \in Nat /\ j \in Nat
    BY DEF InitFor
  <2>6. mapped \subseteq Buffers /\ queued \subseteq Buffers
    BY DEF InitFor
  <2>7. streaming \in BOOLEAN
    BY DEF InitFor
  <2>8. QED
    BY <2>1, <2>2, <2>3, <2>4, <2>5, <2>6, <2>7 DEF InitFor, TypeOK
<1>2. RingInv /\ SizeInv /\ CountInv /\ IndexInv
  BY DEF InitFor, RingInv, SizeInv, CountInv, IndexInv, Filled, Enumerating,
     Queued, Mapped, Negotiated, Unset
<1>3. ListsInBounds
  BY EmptySeq DEF InitFor, ListsInBounds, Unset
<1>4. QED
  BY <1>1, <1>2, <1>3 DEF SetupInv

(* What a camera offers is typed. *)
LEMMA PairsTyped ==
  ASSUME NEW d \in Device
  PROVE  Pairs(d) \subseteq [format : DeviceFormats, size : Sizes(Nat)]
<1> SUFFICES ASSUME NEW k \in DOMAIN d.formats,
                    NEW n \in DOMAIN d.formats[k].sizes
             PROVE  [format |-> d.formats[k].format,
                     size |-> d.formats[k].sizes[n]]
                      \in [format : DeviceFormats, size : Sizes(Nat)]
  BY DEF Pairs
<1>1. d.formats \in Seq([format : DeviceFormats, sizes : Seq(Sizes(Nat \ {0}))])
  BY DEF Device
<1>2. d.formats[k] \in [format : DeviceFormats, sizes : Seq(Sizes(Nat \ {0}))]
  BY <1>1, ElementOfSeq, LenProperties
<1>3. d.formats[k].sizes[n] \in Sizes(Nat)
  BY <1>2, ElementOfSeq, LenProperties, SizesTyped
<1>4. QED
  BY <1>2, <1>3

(* Up to the negotiation of the format nothing of the ring or the lists    *)
(* exists, and the size is taken over from the device at its end.          *)
LEMMA NegotiationKeepsInv ==
  ASSUME SetupInv,
         Create \/ QueryCap \/ QueryCapFails \/ SetFormat \/ SetFormatFails
           \/ SetFallbackFails \/ CheckFormat \/ SetParm \/ SetParmFails
  PROVE  SetupInv'
<1> USE ConstantsAssumed DEF ConstantsTyped
<1> DEFINE Early == {"create", "querycap", "sfmt", "sfmt_fallback", "check",
                     "sparm", "reqbufs", "panic"}
<1>0. /\ TypeOK
      /\ Early = Points \ ({"querybuf", "mmap"} \cup Mapped)
      /\ IoctlRetry \in Tries
  BY DEF SetupInv, Points, Negotiated, Mapped, Queued, Enumerating, Filled,
     Tries
<1>1. CASE Create
  BY <1>0, <1>1, EarlyKeepsInv, SizesTyped
  DEF Create, EnterIoctl, AskedFormat, AskedSize, TypeOK, device, Negotiated,
      Mapped, Queued, Enumerating, Filled
<1>2. CASE QueryCap
  BY <1>0, <1>2, EarlyKeepsInv
  DEF QueryCap, EnterIoctl, TypeOK, device, Negotiated, Mapped, Queued,
      Enumerating, Filled
<1>3. CASE QueryCapFails \/ SetParmFails
  <2>1. pc' \in {pc, "panic"} /\ tries' \in Tries
    BY <1>0, <1>3, FailureGoesOn DEF QueryCapFails, SetParmFails
  <2>2. QED
    BY <1>3, <2>1, FailureKeepsInv DEF QueryCapFails, SetParmFails
<1>4. CASE SetFormat
  <2>1. current' \in [format : DeviceFormats \cup {"none"}, size : Sizes(Nat)]
    <3>1. Pairs(dev) \subseteq [format : DeviceFormats, size : Sizes(Nat)]
      BY <1>0, PairsTyped DEF TypeOK
    <3>2. current' \in Pairs(dev)
      BY <1>4 DEF SetFormat
    <3>3. QED
      BY <3>1, <3>2
  <2>2. QED
    BY <1>0, <1>4, <2>1, EarlyKeepsInv
    DEF SetFormat, TypeOK, Negotiated, Mapped, Queued, Enumerating, Filled
<1>5. CASE SetFormatFails
  <2>1. pc' \in {pc, "panic", "sfmt_fallback"} /\ tries' \in Tries
    BY <1>0, <1>5, FailureGoesOn DEF SetFormatFails
  <2>2. format_in' \in InputFormats \cup {"unset"}
    BY <1>0, <1>5 DEF SetFormatFails, TypeOK, Fallback, InputFormats
  <2>3. QED
    BY <1>0, <1>5, <2>1, <2>2, EarlyKeepsInv
    DEF SetFormatFails, TypeOK, device, Negotiated, Mapped, Queued,
        Enumerating, Filled
<1>6. CASE SetFallbackFails
  <2>1. pc' \in {pc, "panic"} /\ tries' \in Tries
    BY <1>0, <1>6, FailureGoesOn DEF SetFallbackFails
  <2>2. QED
    BY <1>6, <2>1, FailureKeepsInv DEF SetFallbackFails
<1>7. CASE CheckFormat
  BY <1>0, <1>7, EarlyKeepsInv, SizesTyped
  DEF CheckFormat, EnterIoctl, TypeOK, device, Negotiated, Mapped, Queued,
      Enumerating, Filled
<1>8. CASE SetParm
  BY <1>0, <1>8, EarlyKeepsInv
  DEF SetParm, EnterIoctl, SetupInv, SizeInv, TypeOK, device, Negotiated,
      Mapped, Queued, Enumerating, Filled
<1>9. QED
  BY <1>1, <1>2, <1>3, <1>4, <1>5, <1>6, <1>7, <1>8

(* Lists that are not touched stay in bounds. *)
LEMMA ListsKept ==
  ASSUME SetupInv, UNCHANGED <<asked, dev, lists>>,
         pc' = "enumfmt" => pc \in {"streamon", "enumfmt"},
         pc' = "enumsizes" => pc = "enumsizes",
         pc' \notin Enumerating \cup {"panic"} =>
           pc \notin Enumerating \cup {"panic"}
  PROVE  CountInv' /\ IndexInv' /\ ListsInBounds'
<1>1. CountInv'
  <2>1. CASE pc = "streamon" /\ pc' = "enumfmt"
    BY <2>1, EmptySeq DEF SetupInv, CountInv, lists, Enumerating, Filled
  <2>2. CASE ~(pc = "streamon" /\ pc' = "enumfmt")
    BY <2>2 DEF SetupInv, CountInv, lists, Enumerating, Filled
  <2>3. QED
    BY <2>1, <2>2
<1>2. IndexInv' /\ ListsInBounds'
  BY DEF SetupInv, IndexInv, ListsInBounds, AskedFormat, AskedSize, lists
<1>3. QED
  BY <1>1, <1>2

(* The loops over the buffers: after the last round of each all of them    *)
(* have been mapped, or queued, and a buffer that has been queued was      *)
(* granted.                                                                *)
LEMMA RingKeepsInv ==
  ASSUME SetupInv,
         RequestBuffers \/ RequestBuffersFails \/ QueryBuffer
           \/ QueryBufferFails \/ Map \/ MapFails \/ QueueBuffer
           \/ QueueBufferFails \/ StreamOn \/ StreamOnFails
  PROVE  SetupInv'
<1> USE ConstantsAssumed DEF ConstantsTyped
<1>0. TypeOK /\ IoctlRetry \in Tries
  BY DEF SetupInv, Tries
<1>1. CASE RequestBuffersFails \/ QueryBufferFails \/ QueueBufferFails
             \/ StreamOnFails
  <2>1. pc' \in {pc, "panic"} /\ tries' \in Tries
    BY <1>0, <1>1, FailureGoesOn
    DEF RequestBuffersFails, QueryBufferFails, QueueBufferFails, StreamOnFails
  <2>2. QED
    BY <1>1, <2>1, FailureKeepsInv
    DEF RequestBuffersFails, QueryBufferFails, QueueBufferFails, StreamOnFails
<1>2. CASE MapFails
  BY <1>0, <1>2, FailureKeepsInv DEF MapFails, TypeOK
<1>3. CASE RequestBuffers
  <2>1. TypeOK'
    <3>1. dev.grants \in Nat
      BY <1>0 DEF TypeOK, Device
    <3>2. QED
      BY <1>0, <1>3, <3>1 DEF RequestBuffers, EnterIoctl, TypeOK, lists
  <2>2. RingInv' /\ SizeInv'
    BY <1>0, <1>3
    DEF RequestBuffers, EnterIoctl, SetupInv, RingInv, SizeInv, Filled,
        Enumerating, Queued, Mapped, Negotiated
  <2>3. CountInv' /\ IndexInv' /\ ListsInBounds'
    BY <1>3, ListsKept
    DEF RequestBuffers, EnterIoctl, Enumerating, Filled
  <2>4. QED
    BY <2>1, <2>2, <2>3 DEF SetupInv
<1>4. CASE QueryBuffer
  <2>1. TypeOK'
    BY <1>0, <1>4 DEF QueryBuffer, TypeOK, device, lists
  <2>2. RingInv' /\ SizeInv'
    BY <1>0, <1>4
    DEF QueryBuffer, SetupInv, RingInv, SizeInv, device, Filled, Enumerating,
        Queued, Mapped, Negotiated
  <2>3. CountInv' /\ IndexInv' /\ ListsInBounds'
    BY <1>4, ListsKept DEF QueryBuffer, device, Enumerating, Filled
  <2>4. QED
    BY <2>1, <2>2, <2>3 DEF SetupInv
<1>5. CASE Map
  <2>0. i < NbBuffer /\ 0 .. i - 1 \subseteq mapped /\ i \in Nat
        /\ mapped \subseteq Buffers
    BY <1>0, <1>5 DEF Map, SetupInv, RingInv, TypeOK
  <2>1. 0 .. i \subseteq mapped' /\ mapped' \subseteq Buffers
    BY <1>5, <2>0 DEF Map, Buffers
  <2>2. TypeOK'
    BY <1>0, <1>5, <2>0, <2>1 DEF Map, EnterIoctl, TypeOK, device, lists
  <2>3. CASE i + 1 < NbBuffer
    <3>1. 0 .. i' - 1 \subseteq mapped' /\ i' < NbBuffer /\ pc' = "querybuf"
      BY <1>5, <2>0, <2>1, <2>3 DEF Map, EnterIoctl
    <3>2. QED
      BY <1>5, <3>1, <2>2, ListsKept
      DEF Map, SetupInv, RingInv, SizeInv, device, Filled, Enumerating,
          Queued, Mapped, Negotiated
  <2>4. CASE ~(i + 1 < NbBuffer)
    <3>1. i = NbBuffer - 1
      BY <2>0, <2>4
    <3>2. mapped' = Buffers
      BY <2>1, <3>1 DEF Buffers
    <3>3. i' = 0 /\ pc' = "qbuf"
      BY <1>5, <2>4 DEF Map, EnterIoctl
    <3>4. i' < NbBuffer /\ 0 .. i' - 1 = {}
      BY <3>3
    <3>5. QED
      BY <1>5, <3>2, <3>3, <3>4, <2>2, ListsKept
      DEF Map, SetupInv, RingInv, SizeInv, device, Filled, Enumerating,
          Queued, Mapped, Negotiated
  <2>5. QED
    BY <2>3, <2>4
<1>6. CASE QueueBuffer
  <2>0. i < NbBuffer /\ 0 .. i - 1 \subseteq queued /\ i \in Nat
        /\ queued \subseteq Buffers /\ granted \in Nat /\ mapped = Buffers
    BY <1>0, <1>6 DEF QueueBuffer, SetupInv, RingInv, TypeOK, Mapped
  <2>1. 0 .. i \subseteq queued' /\ queued' \subseteq Buffers
    BY <1>6, <2>0 DEF QueueBuffer, Buffers
  <2>2. TypeOK'
    BY <1>0, <1>6, <2>0, <2>1 DEF QueueBuffer, EnterIoctl, TypeOK, lists
  <2>3. CASE i + 1 < NbBuffer
    <3>1. 0 .. i' - 1 \subseteq queued' /\ i' < NbBuffer /\ pc' = "qbuf"
      BY <1>6, <2>0, <2>1, <2>3 DEF QueueBuffer, EnterIoctl
    <3>2. QED
      BY <1>6, <3>1, <2>0, <2>2, ListsKept
      DEF QueueBuffer, SetupInv, RingInv, SizeInv, Filled, Enumerating,
          Queued, Mapped, Negotiated
  <2>4. CASE ~(i + 1 < NbBuffer)
    <3>1. i = NbBuffer - 1
      BY <2>0, <2>4
    <3>2. queued' = Buffers
      BY <2>1, <3>1 DEF Buffers
    <3>3. pc' = "streamon" /\ NbBuffer <= granted'
      BY <1>6, <2>0, <2>4, <3>1 DEF QueueBuffer, EnterIoctl
    <3>4. QED
      BY <1>6, <3>2, <3>3, <2>0, <2>2, ListsKept
      DEF QueueBuffer, SetupInv, RingInv, SizeInv, Filled, Enumerating,
          Queued, Mapped, Negotiated
  <2>5. QED
    BY <2>3, <2>4
<1>7. CASE StreamOn
  <2>1. TypeOK'
    BY <1>0, <1>7 DEF StreamOn, EnterIoctl, TypeOK, lists
  <2>2. RingInv' /\ SizeInv'
    BY <1>0, <1>7
    DEF StreamOn, EnterIoctl, SetupInv, RingInv, SizeInv, Filled,
        Enumerating, Queued, Mapped, Negotiated
  <2>3. CountInv' /\ IndexInv' /\ ListsInBounds'
    BY <1>7, ListsKept DEF StreamOn, EnterIoctl, Enumerating, Filled
  <2>4. QED
    BY <2>1, <2>2, <2>3 DEF SetupInv
<1>8. QED
  BY <1>1, <1>2, <1>3, <1>4, <1>5, <1>6, <1>7

(* Away from the lists the set-up is as far as it was. *)
LEMMA EnumerationKeepsRing ==
  ASSUME SetupInv, pc \in Enumerating, pc' \in Enumerating \ {"ready"},
         UNCHANGED <<mapped, queued, granted, streaming, size, current>>
  PROVE  RingInv' /\ SizeInv'
  BY DEF SetupInv, RingInv, SizeInv, Filled, Enumerating, Queued, Mapped,
     Negotiated

(* One element more, in memory that has grown with the list. *)
LEMMA AppendInBounds ==
  ASSUME NEW S, NEW s \in Seq(S), NEW e \in S, NEW r \in Nat, Len(s) <= r,
         NEW r1, r1 = IF r = 0 THEN 1 ELSE Len(s) + 1
  PROVE  /\ Append(s, e) \in Seq(S) /\ Len(Append(s, e)) = Len(s) + 1
         /\ Len(s) + 1 <= r1 /\ r1 \in Nat
         /\ \A n \in 1 .. Len(s) : Append(s, e)[n] = s[n]
         /\ Append(s, e)[Len(s) + 1] = e
<1>1. Len(s) \in Nat
  BY LenProperties
<1>2. QED
  BY <1>1, AppendProperties

(* EnumFormat: the new format and, if it is the one asked for, its index.  *)
LEMMA EnumFormatKeepsInv ==
  ASSUME SetupInv, EnumFormat
  PROVE  SetupInv'
<1> USE ConstantsAssumed DEF ConstantsTyped
<1> DEFINE listed == dev.formats[format_count + 1].format
<1>1. /\ TypeOK /\ IoctlRetry \in Tries /\ pc = "enumfmt" /\ pc' = "enumsizes"
      /\ tries' = IoctlRetry /\ format_count = Len(formats)
      /\ format_count < Len(dev.formats) /\ format_count \in Nat
  <2>1. /\ pc = "enumfmt" /\ pc' = "enumsizes" /\ tries' = IoctlRetry
        /\ format_count < Len(dev.formats)
    BY DEF EnumFormat, EnterIoctl
  <2>2. TypeOK /\ format_count = Len(formats)
    BY <2>1 DEF SetupInv, CountInv
  <2>3. format_count \in Nat
    BY <2>2 DEF TypeOK
  <2>4. QED
    BY <2>1, <2>2, <2>3 DEF Tries
<1>2. /\ room \in [formats : Nat, resolutions : Nat]
      /\ formats \in Seq(DeviceFormats)
      /\ Len(formats) <= room.formats /\ Len(resolutions) <= room.resolutions
  BY <1>1 DEF TypeOK, SetupInv, ListsInBounds
<1>3. listed \in DeviceFormats
  <2>1. dev.formats \in Seq([format : DeviceFormats, sizes : Seq(Sizes(Nat \ {0}))])
    BY <1>1 DEF TypeOK, Device
  <2>2. format_count + 1 \in 1 .. Len(dev.formats)
    BY <1>1, <2>1, LenProperties
  <2>3. dev.formats[format_count + 1]
          \in [format : DeviceFormats, sizes : Seq(Sizes(Nat \ {0}))]
    BY <2>1, <2>2, ElementOfSeq
  <2>4. QED
    BY <2>3
<1>4. /\ formats' = Append(formats, listed)
      /\ format_index' = IF listed = AskedFormat THEN format_count
                                                 ELSE format_index
      /\ room' = [room EXCEPT !.formats = IF @ = 0 THEN 1 ELSE format_count + 1]
      /\ j' = 0
      /\ UNCHANGED <<format_in, size, device, mapped, i, format_count,
                     resolutions, resolution_index, framebuffer_size>>
  BY DEF EnumFormat
<1>5. /\ room'.formats = IF room.formats = 0 THEN 1 ELSE Len(formats) + 1
      /\ room'.resolutions = room.resolutions
      /\ room'.formats \in Nat
  <2>1. Len(formats) + 1 \in Nat /\ format_count = Len(formats)
    BY <1>1
  <2>2. QED
    BY <1>2, <1>4, <2>1
<1>6. /\ formats' \in Seq(DeviceFormats)
      /\ Len(formats') = Len(formats) + 1
      /\ Len(formats) + 1 <= room'.formats
      /\ room'.formats \in Nat
      /\ \A n \in 1 .. Len(formats) : formats'[n] = formats[n]
      /\ formats'[Len(formats) + 1] = listed
  BY <1>2, <1>3, <1>4, <1>5, AppendInBounds
<1>7. room' \in [formats : Nat, resolutions : Nat]
  BY <1>2, <1>4, <1>5
<1>8. TypeOK'
  BY <1>1, <1>4, <1>6, <1>7 DEF TypeOK, device
<1>9. RingInv' /\ SizeInv'
  BY <1>1, <1>4, EnumerationKeepsRing DEF device, Enumerating, Filled
<1>10. CountInv'
  BY <1>1, <1>4, <1>6 DEF CountInv, device, Enumerating, Filled
<1>11. IndexInv' /\ ListsInBounds'
  <2>1. format_index' # Unset =>
          /\ format_index' < Len(formats')
          /\ formats'[format_index' + 1] = AskedFormat
    <3>1. CASE listed = AskedFormat
      BY <1>1, <1>4, <1>6, <3>1
    <3>2. CASE listed # AskedFormat
      <4>1. format_index' = format_index
        BY <1>4, <3>2
      <4>2. SUFFICES ASSUME format_index # Unset
                     PROVE  /\ format_index < Len(formats')
                            /\ formats'[format_index + 1] = AskedFormat
        BY <4>1
      <4>3. /\ format_index \in Nat /\ format_index < Len(formats)
            /\ formats[format_index + 1] = AskedFormat
        BY <1>1, <4>2 DEF TypeOK, SetupInv, IndexInv, ListsInBounds
      <4>4. format_index + 1 \in 1 .. Len(formats)
        BY <1>1, <4>3
      <4>5. QED
        BY <1>1, <1>6, <4>3, <4>4
    <3>3. QED
      BY <3>1, <3>2
  <2>2. QED
    BY <1>2, <1>4, <1>5, <1>6, <2>1
    DEF SetupInv, IndexInv, ListsInBounds, AskedFormat, AskedSize, device
<1>12. QED
  BY <1>8, <1>9, <1>10, <1>11 DEF SetupInv

(* EnumSize: the new size of the format and, if both are the ones asked    *)
(* for, its index.                                                         *)
LEMMA EnumSizeKeepsInv ==
  ASSUME SetupInv, EnumSize
  PROVE  SetupInv'
<1> USE ConstantsAssumed DEF ConstantsTyped
<1> DEFINE listed == dev.formats[format_count + 1]
           entry == [format |-> listed.format, size |-> listed.sizes[j + 1]]
           Entries == [format : DeviceFormats, size : Sizes(Nat)]
<1>1. /\ TypeOK /\ IoctlRetry \in Tries /\ pc = "enumsizes"
      /\ pc' = "enumsizes" /\ tries' = IoctlRetry
      /\ j \in Nat /\ j < Len(listed.sizes)
      /\ format_count < Len(dev.formats) /\ format_count \in Nat
  <2>1. /\ pc = "enumsizes" /\ pc' = "enumsizes" /\ tries' = IoctlRetry
        /\ j < Len(listed.sizes)
    BY DEF EnumSize, EnterIoctl
  <2>2. TypeOK /\ format_count < Len(dev.formats) /\ IoctlRetry \in Tries
    BY <2>1 DEF SetupInv, CountInv, Tries
  <2>3. j \in Nat /\ format_count \in Nat
    BY <2>2 DEF TypeOK
  <2>4. QED
    BY <2>1, <2>2, <2>3
<1>2. /\ room \in [formats : Nat, resolutions : Nat]
      /\ resolutions \in Seq(Entries)
      /\ Len(formats) <= room.formats /\ Len(resolutions) <= room.resolutions
  BY <1>1 DEF TypeOK, SetupInv, ListsInBounds
<1>3. entry \in Entries
  <2>1. dev.formats \in Seq([format : DeviceFormats, sizes : Seq(Sizes(Nat \ {0}))])
    BY <1>1 DEF TypeOK, Device
  <2>2. format_count + 1 \in 1 .. Len(dev.formats)
    BY <1>1, <2>1, LenProperties
  <2>3. listed \in [format : DeviceFormats, sizes : Seq(Sizes(Nat \ {0}))]
    BY <2>1, <2>2, ElementOfSeq
  <2>4. j + 1 \in 1 .. Len(listed.sizes)
    BY <1>1, <2>3, LenProperties
  <2>5. listed.sizes[j + 1] \in Sizes(Nat)
    BY <2>3, <2>4, ElementOfSeq, SizesTyped
  <2>6. QED
    BY <2>3, <2>5
<1>4. /\ resolutions' = Append(resolutions, entry)
      /\ resolution_index' =
           IF listed.format = AskedFormat /\ listed.sizes[j + 1] = AskedSize
           THEN Len(resolutions) ELSE resolution_index
      /\ room' = [room EXCEPT !.resolutions =
                    IF @ = 0 THEN 1 ELSE Len(resolutions) + 1]
      /\ j' = j + 1
      /\ UNCHANGED <<format_in, size, device, mapped, i, formats, format_count,
                     format_index, framebuffer_size>>
  BY DEF EnumSize
<1>5. /\ room'.resolutions = IF room.resolutions = 0 THEN 1
                                                     ELSE Len(resolutions) + 1
      /\ room'.formats = room.formats
  BY <1>1, <1>2, <1>4
<1>6. /\ resolutions' \in Seq(Entries)
      /\ Len(resolutions') = Len(resolutions) + 1
      /\ Len(resolutions) + 1 <= room'.resolutions
      /\ room'.resolutions \in Nat
      /\ \A n \in 1 .. Len(resolutions) : resolutions'[n] = resolutions[n]
      /\ resolutions'[Len(resolutions) + 1] = entry
  BY <1>2, <1>3, <1>4, <1>5, AppendInBounds
<1>7. room' \in [formats : Nat, resolutions : Nat]
  BY <1>2, <1>4, <1>5, <1>6
<1>8. resolution_index' \in Nat \cup {Unset}
  BY <1>1, <1>2, <1>4, LenProperties DEF TypeOK
<1>9. TypeOK'
  <2>1. j' \in Nat /\ tries' \in Tries
    BY <1>1, <1>4
  <2>2. UNCHANGED <<format_in, size, asked, dev, current, granted, queued,
                    streaming, mapped, i, formats, format_count,
                    format_index, framebuffer_size>>
    BY <1>4 DEF device
  <2> HIDE DEF listed, entry
  <2>3. QED
    BY <1>1, <1>6, <1>7, <1>8, <2>1, <2>2 DEF TypeOK
<1>10. RingInv' /\ SizeInv'
  BY <1>1, <1>4, EnumerationKeepsRing DEF device, Enumerating, Filled
<1>11. CountInv'
  BY <1>1, <1>4 DEF SetupInv, CountInv, device, Enumerating, Filled
<1>12. IndexInv' /\ ListsInBounds'
  <2> DEFINE wanted == [format |-> AskedFormat, size |-> AskedSize]
  <2>1. resolution_index' # Unset =>
          /\ resolution_index' < Len(resolutions')
          /\ resolutions'[resolution_index' + 1] = wanted
    <3>1. CASE listed.format = AskedFormat /\ listed.sizes[j + 1] = AskedSize
      <4>1. resolution_index' = Len(resolutions) /\ entry = wanted
        BY <1>4, <3>1
      <4>2. QED
        BY <1>2, <1>6, <4>1, LenProperties
    <3>2. CASE ~(listed.format = AskedFormat
                   /\ listed.sizes[j + 1] = AskedSize)
      <4>1. resolution_index' = resolution_index
        BY <1>4, <3>2
      <4>2. SUFFICES ASSUME resolution_index # Unset
                     PROVE  /\ resolution_index < Len(resolutions')
                            /\ resolutions'[resolution_index + 1] = wanted
        BY <4>1
      <4>3. /\ resolution_index \in Nat
            /\ resolution_index < Len(resolutions)
            /\ resolutions[resolution_index + 1] = wanted
        BY <1>1, <4>2 DEF TypeOK, SetupInv, IndexInv, ListsInBounds
      <4>4. resolution_index + 1 \in 1 .. Len(resolutions)
        BY <1>2, <4>3, LenProperties
      <4>5. resolutions'[resolution_index + 1] = wanted
        BY <1>6, <4>3, <4>4
      <4>6. Len(resolutions) \in Nat
        BY <1>2, LenProperties
      <4>7. resolution_index < Len(resolutions')
        BY <1>6, <4>3, <4>6
      <4>8. QED
        BY <4>5, <4>7
    <3>3. QED
      BY <3>1, <3>2
  <2>2. QED
    BY <1>2, <1>4, <1>5, <1>6, <2>1
    DEF SetupInv, IndexInv, ListsInBounds, AskedFormat, AskedSize, device
<1>13. QED
  BY <1>9, <1>10, <1>11, <1>12 DEF SetupInv

(* The end of a list, and the framebuffer. *)
LEMMA EndsKeepInv ==
  ASSUME SetupInv, EnumFormatEnds \/ EnumSizesEnd \/ AllocateFramebuffer
  PROVE  SetupInv'
<1> USE ConstantsAssumed DEF ConstantsTyped
<1>0. TypeOK
  BY DEF SetupInv
<1>1. CASE EnumFormatEnds
  <2>1. pc' \in {pc, "panic", "alloc"} /\ tries' \in Tries /\ pc = "enumfmt"
    BY <1>0, <1>1, FailureGoesOn DEF EnumFormatEnds
  <2>2. CASE pc' = "alloc"
    <3>1. TypeOK'
      BY <1>0, <1>1, <2>1, <2>2 DEF EnumFormatEnds, TypeOK, device, lists
    <3>2. RingInv' /\ SizeInv'
      BY <1>1, <2>1, <2>2, EnumerationKeepsRing
      DEF EnumFormatEnds, device, Enumerating, Filled
    <3>3. CountInv' /\ IndexInv' /\ ListsInBounds'
      BY <1>1, <2>1, <2>2, ListsKept
      DEF EnumFormatEnds, device, Enumerating, Filled
    <3>4. QED
      BY <3>1, <3>2, <3>3 DEF SetupInv
  <2>3. CASE pc' \in {pc, "panic"}
    BY <1>1, <2>1, <2>3, FailureKeepsInv DEF EnumFormatEnds
  <2>4. QED
    BY <2>1, <2>2, <2>3
<1>2. CASE EnumSizesEnd
  <2>1. pc' \in {pc, "panic", "enumfmt"} /\ tries' \in Tries
        /\ pc = "enumsizes"
    BY <1>0, <1>2, FailureGoesOn DEF EnumSizesEnd
  <2>2. CASE pc' = "enumfmt"
    <3>1. format_count' = format_count + 1
      BY <1>2, <2>2 DEF EnumSizesEnd
    <3>2. TypeOK'
      BY <1>0, <1>2, <2>1, <2>2, <3>1 DEF EnumSizesEnd, TypeOK, device
    <3>3. RingInv' /\ SizeInv'
      BY <1>2, <2>1, <2>2, EnumerationKeepsRing
      DEF EnumSizesEnd, device, Enumerating, Filled
    <3>4. CountInv' /\ IndexInv' /\ ListsInBounds'
      BY <1>2, <2>1, <2>2, <3>1
      DEF EnumSizesEnd, SetupInv, CountInv, IndexInv, ListsInBounds, device,
          AskedFormat, AskedSize, Enumerating, Filled
    <3>5. QED
      BY <3>2, <3>3, <3>4 DEF SetupInv
  <2>3. CASE pc' \in {pc, "panic"}
    <3>1. UNCHANGED <<format_in, size, device, mapped, i, lists,
                      framebuffer_size>>
      BY <1>2, <2>1, <2>3 DEF EnumSizesEnd, lists
    <3>2. QED
      BY <2>1, <2>3, <3>1, FailureKeepsInv
  <2>4. QED
    BY <2>1, <2>2, <2>3
<1>3. CASE AllocateFramebuffer
  <2>1. size = current.size /\ current.size \in Sizes(Nat)
    BY <1>0, <1>3
    DEF AllocateFramebuffer, SetupInv, SizeInv, TypeOK, Negotiated, Mapped,
        Queued, Enumerating, Filled
  <2>2. TypeOK'
    BY <1>0, <1>3, <2>1, SizesTyped
    DEF AllocateFramebuffer, TypeOK, Terminal, device, lists
  <2>3. RingInv' /\ SizeInv'
    BY <1>3, <2>1
    DEF AllocateFramebuffer, SetupInv, RingInv, SizeInv, device, Filled,
        Enumerating, Queued, Mapped, Negotiated
  <2>4. CountInv' /\ IndexInv' /\ ListsInBounds'
    BY <1>3, ListsKept DEF AllocateFramebuffer, device, Enumerating, Filled
  <2>5. QED
    BY <2>2, <2>3, <2>4 DEF SetupInv
<1>4. QED
  BY <1>1, <1>2, <1>3

(* Every step of the set-up keeps SetupInv. *)
LEMMA SetupStep ==
  ASSUME SetupInv, Setup
  PROVE  SetupInv'
  BY NegotiationKeepsInv, RingKeepsInv, EnumFormatKeepsInv, EnumSizeKeepsInv,
     EndsKeepInv
  DEF Setup

(* With the set-up over, the ring is what CaptureLoop starts from, the     *)
(* framebuffer holds one frame, and the lists are in bounds.               *)
LEMMA SetupInvSuffices ==
  ASSUME SetupInv
  PROVE  RingReady /\ FramebufferFits /\ ListsInBounds
  BY DEF SetupInv, RingInv, SizeInv, RingReady, FramebufferFits, Filled,
     Enumerating, Queued, Mapped

(* SetupInv holds throughout, for any of the Requests. *)
LEMMA SetupInvHolds == Spec => []SetupInv
<1>1. Init => SetupInv
  BY SetupInvInitially, RequestsAssumption DEF Init
<1>2. SetupInv /\ [Next]_vars => SetupInv'
  <2> SUFFICES ASSUME SetupInv, [Next]_vars PROVE SetupInv'
    OBVIOUS
  <2>1. CASE Setup
    BY <2>1, SetupStep
  <2>2. CASE UNCHANGED vars
    BY <2>2
    DEF vars, SetupInv, TypeOK, RingInv, SizeInv, CountInv, IndexInv,
        ListsInBounds, AskedFormat, AskedSize
  <2>3. QED
    BY <2>1, <2>2 DEF Next, Terminated
<1>3. QED
  BY <1>1, <1>2, PTL DEF Spec

(* The set-up by itself, whatever it is asked for and wherever it fails:   *)
(* every variable stays in its set, and where it reaches its end the ring  *)
(* is complete, the framebuffer holds one frame and the lists are in       *)
(* bounds.                                                                 *)
THEOREM SetupCorrect ==
  Spec => [](TypeOK /\ RingReady /\ FramebufferFits /\ ListsInBounds)
<1>1. SetupInv => TypeOK /\ RingReady /\ FramebufferFits /\ ListsInBounds
  BY SetupInvSuffices DEF SetupInv
<1>2. QED
  BY <1>1, SetupInvHolds, PTL
==============================================================================
