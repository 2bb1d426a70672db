---------------------------- MODULE MCDeviceSetup ----------------------------
(***************************************************************************)
(* A small instance of DeviceSetup: cameras with every combination of      *)
(* missing node and capabilities, with lists of up to two formats of up to *)
(* two sizes, some of them lists the request cannot be met from.           *)
(***************************************************************************)
EXTENDS DeviceSetup

FormatLists ==
  { << [format |-> "YUYV", sizes |-> <<Size(1, 1), Size(2, 1)>>] >>,
    << [format |-> "YUYV", sizes |-> <<Size(1, 1)>>],
       [format |-> "Z16", sizes |-> <<Size(2, 1), Size(1, 1)>>] >>,
    << [format |-> "MJPG", sizes |-> <<Size(2, 1)>>],
       [format |-> "YUYV", sizes |-> <<Size(2, 1)>>] >>,
    << [format |-> "MJPG", sizes |-> <<Size(2, 1), Size(3, 1)>>],
       [format |-> "Z16", sizes |-> <<Size(3, 1)>>] >>,
    << [format |-> "Z16", sizes |-> <<Size(1, 2)>>] >> }

MCDevices ==
  [exists : BOOLEAN, capture : BOOLEAN, stream : BOOLEAN,
   grants : {NbBuffer - 1, NbBuffer, NbBuffer + 1}, formats : FormatLists]

DepthImages == {[format |-> "Z16", size |-> Size(2, 1)]}
NoFaults == {}
==============================================================================
