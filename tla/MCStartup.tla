----------------------------- MODULE MCStartup -----------------------------
(***************************************************************************)
(* Startup with command lines that repeat options, leave ranges, name      *)
(* directories from elsewhere and ask for what does not exist; the camera  *)
(* is any of MCDeviceSetup's.                                              *)
(***************************************************************************)
EXTENDS Startup, MCDeviceSetup

Cam == <<"home", "cam">>
MCDirectories == {<<>>, <<"home">>, Cam}
MCFiles == {<<"home", "file">>}
MCStarts == {<<>>, <<"home">>}
MCCamera == <<"dev", "video0">>

MCCommandLines ==
  { <<>>,
    << [width |-> 1], [width |-> 3] >>,
    << [height |-> 0], [format |-> "yuv"] >>,
    << [width |-> -1], [format |-> "z16"] >>,
    << [format |-> "yuv"], [fps |-> 0], [quality |-> 300] >>,
    << [format |-> "mjpg"], [fps |-> 60], [fps |-> 7], [quality |-> -1] >>,
    << [daemon |-> TRUE], [root |-> Relative(<<"cam">>)] >>,
    << [daemon |-> TRUE], [root |-> Absolute(Cam)], [width |-> 1] >>,
    << [daemon |-> TRUE], [device |-> Relative(MCCamera)] >>,
    << [device |-> Relative(MCCamera)] >>,
    << [root |-> Relative(<<"none">>)], [help |-> TRUE] >>,
    << [root |-> Relative(<<"file">>)] >>,
    << [help |-> TRUE], [daemon |-> TRUE] >>,
    << [daemon |-> TRUE], [config |-> "hawkeye.conf"] >> }   \* debian/init.d

AllFaults == FaultKinds
NoRequests == {}
=============================================================================
