----------------------------- MODULE MCSession -----------------------------
(* Small instances of Session for TLC. *)
EXTENDS Session

CONSTANTS room, news, u1, u2, none

NoChannels == {<<>>}
NewsOrNone == {<<>>, <<news>>}
RoomTwice == {<<>>, <<room, room>>}
=============================================================================
