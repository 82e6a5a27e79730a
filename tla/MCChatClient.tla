---------------------------- MODULE MCChatClient ----------------------------
(***************************************************************************)
(* ChatClient on small instances.                                          *)
(***************************************************************************)
EXTENDS ChatClient

(* Every kind of command, long and short forms among them; two rooms, one  *)
(* of them named by two words.                                             *)
UserLines ==
  {<<"/join", "r">>, <<"/j", "r", "s">>, <<"/message", "r", "hi">>,
   <<"/leave", "r">>, <<"/l", "r", "s">>, <<"/login">>, <<"/reg">>}

LoginLines == {<<"/join", "r">>, <<"/login">>, <<"/registar">>}

Strings ==
  {"", "Esc", "r", "s", "hi", "/join", "/j", "/message", "/m", "/leave", "/l",
   "/login", "/log", "/registar", "/reg", "/h"}

Rooms == {<<"r">>, <<"r", "s">>}
OneRoom == {<<"r">>}
=============================================================================
