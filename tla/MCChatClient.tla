---------------------------- MODULE MCChatClient -----------------------------
(***************************************************************************)
(* A client with a buffer of eight characters and three texts: with the    *)
(* thread number, the action and the separators they make messages of six, *)
(* eight and five, so that two do not fit and a shorter one follows a      *)
(* longer one.                                                             *)
(***************************************************************************)
EXTENDS ChatClient

MCTexts == << <<"a", "a">>, <<"b", "b", "b", "b">>, <<"c">> >>
==============================================================================
