---------------------- MODULE MCDesktopConversations ----------------------
(***************************************************************************)
(* Instance of DesktopConversations for TLC: one character, one caller.    *)
(***************************************************************************)
EXTENDS DesktopConversations

CONSTANTS mia, other, empty, hello, p1

MCCharacters == {mia}
MCCreated == {other}
MCTexts == {empty, hello}
MCCallers == {p1}
=============================================================================
