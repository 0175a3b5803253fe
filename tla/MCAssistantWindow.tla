--------------------------- MODULE MCAssistantWindow ----------------------------
(* Two messages: in one session, one after the other or crossing, in two, or    *)
(* from the draft each time; the user turns to any session in between.  The two *)
(* actions may have one id, in one run or in two.                               *)
EXTENDS AssistantWindow
===============================================================================
