------------------------------ MODULE MCJsonStore -------------------------------
(* Four calls over a file that is missing, empty or filled.                    *)
EXTENDS JsonStore

CONSTANTS c1, c2, c3, c4

MCCalls == {c1, c2, c3, c4}
MCStored == {{}, {{}}, {{c1}}, {{c1, c2}}}
===============================================================================
