------------------------------- MODULE MCDIV -------------------------------
(* Values of the constants of DIV for model checking: every DIVU and every *)
(* REM of 8-bit words and the boundary values of the other two under one   *)
(* tag, and a few divisions under every tag after it.                      *)
EXTENDS DIV

Bytes == 0 .. 255

Edges == {0, 1, 2, 3, 7, 100, 127, 128, 129, 130, 200, 253, 254, 255}

WorkDIV ==
    [tag : {0}, op : {"DIVU", "REM"}, x : Bytes, d : Bytes]
      \cup [tag : {0}, op : {"DIV", "REMU"}, x : Edges, d : Edges]

LaterDIV ==
    [tag : RobTags, op : {"DIV", "REM"}, x : {128, 249}, d : {0, 2, 255}]

=============================================================================
