------------------------------ MODULE MCProgram ------------------------------
EXTENDS Program

\* With at most two devices and three storage chips, the program's own DIB and
\* another with room for a device, two that are full, and two that are too long
\* by a storage chip or a device.
MCShapes == {<<1>>, <<3>>, <<2, 1>>, <<1, 2>>, <<4>>, <<1, 1, 1>>}

MCMaxChanges == [d \in Drivers |-> IF d = "kilo_0" THEN 2 ELSE 0]
=============================================================================
