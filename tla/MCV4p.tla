------------------------------- MODULE MCV4p -------------------------------
\* Instance of V4p: one mode of the display and captures it can show as they
\* are, cropped, or not at all.
EXTENDS V4p

MCGeometries ==
    {[width |-> 2, height |-> 1, format |-> "RGB24"],
     [width |-> 2, height |-> 2, format |-> "RGB24"],
     [width |-> 1, height |-> 1, format |-> "RGB24"],
     [width |-> 2, height |-> 1, format |-> "JPEG"]}
MCModes == <<[width |-> 2, height |-> 1, preferred |-> TRUE]>>
=============================================================================
