---------------------------- MODULE MCEncoders ----------------------------
\* Instance of Encoders: an uncompressed and a JPEG source.
EXTENDS Encoders

MCGeometries ==
    {[width |-> 2, height |-> 1, format |-> "RGB24"],
     [width |-> 1, height |-> 1, format |-> "JPEG"]}
MCBlank == [width |-> 2, height |-> 1, format |-> "RGB24"]
=============================================================================
