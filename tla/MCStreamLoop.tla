---------------------------- MODULE MCStreamLoop ----------------------------
\* Instances of StreamLoop: what uStreamer may be started with.
EXTENDS StreamLoop

MCSetups == {[bufs |-> 2, workers |-> 2, sinks |-> {"h264"}, drm |-> FALSE],
             [bufs |-> 1, workers |-> 1, sinks |-> {}, drm |-> TRUE]}

MCRawOnly == {[bufs |-> 3, workers |-> 1, sinks |-> {"raw"}, drm |-> FALSE]}
MCJpegOnly == {[bufs |-> 2, workers |-> 1, sinks |-> {}, drm |-> FALSE]}
=============================================================================
