--------------------------- MODULE MCJanusPlugin ---------------------------
\* Instance of JanusPlugin. The threads that walk through the list of sessions
\* are met by one session, the flags by two.
EXTENDS JanusPlugin

CONSTANTS s1, s2

MCVisitors == [sink |-> {s1}, sound |-> {s1}, bare |-> {s1, s2}]
=============================================================================
