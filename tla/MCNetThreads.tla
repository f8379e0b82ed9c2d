---------------------------- MODULE MCNetThreads ----------------------------
\* NetThreads with one IO thread and a listen thread.
EXTENDS NetThreads
OneIo == <<"io">>
=============================================================================
