------------------------------ MODULE MCWorker ------------------------------
\* Handlers that stream and print again, that read their body, leave an
\* output buffer open and defer.  Each may return, exit, throw or die at any point.
EXTENDS Worker

MCScripts == {<<"header", "flush", "echo">>, <<"read", "buffer", "defer">>}

=============================================================================
