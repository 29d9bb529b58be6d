--------------------------- MODULE MCAiAssistant ---------------------------
\* Streams and sessions are numbers: the bounds alone make the instance.
EXTENDS AiAssistant
=============================================================================
