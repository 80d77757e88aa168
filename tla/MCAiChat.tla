-------------------------------- MODULE MCAiChat --------------------------------
EXTENDS AiChat
=============================================================================
