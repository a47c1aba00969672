--------------------------- MODULE MCWorkPipeline ---------------------------
EXTENDS WorkPipeline
=============================================================================
