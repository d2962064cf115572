---------------------------- MODULE MCReportAudio ----------------------------
\* Instances of ReportAudio for TLC.
EXTENDS ReportAudio
CONSTANTS a1, a2, w1
=============================================================================
