-------------------------- MODULE MCDownloadTracking --------------------------
EXTENDS DownloadTracking
=============================================================================
