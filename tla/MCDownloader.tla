---------------------------- MODULE MCDownloader ----------------------------
EXTENDS Downloader
CONSTANTS j1, j2, j3, v1, v2

\* Two jobs with the same version but other settings, and one with another.
MCVersion == [j \in Jobs |-> IF j = j3 THEN v2 ELSE v1]
=============================================================================
