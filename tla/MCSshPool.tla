------------------------------- MODULE MCSshPool -------------------------------
(* Small instances of SshPool: which hosts the start-up list names.        *)
EXTENDS SshPool

CONSTANTS h1, h2

(* Two servers, each in the list once.                                     *)
TwoHosts == <<h1, h2>>
================================================================================
