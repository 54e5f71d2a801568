----------------------------- MODULE MCSigningKey -----------------------------
(* Small instances of SigningKey, whose values are all in the .cfg.        *)
EXTENDS SigningKey
================================================================================
