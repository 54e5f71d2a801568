---------------------------- MODULE MCDomainMapper ----------------------------
(* Small instances of DomainMapper. *)
EXTENDS DomainMapper, TLC

CONSTANTS d1, d2, i1, i2

(* Two servers with an address each; a shared address; a server in two of  *)
(* the settings; a server without an address.                              *)
MCConfigs ==
    {<< <<d1, {i1}>>, <<d2, {i2}>> >>,
     << <<d1, {i1, i2}>>, <<d2, {i2}>> >>,
     << <<d1, {i1}>>, <<d2, {i2}>>, <<d1, {i2}>> >>,
     << <<d1, {}>>, <<d2, {i1}>> >>}
================================================================================
