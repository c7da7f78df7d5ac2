------------------------------- MODULE MCPlan -------------------------------
(* Small instances of Plan for TLC. *)
EXTENDS Plan

\* No file, and one that an installer left and nobody has confirmed.
SomeConfig ==
    {None} \cup [repository : {"first"}, targets : {"home"}, paused : {FALSE}, confirmed : {FALSE}]

NoFile == {None}

\* What the script of an older backup says: folders nobody has confirmed.
SomeScript ==
    [repository : {"first"}, targets : {"home"}, paused : {FALSE}, confirmed : {FALSE}]
=============================================================================
