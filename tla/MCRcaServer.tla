----------------------------- MODULE MCRcaServer -----------------------------
(* Three clients that ask, and one with any call: up to three profiles to    *)
(* convert in batches of two, and a client that comes before, during or      *)
(* after the work of the BOLT thread.                                        *)
EXTENDS RcaServer

MCCalls(c) == CASE c = 4 -> {<< "execve", TRUE >>, << "execve", FALSE >>, << "execvp", TRUE >>,
                             << "new", FALSE >>, << "dummy", TRUE >>}
                [] OTHER -> {<< "execve", TRUE >>}
=============================================================================
