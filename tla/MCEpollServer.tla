---------------------------- MODULE MCEpollServer ----------------------------
(* Instances of EpollServer: requests without a Host header, which matters *)
(* to the root only, or with and without one.                              *)
EXTENDS EpollServer

Blog == [blog |-> "blog"]
NoHost == [host : {None}, close : BOOLEAN]
AnyHost == [host : {"blog", None}, close : {FALSE}]
=============================================================================
