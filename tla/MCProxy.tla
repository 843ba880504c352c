------------------------------ MODULE MCProxy -------------------------------
(***************************************************************************)
(* Bounds for Proxy.  Requests share nothing here, so one shows every      *)
(* path.  The codes are 0.4, 200, 399.5, 400, 599.5 and 1002, and -1: on   *)
(* either side of each bound of LogicalErrorStatus.                        *)
(***************************************************************************)
EXTENDS Proxy

CONSTANT r1

MCCodes == {-10, 4, 2000, 3995, 4000, 5995, 10020}

=============================================================================
