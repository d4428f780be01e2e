---------------------------- MODULE MCDispatcher ----------------------------
(* One connection.  Safety is checked over two recordings with queues of    *)
(* one frame and one frame that is counted; liveness over one recording (a  *)
(* generation is alone with its queues) with queues of two and frames that  *)
(* keep coming, two of them counted.                                        *)
EXTENDS Dispatcher

MCOne == 1
MCTwo == 2
=============================================================================
