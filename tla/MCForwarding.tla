---------------------------- MODULE MCForwarding ----------------------------
(***************************************************************************)
(* The loads of the runs of Forwarding.                                    *)
(***************************************************************************)
EXTENDS Forwarding

\* Joining and leaving; a shutdown amid broadcasts; components and their
\* subscriptions; custom messages; receipts.
MCLoads == {{"join", "announce", "answer", "stall"}, {"announce", "stall", "shutdown"},
            {"component", "stall"}, {"custom", "stall"}, {"receipt", "shutdown"}}

=============================================================================
