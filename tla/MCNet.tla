------------------------------- MODULE MCNet -------------------------------
(* Two hosts and a loopback one, a redirect that moves one of them to the  *)
(* other, an address without a port, and listeners that share a name.      *)
EXTENDS Net

Host(h, p) == [host |-> h, port |-> p]
MCWanted == {Host("a", "80"), Host("::1", "80"), Host("a", "none")}
MCRedirects == <<[src |-> Host("b", ""), dst |-> Host("", "81")],
                 [src |-> Host("a", "80"), dst |-> Host("b", "")]>>
MCListenerNames == <<"", "extra", "extra">>

=============================================================================
