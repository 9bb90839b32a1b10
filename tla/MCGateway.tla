----------------------------- MODULE MCGateway -----------------------------
(* Model-checking instance of Gateway.                                     *)
EXTENDS Gateway, TLC

Symmetry == Permutations(Requests) \cup Permutations(Ports)

\* Two IPv4 hosts, and two IPv6 hosts with a first group in common.
MCHosts == {<<"10.0.0.1">>, <<"10.0.0.2">>, <<"[2001", "db8", "", "1]">>,
            <<"[2001", "db8", "", "2]">>}
\* Unset (the default), and a rate at which a bucket never fills.
MCRates == {{}, {0}}
MCBursts == {{}}
=============================================================================
