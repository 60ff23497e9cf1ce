--------------------------- MODULE TacticScriptMC ---------------------------
EXTENDS TacticScript

MCNames == {"a", "b"}

Does(needs, recycles) == [needs |-> needs, recycles |-> recycles]

\* Blocks as the scripts of psp/tactics register them.
MCPrograms == {
    \* tcp/eval_tcp.rb, local_ips, dns, nameserver, signpost_for_client
    [daemon |-> FALSE, blocks |-> <<Does({}, "may")>>],
    \* direct_connection/dc.rb
    [daemon |-> FALSE, blocks |-> <<Does({}, "may"), Does({"a", "b"}, "always")>>],
    \* openvpn/tactic.rb
    [daemon |-> FALSE, blocks |-> <<Does({}, "always"), Does({"a"}, "never"),
                                    Does({"b"}, "never")>>],
    \* iodine/tactic.rb
    [daemon |-> FALSE, blocks |-> <<Does({"a", "b"}, "always")>>],
    \* iodine/daemon.rb
    [daemon |-> TRUE, blocks |-> <<Does({}, "never"), Does({"a", "b"}, "never")>>],
    \* none of psp/tactics, but allowed
    [daemon |-> FALSE, blocks |-> <<Does({"a"}, "may"), Does({}, "never")>>]}
=============================================================================
