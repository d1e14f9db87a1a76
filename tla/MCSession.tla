------------------------------ MODULE MCSession ------------------------------
(* One wordlist entry, one nmap path, one seed that adds a directory, a user *)
(* who excludes, injects, pauses, stops and changes the concurrency, a scan   *)
(* resumed once.                                                            *)
EXTENDS Session

CONSTANTS a, b

MCName == {a, b}
MCGenerate == [n \in MCName |-> {b}]
MCSeedPaths == {<<a, b>>}
MCPatterns == {[glob |-> FALSE, path |-> <<b>>], [glob |-> TRUE, path |-> <<a>>]}
MCOutOfScope == {<<a, a>>}
=============================================================================
