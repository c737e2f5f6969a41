----------------------------- MODULE MCSession ------------------------------
(* A small instance of Session for TLC.                                    *)
EXTENDS Session, TLC

CONSTANTS p1, p2

\* Nothing on the command line or in the environment.
MCGiven == [key \in {"whitelist-enabled", "enforce-whitelist", "online-mode"} |-> NothingGiven]

MCEnforced == [key \in {"whitelist-enabled", "enforce-whitelist", "online-mode"} |-> "true"]

\* What config.yml may say.
MCFiles == {MCEnforced, Malformed}
=============================================================================
