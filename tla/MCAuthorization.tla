--------------------------- MODULE MCAuthorization ---------------------------
(***************************************************************************)
(* Two token ids; configurations and payloads without tokens, with one,   *)
(* with the other; and a payload that does not parse.                      *)
(***************************************************************************)
EXTENDS Authorization

CONSTANTS t1, t2

MCTokenSets == {{}, {t1}, {t2}}
MCPayloads  == MCTokenSets \cup {Malformed}

=============================================================================
