------------------------------ MODULE MCModules ------------------------------
(* Two validations in one process that prefer either protocol first, one   *)
(* that they try twice, or one that is not supported after one that is.    *)
EXTENDS Modules

CONSTANTS v1, v2

EitherFirst == {<<"GraphSync", "bitswap">>, <<"bitswap", "GraphSync">>,
                <<"bitswap", "bitswap">>, <<"GraphSync", "http">>}
=============================================================================
