----------------------------- MODULE MC_CliConfig -----------------------------
(***************************************************************************)
(* Up to three tokens after the program name; addresses on the host "lh" *)
(* with and without the trailing "/", over http, https or no scheme.     *)
(***************************************************************************)
EXTENDS CliConfig

MCTokens == {"--conf", "--conf=a.toml", "--conf=", "b.toml"}
MCConfEq == ("--conf=a.toml" :> "a.toml") @@ ("--conf=" :> "")
MCNames == {"", "para"}
MCParaNames == {"", "user.p.para."}
MCBuildAddrs == {<<"http://", "l", "h">>, <<"http://", "l", "h", "/">>,
                 <<"https://", "l", "h">>, <<"l", "h">>}

=============================================================================
