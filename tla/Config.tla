--------------------------------- MODULE Config ---------------------------------
(***************************************************************************)
(* The configuration of a server and its virtual hosts: the directives,    *)
(* the merge after all of them (post config) and what a child process adds *)
(* (child init), in modules/oauth/*.cpp, modules/http/mod-ssltunnel.cpp    *)
(* and modules/server/mod-eval.hpp.                                        *)
(*                                                                         *)
(* A configuration has its settings by their names, <<>> where there is    *)
(* none; a module has one for "main" and for each virtual host.  A value   *)
(* that a child process makes is marked with the process.  The components  *)
(* of a composite are in a module of their own, ModEval.                   *)
(***************************************************************************)
EXTENDS Sequences, Functions, TLC

NoConf(settings) == [n \in settings |-> <<>>]
setAll(confs, Merge(_, _)) == [s \in DOMAIN confs |-> Merge(confs[s], confs["main"])]
Inherited(conf, main, settings) == [n \in DOMAIN conf |-> IF n \in settings /\ conf[n] = <<>> THEN main[n] ELSE conf[n]]
Made(process, v) == [process |-> process, of |-> v]

\* mod-oauth1 and mod-oauth2.  A list of settings has the last one first.
oauthSettings == {"ca", "cert", "key", "appkeys", "mcaddrs", "mc", "cs"}
oauth1Command(conf, n, v) == [conf EXCEPT ![n] = IF n \in {"appkeys", "mcaddrs"} THEN <<v>> \o @ ELSE <<v>>]
oauth2Command(conf, n, v) == oauth1Command(conf, n, v)
oauth1Merge(conf, main) == [Inherited(conf, main, {"appkeys", "mcaddrs"}) EXCEPT !.mc = main.mc, !.cs = main.cs]
oauth1PostConfig(confs) == setAll(confs, oauth1Merge)
oauth2Merge(conf, main) == oauth1Merge(conf, main)
oauth2PostConfig(confs) == setAll(confs, oauth2Merge)
\* A process has connections and sessions of its own.
oauthStarted(main, process) ==
    [main EXCEPT !.mc = Made(process, IF main.mcaddrs = <<>> THEN <<<<"localhost">>>> ELSE main.mcaddrs),
                 !.cs = Made(process, <<main.ca, main.cert, main.key>>)]
\* Mutant: what the process made is not merged into the virtual hosts.
oauth1ChildInitAlone(confs, process) == [confs EXCEPT !["main"] = oauthStarted(@, process)]
oauth1ChildInit(confs, process) == setAll([confs EXCEPT !["main"] = oauthStarted(@, process)], oauth1Merge)
oauth2ChildInit(confs, process) == setAll([confs EXCEPT !["main"] = oauthStarted(@, process)], oauth2Merge)

\* mod-ssltunnel.  A server that passes connections on has the host and the path of the target.
tunnelSettings == {"ca", "cert", "key", "pass", "host", "path"}
tunnelCommand(conf, n, v) == [conf EXCEPT ![n] = <<v>>]
tunnelMerge(conf, main) ==
    LET merged == Inherited(conf, main, {"ca", "cert", "key"})
    IN IF conf.pass = <<>> THEN merged
       ELSE [merged EXCEPT !.host = <<conf.pass[1][1]>>, !.path = <<conf.pass[1][2]>>]
tunnelPostConfig(confs) == setAll(confs, tunnelMerge)

\* mod-eval.  A virtual host of the server has the composite of the main one, whatever it was told.
evalSettings == {"contribPath", "composName", "domain", "contributorName", "authenticatorName", "ca", "cert", "key", "timeout",
                 "contributor", "authenticator", "impls"}
evalCommand(conf, n, v) == [conf EXCEPT ![n] = <<v>>]
evalMerge(conf, main) == [main EXCEPT !.ca = Inherited(conf, main, {"ca"}).ca, !.cert = Inherited(conf, main, {"cert"}).cert,
                                      !.key = Inherited(conf, main, {"key"}).key]
\* The components of the composite are there, not started.
evalPostConfig(confs) == setAll([confs EXCEPT !["main"].impls = Made("parent", confs["main"].composName)], evalMerge)
\* The contributor of the composites of virtual hosts and their authenticator are started components of that name.
evalChildInit(confs, process) ==
    LET StartedOf(w) == IF w = <<>> THEN <<>> ELSE Made(process, w)
        Started(main) == [main EXCEPT !.impls = Made(process, main.composName),
                                      !.contributor = StartedOf(main.contributorName),
                                      !.authenticator = StartedOf(main.authenticatorName)]
    IN setAll([confs EXCEPT !["main"] = Started(@)], evalMerge)
=============================================================================
