------------------------------ MODULE MCParsers ------------------------------
(* Bounded inputs for DiscoveryParsers.                                     *)
EXTENDS Naturals, Sequences

CONSTANTS h1, h2, none

UpTo(S, n) == UNION {[1..m -> S] : m \in 0..n}
Of(source, data) == {[source |-> source, data |-> d] : d \in data}

Containers == [enable : BOOLEAN, label : BOOLEAN, named : BOOLEAN, url : {h1, none}, running : BOOLEAN]

Rules == {<<>>} \cup
    {<<[matcher |-> m, ticks |-> t, host |-> h1]>> : m \in {"Host", "PathPrefix"}, t \in BOOLEAN} \cup
    {<<[matcher |-> "Host", ticks |-> t, host |-> h], [matcher |-> "Host", ticks |-> TRUE, host |-> h2]>> :
        t \in BOOLEAN, h \in {h1, none}}
Routers == [internal : BOOLEAN, rule : Rules, web : BOOLEAN, enabled : {TRUE}]

ProxyHosts == [domains : {<<>>, <<h1>>, <<h2, h1>>}, ssl : BOOLEAN, enabled : BOOLEAN,
               online : BOOLEAN, forward : {h2}]

Proxy(upstreams) == [handler |-> "reverse_proxy", upstreams |-> upstreams, routes |-> <<>>]
Subroute(routes) == [handler |-> "subroute", upstreams |-> <<>>, routes |-> routes]

\* The first is no handler at all; the second, the fifth and the seventh are those of routes.
MCHandlerLists ==
    << <<>>,
       <<Proxy(<<h1>>)>>, <<Proxy(<<>>)>>, <<Proxy(<<h2, h1>>)>>,
       <<Subroute(<<3, 4>>), Proxy(<<h1>>)>>,
       <<Subroute(<<>>)>>,
       <<Subroute(<<6>>), Proxy(<<none>>)>> >>
Handles == {2, 5, 7}
Routes == [hosts : {<<h1>>, <<none, h2, h1>>}, handle : Handles]
Servers == [decodes : BOOLEAN, tls : BOOLEAN, routes : {<<r>> : r \in Routes}]
    \cup [decodes : {TRUE}, tls : BOOLEAN, routes : {<<[hosts |-> <<h1>>, handle |-> 1], r>> : r \in Routes}]

Blocks ==
    LET Location(path, proxied) == [path |-> path, proxied |-> proxied]
    IN  [kind : {"server"}, names : {<<none>>, <<none, h1>>}, tls : BOOLEAN, proxied : BOOLEAN,
         locations : {<<>>, <<Location("/", TRUE)>>, <<Location("/a", TRUE)>>, <<Location("/a", FALSE)>>,
                      <<Location("/a", TRUE), Location("/b", TRUE)>>}]
Include(f) == [kind |-> "include", file |-> f]

\* Two files, each of which may include the other, or something that is not there.
Directories ==
    {<<[skipped |-> s, items |-> <<x, Include(i)>>], [skipped |-> t, items |-> <<Include(j), y>>]>> :
        s \in {FALSE}, t \in BOOLEAN, i \in {0, 2}, j \in {1}, 
        x \in {b \in Blocks : b.names # <<none>>}, y \in Blocks}

MCInputs ==
    Of("docker", UpTo(Containers, 2)) \cup Of("traefik", UpTo(Routers, 2))
    \cup Of("npm", UpTo(ProxyHosts, 2)) \cup Of("nginx", Directories)
    \cup Of("caddy", {{s, t} : s \in Servers, t \in Servers})
==============================================================================
