-------------------------- MODULE DiscoveryParsers --------------------------
(***************************************************************************)
(* What the five sources make of what they are told: the list each         *)
(* publishes for the containers, routers, configuration files, servers and *)
(* proxy hosts it finds.  An application is its URL, the status and the    *)
(* upstream it is published with; names and wording are left out, and so   *)
(* is the text that Nginx files are: a file is a sequence of server blocks *)
(* and includes.                                                           *)
(***************************************************************************)
EXTENDS Naturals, Sequences, FiniteSets, SequencesExt

CONSTANTS
    Inputs,        \* what there is to be found: records of a source and its data
    HandlerLists,  \* Caddy's lists of handlers, a list after those nested in it
    SkippedPaths,  \* skipLocationPaths
    None           \* no host, URL, name or upstream

Elements(s) == {s[i] : i \in DOMAIN s}
IsList(s) == s \in Seq(Elements(s))

\* Lists are lists, what Caddy answers is finite, and no list of handlers is in itself.
ASSUME HandlersAssumption ==
    /\ IsList(HandlerLists)
    /\ \A k \in DOMAIN HandlerLists : IsList(HandlerLists[k])
    /\ \A k \in DOMAIN HandlerLists : \A h \in Elements(HandlerLists[k]) :
          h.handler = "subroute" => IsList(h.routes) /\ Elements(h.routes) \subseteq 1..k - 1

CaddyAssumption(servers) ==
    /\ IsFiniteSet(servers)
    /\ \A s \in servers : s.decodes =>
          /\ IsList(s.routes)
          /\ \A r \in Elements(s.routes) : IsList(r.hosts) /\ r.handle \in DOMAIN HandlerLists

TraefikAssumption(routers) == \A r \in Elements(routers) : IsList(r.rule)

\* An include is of a file that is there, or of nothing (0).
NginxAssumption(files) ==
    \A f \in Elements(files) :
        /\ IsList(f.items)
        /\ \A x \in Elements(f.items) :
              IF x.kind = "server" THEN IsList(x.names) /\ IsList(x.locations)
              ELSE x.kind = "include" /\ x.file \in DOMAIN files \cup {0}

ASSUME InputsAssumption ==
    \A i \in Inputs :
        /\ i.source \in {"docker", "traefik", "npm", "nginx", "caddy"}
        /\ IF i.source = "caddy" THEN CaddyAssumption(i.data) ELSE IsList(i.data)
        /\ i.source = "traefik" => TraefikAssumption(i.data)
        /\ i.source = "nginx" => NginxAssumption(i.data)

VARIABLES
    input,
    output   \* what the source has published

parseVars == <<input, output>>

Online(up) == IF up THEN "online" ELSE "offline"
Scheme(tls) == IF tls THEN "https" ELSE "http"
App(url, status, upstream) == [url |-> url, status |-> status, upstream |-> upstream]

\* The items of s at the indexes in keep.
Kept(s, keep) ==
    LET kept[n \in 0..Len(s)] ==
            IF n = 0 THEN <<>>
            ELSE IF n \in keep THEN Append(kept[n - 1], s[n]) ELSE kept[n - 1]
    IN  kept[Len(s)]

\* The first item of s that is something.
FirstOf(s) ==
    LET some == {i \in DOMAIN s : s[i] # None} IN IF some = {} THEN None ELSE s[Min(some)]

-----------------------------------------------------------------------------
(* Docker, Traefik and NPM: one application for each item that has all an   *)
(* application needs, in the order of the answer.                           *)

\* A label for the name, or else a name of the container's own.
DockerFits(c) == c.enable /\ (c.label \/ c.named) /\ c.url # None

DockerApps(containers) ==
    LET fit == Kept(containers, {i \in DOMAIN containers : DockerFits(containers[i])})
    IN  [i \in DOMAIN fit |-> App(fit[i].url, Online(fit[i].running), None)]

\* The first Host matcher whose argument is quoted by backticks.
ExtractHost(rule) ==
    LET hosts == {i \in DOMAIN rule : rule[i].matcher = "Host" /\ rule[i].ticks}
    IN  IF hosts = {} THEN None ELSE rule[Min(hosts)].host

TraefikFits(r) == ~r.internal /\ ExtractHost(r.rule) # None

TraefikApps(routers) ==
    LET fit == Kept(routers, {i \in DOMAIN routers : TraefikFits(routers[i])})
    IN  [i \in DOMAIN fit |->
            App(<<Scheme(~fit[i].web), ExtractHost(fit[i].rule)>>, Online(fit[i].enabled), None)]

NpmApps(hosts) ==
    LET fit == Kept(hosts, {i \in DOMAIN hosts : hosts[i].domains # <<>>})
    IN  [i \in DOMAIN fit |-> App(<<Scheme(fit[i].ssl), fit[i].domains[1]>>,
                                  Online(fit[i].enabled /\ fit[i].online), fit[i].forward)]

-----------------------------------------------------------------------------
(* Caddy.                                                                   *)

\* A reverse proxy has its first upstream, a subroute what is found in one of its routes.
\* (An upstream has an address or none; that an empty one would end the search is left out.)
UpstreamOf(h, found) ==
    CASE h.handler = "reverse_proxy" -> IF h.upstreams = <<>> THEN None ELSE h.upstreams[1]
      [] h.handler = "subroute"      -> FirstOf([r \in DOMAIN h.routes |-> found[h.routes[r]]])
      [] OTHER                       -> None

FindReverseProxyUpstream[k \in DOMAIN HandlerLists] ==
    FirstOf([i \in DOMAIN HandlerLists[k] |->
                UpstreamOf(HandlerLists[k][i], FindReverseProxyUpstream)])

\* What a route would publish.
CaddyRoute(tls, route) ==
    [i \in DOMAIN route.hosts |->
        App(<<Scheme(tls), route.hosts[i]>>, "online", FindReverseProxyUpstream[route.handle])]

\* A server that does not decode is passed over.
CaddyServer(server) ==
    IF ~server.decodes THEN <<>>
    ELSE FlattenSeq([i \in DOMAIN server.routes |-> CaddyRoute(server.tls, server.routes[i])])

\* The servers in the order in which the map is walked.  A host is published by the first
\* route that has it (seenHosts).
CaddyApps(servers) ==
    LET sites == FlattenSeq([i \in DOMAIN servers |-> CaddyServer(servers[i])])
        Host(i) == sites[i].url[2]
    IN  Kept(sites, {i \in DOMAIN sites : Host(i) # None /\ \A j \in 1..i - 1 : Host(j) # Host(i)})

-----------------------------------------------------------------------------
(* Nginx.                                                                   *)

MaxDepth == 3

\* The server blocks of each file, includes replaced by the content of what they include
\* as long as there are levels left; an include of nothing (0) is refused or not found.
ResolveIncludes(files) ==
    LET blocks[left \in 0..MaxDepth + 1] ==
            [f \in DOMAIN files |->
                FlattenSeq([i \in DOMAIN files[f].items |->
                    LET item == files[f].items[i]
                    IN  IF item.kind = "server" THEN <<item>>
                        ELSE IF item.file = 0 \/ left = 0 THEN <<>>
                        ELSE blocks[left - 1][item.file]])]
    IN  blocks[MaxDepth + 1]

ValidHost(block) == FirstOf(block.names)

Locations(block) ==
    LET Fits(l) == l.path \notin SkippedPaths /\ l.proxied
    IN  Kept(block.locations, {i \in DOMAIN block.locations : Fits(block.locations[i])})

\* Is there a proxy_pass in the block or in any of its locations, the skipped ones too?
ProxiedSomewhere(block) ==
    block.proxied \/ \E i \in DOMAIN block.locations : block.locations[i].proxied

Listed(apps, url) == \E i \in DOMAIN apps : apps[i].url = url

\* Mutant: only what the block itself has is not repeated.
AddOnceHere(apps, url) == Append(apps, App(url, "online", None))

AddOnce(apps, url) ==
    IF Listed(apps, url) THEN apps ELSE Append(apps, App(url, "online", None))

\* The locations that have not been seen (seenURLs).
AddLocations(apps, block) ==
    LET locations == Locations(block)
        added[n \in 0..Len(locations)] ==
            IF n = 0 THEN apps
            ELSE AddOnce(added[n - 1], <<Scheme(block.tls), ValidHost(block), locations[n].path>>)
    IN  added[Len(locations)]

\* When there are none, the host itself.
NginxBlock(apps, block) ==
    LET found == AddLocations(apps, block)
    IN  IF ValidHost(block) = None THEN apps
        ELSE IF found # apps \/ ~ProxiedSomewhere(block) THEN found
        ELSE AddOnce(apps, <<Scheme(block.tls), ValidHost(block), None>>)

\* The files one after another, but for those that isNginxConfigFile skips: directories,
\* hidden files and copies left by editors.
NginxApps(files) ==
    LET blocks == ResolveIncludes(files)
        read == FlattenSeq([f \in DOMAIN files |-> IF files[f].skipped THEN <<>> ELSE blocks[f]])
        apps[n \in 0..Len(read)] == IF n = 0 THEN <<>> ELSE NginxBlock(apps[n - 1], read[n])
    IN  apps[Len(read)]

-----------------------------------------------------------------------------
(* A discovery.                                                             *)

\* Caddy's servers are a map, walked in any order.
Published ==
    CASE input.source = "docker"  -> {DockerApps(input.data)}
      [] input.source = "traefik" -> {TraefikApps(input.data)}
      [] input.source = "npm"     -> {NpmApps(input.data)}
      [] input.source = "nginx"   -> {NginxApps(input.data)}
      [] input.source = "caddy"   -> {CaddyApps(s) : s \in SetToSeqs(input.data)}

ParseInit ==
    /\ input \in Inputs
    /\ output = None

\* The list is replaced as a whole; a source that is off, does not answer, answers with
\* another status (of which Traefik's looks at 401 alone) or with something else than a
\* list leaves what it has published.
Discover ==
    /\ output = None
    /\ output' \in Published
    /\ UNCHANGED input

-----------------------------------------------------------------------------
(* What should be published, said without regard to how it is found.        *)

Addresses == {app.url : app \in Elements(output)}

\* The addresses of all first upstreams, in the order in which they stand.
DialsOf(h, dials) ==
    CASE h.handler = "reverse_proxy" ->
            IF h.upstreams = <<>> \/ h.upstreams[1] = None THEN <<>> ELSE <<h.upstreams[1]>>
      [] h.handler = "subroute"      -> FlattenSeq([r \in DOMAIN h.routes |-> dials[h.routes[r]]])
      [] OTHER                       -> <<>>

Dials[k \in DOMAIN HandlerLists] ==
    FlattenSeq([i \in DOMAIN HandlerLists[k] |-> DialsOf(HandlerLists[k][i], Dials)])

FirstItem(s) == IF s = <<>> THEN None ELSE s[1]

CaddyRoutes(servers) ==
    UNION {{[tls |-> s.tls, hosts |-> Elements(r.hosts) \ {None}, dials |-> Dials[r.handle]] :
               r \in Elements(s.routes)} : s \in {t \in servers : t.decodes}}

\* Each host of each route once, in the scheme of a server that has it and with the
\* first upstream of one of its routes.
CaddyIsRight(servers) ==
    LET routes == CaddyRoutes(servers)
    IN  /\ {app.url[2] : app \in Elements(output)} = UNION {r.hosts : r \in routes}
        /\ \A i, j \in DOMAIN output : output[i].url[2] = output[j].url[2] => i = j
        /\ \A app \in Elements(output) : \E r \in routes :
              /\ app.url[2] \in r.hosts /\ app.url[1] = Scheme(r.tls)
              /\ app.upstream = FirstItem(r.dials)

\* Which blocks count: those of the files read, and of what these include.
Reached(files) ==
    LET read == {f \in DOMAIN files : ~files[f].skipped}
        Includes(f) == {item.file : item \in {x \in Elements(files[f].items) : x.kind = "include"}}
        near[n \in 0..MaxDepth + 1] ==
            IF n = 0 THEN read
            ELSE near[n - 1] \cup ((UNION {Includes(f) : f \in near[n - 1]}) \ {0})
    IN  near[MaxDepth + 1]

\* Each proxied location of a named server once; a server that proxies anything is there
\* with a location or with its host, and nothing else is.
NginxIsRight(files) ==
    LET blocks == {b \in UNION {Elements(files[f].items) : f \in Reached(files)} :
                      b.kind = "server" /\ ValidHost(b) # None}
        At(b, path) == <<Scheme(b.tls), ValidHost(b), path>>
        Paths(b) == {l.path : l \in Elements(Locations(b))}
        proxying == {b \in blocks : ProxiedSomewhere(b)}
    IN  /\ \A i, j \in DOMAIN output : output[i].url = output[j].url => i = j
        /\ \A b \in blocks : \A path \in Paths(b) : At(b, path) \in Addresses
        /\ \A b \in proxying : \E path \in Paths(b) \cup {None} : At(b, path) \in Addresses
        /\ Addresses \subseteq
             UNION {{At(b, path) : path \in Paths(b) \cup {None}} : b \in proxying}

\* Each router that names hosts once, with one of them.  One of whose matchers some are empty,
\* which Traefik refuses but lists, may be missing.
TraefikIsRight(routers) ==
    LET Hosts(r) == {m.host : m \in {n \in Elements(r.rule) : n.matcher = "Host" /\ n.ticks}}
        routed == {i \in DOMAIN routers : ~routers[i].internal /\ Hosts(routers[i]) \ {None} # {}}
        sound == {i \in routed : None \notin Hosts(routers[i])}
        At(i, app) == /\ app.url[1] = Scheme(~routers[i].web)
                      /\ app.url[2] \in Hosts(routers[i]) \ {None}
    IN  /\ Cardinality(sound) <= Len(output) /\ Len(output) <= Cardinality(routed)
        /\ \A i \in sound : \E app \in Elements(output) : At(i, app)
        /\ \A app \in Elements(output) : \E i \in routed : At(i, app)

\* A published list holds what its source holds, once where the source repeats itself
\* and the code does away with repetitions (Nginx, Caddy), and nothing else.
ListIsRight ==
    output # None =>
        CASE input.source = "docker" ->
                Addresses = {c.url : c \in {d \in Elements(input.data) :
                                               d.enable /\ d.url # None /\ (d.label \/ d.named)}}
          [] input.source = "traefik" -> TraefikIsRight(input.data)
          [] input.source = "npm" ->
                Len(output) = Cardinality({i \in DOMAIN input.data : input.data[i].domains # <<>>})
          [] input.source = "nginx" -> NginxIsRight(input.data)
          [] input.source = "caddy" -> CaddyIsRight(input.data)
=============================================================================
